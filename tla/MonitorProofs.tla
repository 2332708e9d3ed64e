----------------------------- MODULE MonitorProofs -----------------------------
(***************************************************************************)
(* What the monitorer keeps, for every flow: proofs about Monitorer, and   *)
(* that WebPage is a monitorer with pages around it.                       *)
(*                                                                         *)
(* A thing (a group, a node, a stat, a link) goes through four steps: it   *)
(* enters the catch-up delta, then the pending one, and leaves them in the *)
(* same order.  Which of the four are still to be run decides what the two *)
(* deltas say of it: that is its Story, and the invariant is that all      *)
(* things have theirs.  The last part is about replays: where a page and   *)
(* a worker that send each other messages stand.  LivePageProofs goes on   *)
(* with what a live page shows.                                            *)
(***************************************************************************)
EXTENDS WebPage, SequenceLemmas, FiniteSetTheorems

---------------------------------------------------------------------------
(* Scripts: what is left to run, and in which order.                       *)

Scripted(sc) == DOMAIN sc = Threads /\ \A t \in Threads : sc[t] \in Seq(ToSet(sc[t]))

\* a is still to be run.
Left(sc, a) == \E t \in Threads : \E i \in DOMAIN sc[t] : sc[t][i] = a

\* a is there once at most.
Once(sc, a) == \A t, u \in Threads : \A i \in DOMAIN sc[t], j \in DOMAIN sc[u] :
                  sc[t][i] = a /\ sc[u][j] = a => t = u /\ i = j

\* b comes right after a, and nowhere else, unless a has been run.
Then(sc, a, b) == \A t \in Threads : \A i \in DOMAIN sc[t] :
    /\ sc[t][i] = a => i + 1 \in DOMAIN sc[t] /\ sc[t][i + 1] = b
    /\ sc[t][i] = b /\ i > 1 => sc[t][i - 1] = a

\* sc2 is sc after the first step of t.
Ran(sc, sc2, t) == sc[t] # <<>> /\ sc2 = [sc EXCEPT ![t] = Tail(@)]

\* A sequence is one of its own elements.
LEMMA SequenceOfItsOwn ==
  ASSUME NEW S, NEW q \in Seq(S)
  PROVE  q \in Seq(ToSet(q))
<1>1. /\ Len(q) \in Nat /\ DOMAIN q = 1 .. Len(q)
      /\ q = [i \in 1 .. Len(q) |-> q[i]]
  OBVIOUS
<1>2. \A i \in 1 .. Len(q) : q[i] \in ToSet(q) BY <1>1 DEF ToSet
<1>3. q \in [1 .. Len(q) -> ToSet(q)] BY <1>1, <1>2
<1> QED BY <1>1, <1>3

\* Running a step takes it from what is left, moves the others of its
\* goroutine by one, and leaves those of the others where they are.
LEMMA RanMoves ==
  ASSUME NEW sc, NEW sc2, NEW t \in Threads, Scripted(sc), Ran(sc, sc2, t)
  PROVE  /\ Scripted(sc2)
         /\ 1 \in DOMAIN sc[t] /\ Head(sc[t]) = sc[t][1]
         /\ \A u \in Threads : u # t => sc2[u] = sc[u]
         /\ \A i \in DOMAIN sc2[t] : i + 1 \in DOMAIN sc[t] /\ sc2[t][i] = sc[t][i + 1]
         /\ \A i \in DOMAIN sc[t] : i > 1 => i - 1 \in DOMAIN sc2[t] /\ sc2[t][i - 1] = sc[t][i]
         /\ \A u \in Threads : DOMAIN sc[u] \subseteq Nat \ {0} /\ DOMAIN sc2[u] \subseteq Nat \ {0}
<1> DEFINE s == sc[t]
           S == ToSet(s)
<1>1. s \in Seq(S) /\ s # <<>> BY DEF Scripted, Ran
<1>2. /\ Head(s) = s[1] /\ 1 \in DOMAIN s /\ Len(s) \in Nat /\ DOMAIN s = 1 .. Len(s)
      /\ Tail(s) \in Seq(S) /\ Len(Tail(s)) = Len(s) - 1
      /\ \A i \in 1 .. Len(s) - 1 : Tail(s)[i] = s[i + 1]
  <2> HIDE DEF s, S
  <2> QED BY <1>1
<1>3. sc2[t] = Tail(s) /\ DOMAIN sc2 = Threads /\ \A u \in Threads : u # t => sc2[u] = sc[u]
  BY DEF Scripted, Ran
<1>4. DOMAIN Tail(s) = 1 .. Len(s) - 1
  <2> HIDE DEF s
  <2> QED BY <1>1, <1>2
<1>5. Tail(s) \in Seq(ToSet(Tail(s)))
  BY <1>2, SequenceOfItsOwn
<1>6. Scripted(sc2) BY <1>3, <1>5 DEF Scripted
<1>7. \A u \in Threads : DOMAIN sc[u] \subseteq Nat \ {0} BY DEF Scripted
<1>8. \A u \in Threads : DOMAIN sc2[u] \subseteq Nat \ {0} BY <1>6 DEF Scripted
<1>9. \A i \in DOMAIN sc2[t] : i + 1 \in DOMAIN sc[t] /\ sc2[t][i] = sc[t][i + 1]
  <2> HIDE DEF s
  <2>1. \A i \in 1 .. Len(s) - 1 : i + 1 \in DOMAIN s /\ Tail(s)[i] = s[i + 1] BY <1>2
  <2> QED BY <2>1, <1>3, <1>4 DEF s
<1>10. \A i \in DOMAIN sc[t] : i > 1 => i - 1 \in DOMAIN sc2[t] /\ sc2[t][i - 1] = sc[t][i]
  <2> HIDE DEF s
  <2>1. \A i \in 1 .. Len(s) : i > 1 => i - 1 \in DOMAIN Tail(s) /\ Tail(s)[i - 1] = s[i] BY <1>2, <1>4
  <2> QED BY <2>1, <1>2, <1>3 DEF s
<1> QED BY <1>2, <1>3, <1>6, <1>7, <1>8, <1>9, <1>10

\* What is left afterwards is what was left, but for the step itself when it is there once.
LEMMA RanLeaves ==
  ASSUME NEW sc, NEW sc2, NEW t \in Threads, Scripted(sc), Ran(sc, sc2, t)
  PROVE  /\ Left(sc, Head(sc[t]))
         /\ \A x : Left(sc2, x) => Left(sc, x)
         /\ \A x : x # Head(sc[t]) /\ Left(sc, x) => Left(sc2, x)
         /\ Once(sc, Head(sc[t])) => ~Left(sc2, Head(sc[t]))
<1> USE RanMoves
<1>1. Left(sc, Head(sc[t])) BY DEF Left
<1>2. ASSUME NEW x, Left(sc2, x) PROVE Left(sc, x)
  <2>1. PICK u \in Threads : \E i \in DOMAIN sc2[u] : sc2[u][i] = x BY <1>2 DEF Left
  <2>2. PICK i \in DOMAIN sc2[u] : sc2[u][i] = x BY <2>1
  <2>3. CASE u = t BY <2>2, <2>3 DEF Left
  <2>4. CASE u # t BY <2>2, <2>4 DEF Left
  <2> QED BY <2>3, <2>4
<1>3. ASSUME NEW x, x # Head(sc[t]), Left(sc, x) PROVE Left(sc2, x)
  <2>1. PICK u \in Threads : \E i \in DOMAIN sc[u] : sc[u][i] = x BY <1>3 DEF Left
  <2>2. PICK i \in DOMAIN sc[u] : sc[u][i] = x BY <2>1
  <2>3. CASE u = t
    <3>1. i # 1 BY <2>2, <2>3, <1>3
    <3>2. i > 1 BY <3>1, <2>3
    <3> QED BY <2>2, <2>3, <3>2 DEF Left
  <2>4. CASE u # t BY <2>2, <2>4 DEF Left
  <2> QED BY <2>3, <2>4
<1>4. ASSUME Once(sc, Head(sc[t])), Left(sc2, Head(sc[t])) PROVE FALSE
  <2>1. PICK u \in Threads : \E i \in DOMAIN sc2[u] : sc2[u][i] = Head(sc[t]) BY <1>4 DEF Left
  <2>2. PICK i \in DOMAIN sc2[u] : sc2[u][i] = Head(sc[t]) BY <2>1
  <2>3. CASE u = t
    <3>1. i + 1 \in DOMAIN sc[t] /\ sc[t][i + 1] = Head(sc[t]) /\ i \in Nat \ {0} BY <2>2, <2>3
    <3>2. i + 1 = 1 BY <3>1, <1>4 DEF Once
    <3> QED BY <3>1, <3>2
  <2>4. CASE u # t
    <3>1. i \in DOMAIN sc[u] /\ sc[u][i] = Head(sc[t]) BY <2>2, <2>4
    <3> QED BY <3>1, <2>4, <1>4 DEF Once
  <2> QED BY <2>3, <2>4
<1> QED BY <1>1, <1>2, <1>3, <1>4

\* A step there once stays so.
LEMMA RanOnce ==
  ASSUME NEW sc, NEW sc2, NEW t \in Threads, Scripted(sc), Ran(sc, sc2, t),
         NEW a, Once(sc, a)
  PROVE  Once(sc2, a)
<1> USE RanMoves
<1> SUFFICES ASSUME NEW u \in Threads, NEW v \in Threads, NEW i \in DOMAIN sc2[u], NEW j \in DOMAIN sc2[v],
                    sc2[u][i] = a, sc2[v][j] = a
             PROVE  u = v /\ i = j
  BY DEF Once
<1>0. i \in Nat /\ j \in Nat OBVIOUS
<1>1. CASE u = t /\ v = t
  <2>1. i + 1 \in DOMAIN sc[u] /\ sc[u][i + 1] = a /\ j + 1 \in DOMAIN sc[v] /\ sc[v][j + 1] = a BY <1>1
  <2>2. i + 1 = j + 1 BY <2>1, <1>1 DEF Once
  <2> QED BY <2>2, <1>0, <1>1
<1>2. CASE u = t /\ v # t
  <2>1. i + 1 \in DOMAIN sc[u] /\ sc[u][i + 1] = a /\ j \in DOMAIN sc[v] /\ sc[v][j] = a BY <1>2
  <2> QED BY <2>1, <1>2 DEF Once
<1>3. CASE u # t /\ v = t
  <2>1. i \in DOMAIN sc[u] /\ sc[u][i] = a /\ j + 1 \in DOMAIN sc[v] /\ sc[v][j + 1] = a BY <1>3
  <2> QED BY <2>1, <1>3 DEF Once
<1>4. CASE u # t /\ v # t
  <2>1. i \in DOMAIN sc[u] /\ sc[u][i] = a /\ j \in DOMAIN sc[v] /\ sc[v][j] = a BY <1>4
  <2> QED BY <2>1 DEF Once
<1> QED BY <1>1, <1>2, <1>3, <1>4

\* Two steps that come in turn go on doing so.
LEMMA RanThen ==
  ASSUME NEW sc, NEW sc2, NEW t \in Threads, Scripted(sc), Ran(sc, sc2, t),
         NEW a, NEW b, Then(sc, a, b)
  PROVE  Then(sc2, a, b)
<1> USE RanMoves
<1> SUFFICES ASSUME NEW u \in Threads, NEW i \in DOMAIN sc2[u]
             PROVE  /\ sc2[u][i] = a => i + 1 \in DOMAIN sc2[u] /\ sc2[u][i + 1] = b
                    /\ sc2[u][i] = b /\ i > 1 => sc2[u][i - 1] = a
  BY DEF Then
<1>1. CASE u # t
  <2>1. i \in DOMAIN sc[u] /\ sc2[u] = sc[u] BY <1>1
  <2> QED BY <2>1 DEF Then
<1>2. CASE u = t
  <2>1. i \in Nat \ {0} /\ i + 1 \in DOMAIN sc[t] /\ sc2[t][i] = sc[t][i + 1] BY <1>2
  <2>2. (i + 1) + 1 \in DOMAIN sc[t] => i + 1 \in DOMAIN sc2[t] /\ sc2[t][i + 1] = sc[t][(i + 1) + 1]
    <3>1. (i + 1) + 1 > 1 /\ ((i + 1) + 1) - 1 = i + 1 BY <2>1
    <3> QED BY <3>1
  <2>3. i > 1 => sc2[t][i - 1] = sc[t][(i + 1) - 1]
    <3>1. ASSUME i > 1 PROVE i > 1 /\ i \in DOMAIN sc[t] /\ (i + 1) - 1 = i
      <4>1. i \in 1 .. Len(sc[t]) BY <2>1, <1>2 DEF Scripted
      <4> QED BY <4>1, <3>1, <2>1 DEF Scripted
    <3> QED BY <3>1
  <2>4. sc[t][i + 1] = a => (i + 1) + 1 \in DOMAIN sc[t] /\ sc[t][(i + 1) + 1] = b BY <2>1 DEF Then
  <2>5. sc[t][i + 1] = b /\ i + 1 > 1 => sc[t][(i + 1) - 1] = a BY <2>1 DEF Then
  <2>6. i + 1 > 1 BY <2>1
  <2> QED BY <1>2, <2>1, <2>2, <2>3, <2>4, <2>5, <2>6
<1> QED BY <1>1, <1>2

\* Of two steps that come in turn, the second one runs when the first has been
\* run, and next, if the first has been run and it has not.
LEMMA InTurn ==
  ASSUME NEW sc, Scripted(sc), NEW a, NEW b, Then(sc, a, b)
  PROVE  /\ Left(sc, a) => Left(sc, b)
         /\ Left(sc, b) /\ ~Left(sc, a) => \E t \in Threads : sc[t] # <<>> /\ Head(sc[t]) = b
         /\ Once(sc, b) => \A t \in Threads : sc[t] # <<>> /\ Head(sc[t]) = b => ~Left(sc, a)
<1>0. \A t \in Threads : /\ DOMAIN sc[t] \subseteq Nat \ {0}
                         /\ 1 \in DOMAIN sc[t] => sc[t] # <<>> /\ Head(sc[t]) = sc[t][1]
                         /\ sc[t] # <<>> => 1 \in DOMAIN sc[t]
                         /\ \A i \in DOMAIN sc[t] : i > 1 => i - 1 \in DOMAIN sc[t]
  <2> TAKE t \in Threads
  <2> DEFINE s == sc[t]
             S == ToSet(s)
  <2>1. s \in Seq(S) BY DEF Scripted
  <2> HIDE DEF s, S
  <2>2. /\ DOMAIN s \subseteq Nat \ {0}
        /\ 1 \in DOMAIN s => s # <<>> /\ Head(s) = s[1]
        /\ s # <<>> => 1 \in DOMAIN s
        /\ \A i \in DOMAIN s : i > 1 => i - 1 \in DOMAIN s
    BY <2>1
  <2> QED BY <2>2 DEF s
<1>1. Left(sc, a) => Left(sc, b) BY DEF Left, Then
<1>2. ASSUME Left(sc, b), ~Left(sc, a) PROVE \E t \in Threads : sc[t] # <<>> /\ Head(sc[t]) = b
  <2>1. PICK t \in Threads : \E i \in DOMAIN sc[t] : sc[t][i] = b BY <1>2 DEF Left
  <2>2. PICK i \in DOMAIN sc[t] : sc[t][i] = b BY <2>1
  <2>3. CASE i > 1
    <3>1. i - 1 \in DOMAIN sc[t] BY <2>3, <1>0
    <3>2. sc[t][i - 1] = a BY <2>2, <2>3 DEF Then
    <3> QED BY <3>1, <3>2, <1>2 DEF Left
  <2>4. CASE ~(i > 1)
    <3>1. i = 1 BY <2>4, <1>0
    <3> QED BY <3>1, <2>2, <1>0
  <2> QED BY <2>3, <2>4
<1>3. ASSUME Once(sc, b), NEW t \in Threads, sc[t] # <<>>, Head(sc[t]) = b, Left(sc, a) PROVE FALSE
  <2>1. PICK u \in Threads : \E i \in DOMAIN sc[u] : sc[u][i] = a BY <1>3 DEF Left
  <2>2. PICK i \in DOMAIN sc[u] : sc[u][i] = a BY <2>1
  <2>3. i + 1 \in DOMAIN sc[u] /\ sc[u][i + 1] = b /\ i \in Nat \ {0} BY <2>2, <1>0 DEF Then
  <2>4. 1 \in DOMAIN sc[t] /\ sc[t][1] = b BY <1>3, <1>0
  <2>5. i + 1 = 1 BY <2>3, <2>4, <1>3 DEF Once
  <2> QED BY <2>3, <2>5
<1> QED BY <1>1, <1>2, <1>3

---------------------------------------------------------------------------
(* Scripts that are made of handlers.                                      *)

StatDos  == {"AddValuer", "StatInCatchUp", "StatInDelta"}
StartDos == {"NodeInCatchUp", "NodeInDelta"}
EndDos   == {"DropStats", "RemoveValuers", "DropNode", "NodeDoneInDelta"}
LinkDos  == {"LinkInCatchUp", "LinkInDelta", "DropLink", "CutInDelta"}
GroupStartDos == {"GroupInCatchUp", "GroupInDelta"}
GroupEndDos   == {"DropGroup", "GroupDoneInDelta"}

\* A step a goroutine may run.
StepIn(t, x) ==
    \/ x.do \in LinkDos /\ x.of \in Links /\ x = Step(x.do, x.of)
    \/ t = UserThread /\ x.do \in StatDos /\ x.of \in Stats /\ x = Step(x.do, x.of)
    \/ t = UserThread /\ x.do \in StartDos /\ x.of \in Nodes /\ x = Step(x.do, x.of)
    \/ t = UserThread /\ x.do \in GroupStartDos /\ x.of \in Groups /\ x = Step(x.do, x.of)
    \/ t \in Nodes /\ t # UserThread /\ x.do \in EndDos /\ x.of = t /\ x = Step(x.do, x.of)
    \/ t \in Groups /\ t # UserThread /\ x.do \in GroupEndDos /\ x.of = t /\ x = Step(x.do, x.of)
Placed(sc) == \A t \in Threads : \A i \in DOMAIN sc[t] : StepIn(t, sc[t][i])

StatsInTurn(sc) == \A s \in Stats :
    /\ Then(sc, Step("AddValuer", s), Step("StatInCatchUp", s))
    /\ Then(sc, Step("StatInCatchUp", s), Step("StatInDelta", s))
NodesInTurn(sc) == \A n \in Nodes :
    /\ Then(sc, Step("NodeInCatchUp", n), Step("NodeInDelta", n))
    /\ Then(sc, Step("DropStats", n), Step("RemoveValuers", n))
    /\ Then(sc, Step("RemoveValuers", n), Step("DropNode", n))
    /\ Then(sc, Step("DropNode", n), Step("NodeDoneInDelta", n))
LinksInTurn(sc) == \A c \in Links :
    /\ Then(sc, Step("LinkInCatchUp", c), Step("LinkInDelta", c))
    /\ Then(sc, Step("DropLink", c), Step("CutInDelta", c))
GroupsInTurn(sc) == \A g \in Groups :
    /\ Then(sc, Step("GroupInCatchUp", g), Step("GroupInDelta", g))
    /\ Then(sc, Step("DropGroup", g), Step("GroupDoneInDelta", g))

\* Only links may come again.
Unique(sc) == \A x : x.do \notin LinkDos => Once(sc, x)

\* A node that has something left to run has its stats announced before it starts.
StatsFirst(sc) == \A n \in Nodes : sc[n] # <<>> =>
    \A i \in DOMAIN sc[UserThread] :
        sc[UserThread][i].do = "StatInDelta" /\ sc[UserThread][i].of.node = n =>
            \E j \in DOMAIN sc[UserThread] : j > i /\ sc[UserThread][j] = Step("NodeInDelta", n)

ScriptInv(sc) == /\ Scripted(sc) /\ Placed(sc) /\ Unique(sc) /\ StatsFirst(sc)
                 /\ StatsInTurn(sc) /\ NodesInTurn(sc) /\ LinksInTurn(sc) /\ GroupsInTurn(sc)

\* Handlers that have b right after each a and a right before each b make scripts that do.
Pairs(a, b, h) == \A k \in DOMAIN h : /\ h[k] = a => k < Len(h) /\ h[k + 1] = b
                                      /\ h[k] = b => k > 1 /\ h[k - 1] = a

\* What holds of the order in which every handler takes two steps holds of the scripts
\* made of handlers.
LEMMA MadeInTurn ==
  ASSUME NEW sc, Scripted(sc), NEW a, NEW b,
         \A t \in Threads : MadeOf(sc[t], HandlersOf(t)),
         \A t \in Threads : \A h \in HandlersOf(t) : /\ Len(h) \in Nat /\ DOMAIN h = 1 .. Len(h)
                                                   /\ Pairs(a, b, h)
  PROVE  Then(sc, a, b) /\ (Left(sc, b) => Left(sc, a))
<1>1. ASSUME NEW t \in Threads, NEW i \in DOMAIN sc[t]
      PROVE  /\ sc[t][i] = a => i + 1 \in DOMAIN sc[t] /\ sc[t][i + 1] = b
             /\ sc[t][i] = b => i - 1 \in DOMAIN sc[t] /\ sc[t][i - 1] = a
  <2>1. PICK h \in HandlersOf(t) : \E k \in DOMAIN h :
            /\ k <= i /\ i - k + Len(h) <= Len(sc[t])
            /\ \A j \in DOMAIN h : sc[t][i - k + j] = h[j]
    BY DEF MadeOf
  <2>2. PICK k \in DOMAIN h : /\ k <= i /\ i - k + Len(h) <= Len(sc[t])
                              /\ \A j \in DOMAIN h : sc[t][i - k + j] = h[j]
    BY <2>1
  <2>3. Len(h) \in Nat /\ DOMAIN h = 1 .. Len(h) /\ Pairs(a, b, h) OBVIOUS
  <2>4. Len(sc[t]) \in Nat /\ DOMAIN sc[t] = 1 .. Len(sc[t]) BY DEF Scripted
  <2>5. i \in Nat \ {0} /\ k \in Nat \ {0} /\ k <= Len(h) BY <2>3, <2>4
  <2>6. sc[t][i] = h[k]
    <3>1. i - k + k = i BY <2>5
    <3> QED BY <3>1, <2>2
  <2>7. ASSUME sc[t][i] = a PROVE i + 1 \in DOMAIN sc[t] /\ sc[t][i + 1] = b
    <3>1. k < Len(h) /\ h[k + 1] = b BY <2>6, <2>7, <2>3 DEF Pairs
    <3>2. k + 1 \in DOMAIN h /\ i - k + (k + 1) = i + 1 BY <3>1, <2>3, <2>5
    <3>3. i + 1 \in 1 .. Len(sc[t]) BY <3>1, <2>2, <2>3, <2>4, <2>5
    <3>4. sc[t][i - k + (k + 1)] = h[k + 1] BY <2>2, <3>2
    <3> QED BY <3>1, <3>2, <3>3, <3>4, <2>4
  <2>8. ASSUME sc[t][i] = b PROVE i - 1 \in DOMAIN sc[t] /\ sc[t][i - 1] = a
    <3>1. k > 1 /\ h[k - 1] = a BY <2>6, <2>8, <2>3 DEF Pairs
    <3>2. k - 1 \in DOMAIN h /\ i - k + (k - 1) = i - 1 BY <3>1, <2>3, <2>5
    <3>3. i - 1 \in 1 .. Len(sc[t]) BY <3>1, <2>2, <2>4, <2>5
    <3>4. sc[t][i - k + (k - 1)] = h[k - 1] BY <2>2, <3>2
    <3> QED BY <3>1, <3>2, <3>3, <3>4, <2>4
  <2> QED BY <2>7, <2>8
<1> QED BY <1>1 DEF Then, Left

\* The handlers, and their steps.
IsHandler(t, h) ==
    \/ \E c \in Links : h = Connected(c) \/ h = Disconnected(c)
    \/ t = UserThread /\ \/ \E s \in Stats : h = StatCreated(s)
                         \/ \E n \in Nodes : h = NodeRunning(n)
                         \/ \E g \in Groups : h = GroupRunning(g)
    \/ t \in Nodes /\ t # UserThread /\ h = NodeDone(t)
    \/ t \in Groups /\ t # UserThread /\ h = GroupDone(t)

\* HandlersOf lists the handlers of monitorNode and monitorGroup, by the goroutine that
\* runs them.
LEMMA HandlersAre ==
  ASSUME NEW t \in Threads, NEW h \in HandlersOf(t)
  PROVE  IsHandler(t, h)
BY DEF HandlersOf, IsHandler, Threads

\* A handler is a finite sequence of steps.
LEMMA HandlerLengths ==
  ASSUME NEW t \in Threads, NEW h, IsHandler(t, h)
  PROVE  Len(h) \in Nat /\ DOMAIN h = 1 .. Len(h)
BY DEF IsHandler, Connected, Disconnected, StatCreated, NodeRunning, GroupRunning, NodeDone, GroupDone

\* Every step of a handler is one that its goroutine may take.
LEMMA HandlerSteps ==
  ASSUME NEW t \in Threads, NEW h, IsHandler(t, h), NEW k \in DOMAIN h
  PROVE  StepIn(t, h[k])
<1>1. CASE \E c \in Links : h = Connected(c) \/ h = Disconnected(c)
  BY <1>1 DEF Connected, Disconnected, StepIn, Step, LinkDos
<1>2. CASE t = UserThread /\ \E s \in Stats : h = StatCreated(s)
  BY <1>2 DEF StatCreated, StepIn, Step, StatDos
<1>3. CASE t = UserThread /\ \E n \in Nodes : h = NodeRunning(n)
  BY <1>3 DEF NodeRunning, StepIn, Step, StartDos
<1>4. CASE t = UserThread /\ \E g \in Groups : h = GroupRunning(g)
  BY <1>4 DEF GroupRunning, StepIn, Step, GroupStartDos
<1>5. CASE t \in Nodes /\ t # UserThread /\ h = NodeDone(t)
  BY <1>5 DEF NodeDone, StepIn, Step, EndDos
<1>6. CASE t \in Groups /\ t # UserThread /\ h = GroupDone(t)
  BY <1>6 DEF GroupDone, StepIn, Step, GroupEndDos
<1> QED BY <1>1, <1>2, <1>3, <1>4, <1>5, <1>6 DEF IsHandler

\* Every pair of steps that the code makes in turn is so in every handler.
LEMMA HandlersInTurn ==
  ASSUME NEW t \in Threads, NEW h, IsHandler(t, h)
  PROVE  /\ \A s : /\ Pairs(Step("AddValuer", s), Step("StatInCatchUp", s), h)
                   /\ Pairs(Step("StatInCatchUp", s), Step("StatInDelta", s), h)
         /\ \A n : /\ Pairs(Step("NodeInCatchUp", n), Step("NodeInDelta", n), h)
                   /\ Pairs(Step("DropStats", n), Step("RemoveValuers", n), h)
                   /\ Pairs(Step("RemoveValuers", n), Step("DropNode", n), h)
                   /\ Pairs(Step("DropNode", n), Step("NodeDoneInDelta", n), h)
         /\ \A c : /\ Pairs(Step("LinkInCatchUp", c), Step("LinkInDelta", c), h)
                   /\ Pairs(Step("DropLink", c), Step("CutInDelta", c), h)
         /\ \A g : /\ Pairs(Step("GroupInCatchUp", g), Step("GroupInDelta", g), h)
                   /\ Pairs(Step("DropGroup", g), Step("GroupDoneInDelta", g), h)
<1>1. CASE \E c \in Links : h = Connected(c)
  BY <1>1 DEF Connected, Step, Pairs
<1>7. CASE \E c \in Links : h = Disconnected(c)
  BY <1>7 DEF Disconnected, Step, Pairs
<1>2. CASE t = UserThread /\ \E s \in Stats : h = StatCreated(s)
  <2>1. PICK s \in Stats : h = StatCreated(s) BY <1>2
  <2>2. /\ DOMAIN h = 1 .. 3 /\ Len(h) = 3
        /\ h[1] = [do |-> "AddValuer", of |-> s] /\ h[2] = [do |-> "StatInCatchUp", of |-> s]
        /\ h[3] = [do |-> "StatInDelta", of |-> s]
    BY <2>1 DEF StatCreated, Step
  <2>3. \A k \in DOMAIN h : k = 1 \/ k = 2 \/ k = 3 BY <2>2
  <2> HIDE <1>2, <2>1
  <2>4. \A x : Pairs(Step("AddValuer", x), Step("StatInCatchUp", x), h) BY <2>2, <2>3 DEF Step, Pairs
  <2>5. \A x : Pairs(Step("StatInCatchUp", x), Step("StatInDelta", x), h) BY <2>2, <2>3 DEF Step, Pairs
  <2>6. \A a, b : (\A k \in DOMAIN h : h[k] # a /\ h[k] # b) => Pairs(a, b, h) BY DEF Pairs
  <2>7. \A do, x : do \notin StatDos => \A k \in DOMAIN h : h[k] # Step(do, x) BY <2>2, <2>3 DEF Step, StatDos
  <2> QED BY <2>4, <2>5, <2>6, <2>7 DEF StatDos
<1>3. CASE t = UserThread /\ \E n \in Nodes : h = NodeRunning(n)
  BY <1>3 DEF NodeRunning, Step, Pairs
<1>4. CASE t = UserThread /\ \E g \in Groups : h = GroupRunning(g)
  BY <1>4 DEF GroupRunning, Step, Pairs
<1>5. CASE t \in Nodes /\ t # UserThread /\ h = NodeDone(t)
  <2>1. h = NodeDone(t) BY <1>5
  <2>2. /\ DOMAIN h = 1 .. 4 /\ Len(h) = 4
        /\ h[1] = [do |-> "DropStats", of |-> t] /\ h[2] = [do |-> "RemoveValuers", of |-> t]
        /\ h[3] = [do |-> "DropNode", of |-> t] /\ h[4] = [do |-> "NodeDoneInDelta", of |-> t]
    BY <2>1 DEF NodeDone, Step
  <2>3. \A k \in DOMAIN h : k = 1 \/ k = 2 \/ k = 3 \/ k = 4 BY <2>2
  <2> HIDE <1>5, <2>1
  <2>4. \A x : Pairs(Step("DropStats", x), Step("RemoveValuers", x), h) BY <2>2, <2>3 DEF Step, Pairs
  <2>5. \A x : Pairs(Step("RemoveValuers", x), Step("DropNode", x), h) BY <2>2, <2>3 DEF Step, Pairs
  <2>8. \A x : Pairs(Step("DropNode", x), Step("NodeDoneInDelta", x), h) BY <2>2, <2>3 DEF Step, Pairs
  <2>6. \A a, b : (\A k \in DOMAIN h : h[k] # a /\ h[k] # b) => Pairs(a, b, h) BY DEF Pairs
  <2>7. \A do, x : do \notin EndDos => \A k \in DOMAIN h : h[k] # Step(do, x) BY <2>2, <2>3 DEF Step, EndDos
  <2> QED BY <2>4, <2>5, <2>6, <2>7, <2>8 DEF EndDos
<1>6. CASE t \in Groups /\ t # UserThread /\ h = GroupDone(t)
  BY <1>6 DEF GroupDone, Step, Pairs
<1> QED BY <1>1, <1>2, <1>3, <1>4, <1>5, <1>6, <1>7 DEF IsHandler

\* Nothing is in the middle of a handler.
Whole(sc, a, b) == Left(sc, b) => Left(sc, a)
AllWhole(sc) ==
    /\ \A s \in Stats : /\ Whole(sc, Step("AddValuer", s), Step("StatInCatchUp", s))
                        /\ Whole(sc, Step("StatInCatchUp", s), Step("StatInDelta", s))
    /\ \A n \in Nodes : /\ Whole(sc, Step("NodeInCatchUp", n), Step("NodeInDelta", n))
                        /\ Whole(sc, Step("DropStats", n), Step("RemoveValuers", n))
                        /\ Whole(sc, Step("RemoveValuers", n), Step("DropNode", n))
                        /\ Whole(sc, Step("DropNode", n), Step("NodeDoneInDelta", n))
    /\ \A c \in Links : /\ Whole(sc, Step("LinkInCatchUp", c), Step("LinkInDelta", c))
                        /\ Whole(sc, Step("DropLink", c), Step("CutInDelta", c))
    /\ \A g \in Groups : /\ Whole(sc, Step("GroupInCatchUp", g), Step("GroupInDelta", g))
                         /\ Whole(sc, Step("DropGroup", g), Step("GroupDoneInDelta", g))

\* The script of a program is one.
LEMMA ProgramScript ==
  ASSUME NEW p, IsProgram(p)
  PROVE  ScriptInv(ScriptOf(p)) /\ AllWhole(ScriptOf(p))
<1> DEFINE sc == ScriptOf(p)
<1>1. Scripted(sc) BY DEF IsProgram, Scripted, ScriptOf
<1>2. \A t \in Threads : MadeOf(sc[t], HandlersOf(t)) BY DEF IsProgram
<1>3. \A t \in Threads : sc[t] \in Seq(ToSet(sc[t])) BY <1>1 DEF Scripted
<1>4. \A t, u \in Threads : \A i \in DOMAIN sc[t], j \in DOMAIN sc[u] :
           sc[t][i] = sc[u][j] /\ ~(t = u /\ i = j) =>
               sc[t][i].do \in {"LinkInCatchUp", "LinkInDelta", "DropLink", "CutInDelta"}
  BY DEF IsProgram
<1>5. StatsFirst(sc)
  <2>1. sc[UserThread] = p.user BY DEF ScriptOf, Threads
  <2>2. \A n \in Nodes : sc[n] # <<>> =>
           \A i \in DOMAIN p.user : p.user[i].do = "StatInDelta" /\ p.user[i].of.node = n =>
               \E j \in DOMAIN p.user : j > i /\ p.user[j] = Step("NodeInDelta", n)
    BY DEF IsProgram
  <2> HIDE DEF sc
  <2> QED BY <2>1, <2>2 DEF StatsFirst
<1> HIDE DEF sc
<1>6. Unique(sc) BY <1>4 DEF Unique, Once, LinkDos
<1>7. \A t \in Threads : \A h \in HandlersOf(t) : IsHandler(t, h) /\ Len(h) \in Nat /\ DOMAIN h = 1 .. Len(h)
  BY HandlersAre, HandlerLengths
<1>8. Placed(sc)
  <2> SUFFICES ASSUME NEW t \in Threads, NEW i \in DOMAIN sc[t] PROVE StepIn(t, sc[t][i])
    BY DEF Placed
  <2>1. PICK h \in HandlersOf(t) : \E k \in DOMAIN h :
            /\ k <= i /\ i - k + Len(h) <= Len(sc[t])
            /\ \A j \in DOMAIN h : sc[t][i - k + j] = h[j]
    BY <1>2 DEF MadeOf
  <2>2. PICK k \in DOMAIN h : \A j \in DOMAIN h : sc[t][i - k + j] = h[j] BY <2>1
  <2>3. k \in Nat /\ i \in Nat /\ i - k + k = i
    <3>1. k \in Nat BY <1>7
    <3>2. i \in Nat BY <1>3
    <3> QED BY <3>1, <3>2
  <2>4. sc[t][i] = h[k] BY <2>2, <2>3
  <2> QED BY <2>4, <1>7, HandlerSteps
<1>9. ASSUME NEW a, NEW b, \A t \in Threads : \A h \in HandlersOf(t) : Pairs(a, b, h)
      PROVE  Then(sc, a, b) /\ Whole(sc, a, b)
  BY <1>1, <1>2, <1>7, <1>9, MadeInTurn DEF Whole
<1>10. \A s \in Stats : /\ Then(sc, Step("AddValuer", s), Step("StatInCatchUp", s))
                        /\ Whole(sc, Step("AddValuer", s), Step("StatInCatchUp", s))
                        /\ Then(sc, Step("StatInCatchUp", s), Step("StatInDelta", s))
                        /\ Whole(sc, Step("StatInCatchUp", s), Step("StatInDelta", s))
  BY <1>7, <1>9, HandlersInTurn
<1>11. \A n \in Nodes : /\ Then(sc, Step("NodeInCatchUp", n), Step("NodeInDelta", n))
                        /\ Whole(sc, Step("NodeInCatchUp", n), Step("NodeInDelta", n))
                        /\ Then(sc, Step("DropStats", n), Step("RemoveValuers", n))
                        /\ Whole(sc, Step("DropStats", n), Step("RemoveValuers", n))
                        /\ Then(sc, Step("RemoveValuers", n), Step("DropNode", n))
                        /\ Whole(sc, Step("RemoveValuers", n), Step("DropNode", n))
                        /\ Then(sc, Step("DropNode", n), Step("NodeDoneInDelta", n))
                        /\ Whole(sc, Step("DropNode", n), Step("NodeDoneInDelta", n))
  BY <1>7, <1>9, HandlersInTurn
<1>12. \A c \in Links : /\ Then(sc, Step("LinkInCatchUp", c), Step("LinkInDelta", c))
                        /\ Whole(sc, Step("LinkInCatchUp", c), Step("LinkInDelta", c))
                        /\ Then(sc, Step("DropLink", c), Step("CutInDelta", c))
                        /\ Whole(sc, Step("DropLink", c), Step("CutInDelta", c))
  BY <1>7, <1>9, HandlersInTurn
<1>13. \A g \in Groups : /\ Then(sc, Step("GroupInCatchUp", g), Step("GroupInDelta", g))
                         /\ Whole(sc, Step("GroupInCatchUp", g), Step("GroupInDelta", g))
                         /\ Then(sc, Step("DropGroup", g), Step("GroupDoneInDelta", g))
                         /\ Whole(sc, Step("DropGroup", g), Step("GroupDoneInDelta", g))
  BY <1>7, <1>9, HandlersInTurn
<1>14. StatsInTurn(sc) BY <1>10 DEF StatsInTurn
<1>15. NodesInTurn(sc) BY <1>11 DEF NodesInTurn
<1>16. LinksInTurn(sc) BY <1>12 DEF LinksInTurn
<1>17. GroupsInTurn(sc) BY <1>13 DEF GroupsInTurn
<1>18. AllWhole(sc) BY <1>10, <1>11, <1>12, <1>13 DEF AllWhole
<1> QED BY <1>1, <1>5, <1>6, <1>8, <1>14, <1>15, <1>16, <1>17, <1>18 DEF ScriptInv, sc

\* Running a step leaves a script.
LEMMA RanKeeps ==
  ASSUME NEW sc, NEW sc2, NEW t \in Threads, Ran(sc, sc2, t), ScriptInv(sc)
  PROVE  ScriptInv(sc2)
<1>1. Scripted(sc) /\ Placed(sc) /\ Unique(sc) /\ StatsFirst(sc) BY DEF ScriptInv
<1>2. Scripted(sc2) BY <1>1, RanMoves
<1>3. Placed(sc2)
  <2> SUFFICES ASSUME NEW u \in Threads, NEW i \in DOMAIN sc2[u] PROVE StepIn(u, sc2[u][i])
    BY DEF Placed
  <2>1. CASE u = t
    <3>1. i + 1 \in DOMAIN sc[t] /\ sc2[t][i] = sc[t][i + 1] BY <1>1, <2>1, RanMoves
    <3> QED BY <3>1, <2>1, <1>1 DEF Placed
  <2>2. CASE u # t
    <3>1. sc2[u] = sc[u] BY <1>1, <2>2, RanMoves
    <3> QED BY <3>1, <1>1 DEF Placed
  <2> QED BY <2>1, <2>2
<1>4. Unique(sc2) BY <1>1, RanOnce DEF Unique
<1>5. StatsFirst(sc2)
  <2> DEFINE u == UserThread
  <2> SUFFICES ASSUME NEW n \in Nodes, sc2[n] # <<>>, NEW i \in DOMAIN sc2[u],
                      sc2[u][i].do = "StatInDelta", sc2[u][i].of.node = n
               PROVE  \E j \in DOMAIN sc2[u] : j > i /\ sc2[u][j] = Step("NodeInDelta", n)
    BY DEF StatsFirst
  <2>0. u \in Threads /\ n \in Threads BY DEF Threads
  <2>1. sc[n] # <<>>
    <3>1. CASE n = t BY <3>1 DEF Ran
    <3>2. CASE n # t BY <3>2, <2>0, <1>1, RanMoves
    <3> QED BY <3>1, <3>2
  <2>2. CASE u = t
    <3>1. i + 1 \in DOMAIN sc[u] /\ sc2[u][i] = sc[u][i + 1] /\ i \in Nat BY <1>1, <2>0, <2>2, RanMoves
    <3>2. PICK j \in DOMAIN sc[u] : j > i + 1 /\ sc[u][j] = Step("NodeInDelta", n)
      BY <3>1, <2>1, <1>1 DEF StatsFirst
    <3>3. j \in Nat BY <1>1, <2>0, RanMoves
    <3>4. j > 1 /\ j - 1 > i BY <3>1, <3>2, <3>3
    <3>5. j - 1 \in DOMAIN sc2[u] /\ sc2[u][j - 1] = sc[u][j] BY <3>4, <1>1, <2>2, RanMoves
    <3> QED BY <3>2, <3>4, <3>5
  <2>3. CASE u # t
    <3>1. sc2[u] = sc[u] BY <1>1, <2>0, <2>3, RanMoves
    <3> QED BY <3>1, <2>1, <1>1 DEF StatsFirst
  <2> QED BY <2>2, <2>3
<1>6. StatsInTurn(sc2) BY <1>1, RanThen DEF ScriptInv, StatsInTurn
<1>7. NodesInTurn(sc2)
  <2>1. NodesInTurn(sc) BY DEF ScriptInv
  <2> SUFFICES ASSUME NEW n \in Nodes
               PROVE  /\ Then(sc2, Step("NodeInCatchUp", n), Step("NodeInDelta", n))
                      /\ Then(sc2, Step("DropStats", n), Step("RemoveValuers", n))
                      /\ Then(sc2, Step("RemoveValuers", n), Step("DropNode", n))
                      /\ Then(sc2, Step("DropNode", n), Step("NodeDoneInDelta", n))
    BY DEF NodesInTurn
  <2> QED BY <2>1, <1>1, RanThen DEF NodesInTurn
<1>8. LinksInTurn(sc2) BY <1>1, RanThen DEF ScriptInv, LinksInTurn
<1>9. GroupsInTurn(sc2) BY <1>1, RanThen DEF ScriptInv, GroupsInTurn
<1> QED BY <1>2, <1>3, <1>4, <1>5, <1>6, <1>7, <1>8, <1>9 DEF ScriptInv

---------------------------------------------------------------------------
\* Links that come and go once, in turn.
CutLater(sc) ==
    \A t, u \in Threads : \A i \in DOMAIN sc[t], j \in DOMAIN sc[u] :
        sc[t][i].do = "DropLink" /\ sc[u][j] = Step("LinkInDelta", sc[t][i].of) =>
            \/ t = u /\ j < i
            \/ u = UserThread /\ \E k \in DOMAIN sc[u] : k > j /\
                   \/ t \in Nodes /\ sc[u][k] = Step("NodeInDelta", t)
                   \/ t \in Groups /\ sc[u][k] = Step("GroupInDelta", t)
LinkInv(sc) == CutLater(sc) /\ \A x : Once(sc, x)

\* A program that links in turn starts so.
LEMMA LinkedScript ==
  ASSUME NEW p, LinkedInTurn(p)
  PROVE  LinkInv(ScriptOf(p))
BY DEF LinkedInTurn, LinkInv, CutLater, Once

\* Running a step keeps the links in turn.
LEMMA RanKeepsLinks ==
  ASSUME NEW sc, NEW sc2, NEW t \in Threads, Ran(sc, sc2, t), Scripted(sc), LinkInv(sc)
  PROVE  LinkInv(sc2)
<1>1. \A x : Once(sc2, x) BY RanOnce DEF LinkInv
<1>2. CutLater(sc2)
  <2> SUFFICES ASSUME NEW v \in Threads, NEW u \in Threads, NEW i \in DOMAIN sc2[v], NEW j \in DOMAIN sc2[u],
                      sc2[v][i].do = "DropLink", sc2[u][j] = Step("LinkInDelta", sc2[v][i].of)
               PROVE  \/ v = u /\ j < i
                      \/ u = UserThread /\ \E k \in DOMAIN sc2[u] : k > j /\
                             \/ v \in Nodes /\ sc2[u][k] = Step("NodeInDelta", v)
                             \/ v \in Groups /\ sc2[u][k] = Step("GroupInDelta", v)
    BY DEF CutLater
  <2>0. i \in Nat /\ j \in Nat BY RanMoves
  <2>1. PICK i0 \in DOMAIN sc[v] : sc[v][i0] = sc2[v][i] /\ i0 = IF v = t THEN i + 1 ELSE i BY RanMoves
  <2>2. PICK j0 \in DOMAIN sc[u] : sc[u][j0] = sc2[u][j] /\ j0 = IF u = t THEN j + 1 ELSE j BY RanMoves
  <2>3. CASE v = u /\ j0 < i0
    <3>1. j < i BY <2>0, <2>1, <2>2, <2>3
    <3> QED BY <3>1, <2>3
  <2>4. CASE u = UserThread /\ \E k \in DOMAIN sc[u] : k > j0 /\
                             \/ v \in Nodes /\ sc[u][k] = Step("NodeInDelta", v)
                             \/ v \in Groups /\ sc[u][k] = Step("GroupInDelta", v)
    <3>1. PICK k \in DOMAIN sc[u] : k > j0 /\
                             \/ v \in Nodes /\ sc[u][k] = Step("NodeInDelta", v)
                             \/ v \in Groups /\ sc[u][k] = Step("GroupInDelta", v)
      BY <2>4
    <3>2. k \in Nat /\ j0 \in Nat \ {0} BY RanMoves
    <3>3. \E l \in DOMAIN sc2[u] : sc2[u][l] = sc[u][k] /\ l > j
      <4>1. CASE u = t
        <5>1. k > 1 /\ k - 1 > j BY <3>1, <3>2, <2>2, <2>0, <4>1
        <5> QED BY <5>1, <4>1, RanMoves
      <4>2. CASE u # t BY <4>2, <2>2, <3>1, RanMoves
      <4> QED BY <4>1, <4>2
    <3> QED BY <3>1, <3>3, <2>4
  <2>5. \/ v = u /\ j0 < i0
        \/ u = UserThread /\ \E k \in DOMAIN sc[u] : k > j0 /\
               \/ v \in Nodes /\ sc[u][k] = Step("NodeInDelta", v)
               \/ v \in Groups /\ sc[u][k] = Step("GroupInDelta", v)
    BY <2>1, <2>2 DEF LinkInv, CutLater
  <2> QED BY <2>3, <2>4, <2>5
<1> QED BY <1>1, <1>2 DEF LinkInv

---------------------------------------------------------------------------
(* The deltas.                                                             *)

NodeRec(n) == [id |-> n, group |-> GroupOf[n]]
NodeRecs == {NodeRec(n) : n \in Nodes}
FlowStats == {[id |-> i, node |-> NoNode] : i \in UNION {ToSet(p.flowStats) : p \in Programs}}
AllStats == Stats \cup FlowStats

IsDelta(dl) ==
    dl \in [connected : Seq(Links), disconnected : Seq(Links),
            startedGroups : Seq(Groups), startedNodes : Seq(NodeRecs),
            doneGroups : Seq(Groups), doneNodes : Seq(Nodes),
            newStats : Seq(AllStats), values : {dl.values}]

\* The type invariant of the monitorer.
TypeInv ==
    /\ ScriptInv(script)
    /\ IsDelta(cd) /\ IsDelta(d) /\ IsDelta(stater.delta)
    /\ stater \in [pc : {"idle", "sampled", "swapped"}, sampled : {stater.sampled}, delta : {stater.delta}]
    /\ stater.pc # "swapped" => stater.delta = NoDelta
    /\ told \in [groups : SUBSET Groups, nodes : SUBSET NodeRecs, stats : SUBSET AllStats,
                 links : SUBSET Links, untold : SUBSET NodeRecs]

\* A delta with another sequence in one of its fields is a delta, and the same in the others.
LEMMA WithConnected ==
  ASSUME NEW dl, IsDelta(dl), NEW q \in Seq(Links), NEW e, e = [dl EXCEPT !.connected = q]
  PROVE  /\ IsDelta(e) /\ e.connected = q
         /\ e.disconnected = dl.disconnected /\ e.startedGroups = dl.startedGroups /\ e.startedNodes = dl.startedNodes /\ e.doneGroups = dl.doneGroups
         /\ e.doneNodes = dl.doneNodes /\ e.newStats = dl.newStats /\ e.values = dl.values
<1> DEFINE A == Seq(Links) B == Seq(Links) C == Seq(Groups) D == Seq(NodeRecs)
           E == Seq(Groups) F == Seq(Nodes) G == Seq(AllStats) V == {dl.values}
<1>1. dl \in [connected : A, disconnected : B, startedGroups : C, startedNodes : D,
            doneGroups : E, doneNodes : F, newStats : G, values : V] BY DEF IsDelta
<1>2. q \in A OBVIOUS
<1> HIDE DEF A, B, C, D, E, F, G, V
<1>3. e \in [connected : A, disconnected : B, startedGroups : C, startedNodes : D,
            doneGroups : E, doneNodes : F, newStats : G, values : V] BY <1>1, <1>2
<1>4. e.connected = q /\ e.disconnected = dl.disconnected /\ e.startedGroups = dl.startedGroups /\ e.startedNodes = dl.startedNodes /\ e.doneGroups = dl.doneGroups /\ e.doneNodes = dl.doneNodes /\ e.newStats = dl.newStats /\ e.values = dl.values BY <1>1, <1>2
<1>5. V = {e.values} BY <1>4 DEF V
<1> QED BY <1>3, <1>4, <1>5 DEF IsDelta, A, B, C, D, E, F, G

\* The same of the cut links.
LEMMA WithDisconnected ==
  ASSUME NEW dl, IsDelta(dl), NEW q \in Seq(Links), NEW e, e = [dl EXCEPT !.disconnected = q]
  PROVE  /\ IsDelta(e) /\ e.disconnected = q
         /\ e.connected = dl.connected /\ e.startedGroups = dl.startedGroups /\ e.startedNodes = dl.startedNodes /\ e.doneGroups = dl.doneGroups
         /\ e.doneNodes = dl.doneNodes /\ e.newStats = dl.newStats /\ e.values = dl.values
<1> DEFINE A == Seq(Links) B == Seq(Links) C == Seq(Groups) D == Seq(NodeRecs)
           E == Seq(Groups) F == Seq(Nodes) G == Seq(AllStats) V == {dl.values}
<1>1. dl \in [connected : A, disconnected : B, startedGroups : C, startedNodes : D,
            doneGroups : E, doneNodes : F, newStats : G, values : V] BY DEF IsDelta
<1>2. q \in B OBVIOUS
<1> HIDE DEF A, B, C, D, E, F, G, V
<1>3. e \in [connected : A, disconnected : B, startedGroups : C, startedNodes : D,
            doneGroups : E, doneNodes : F, newStats : G, values : V] BY <1>1, <1>2
<1>4. e.disconnected = q /\ e.connected = dl.connected /\ e.startedGroups = dl.startedGroups /\ e.startedNodes = dl.startedNodes /\ e.doneGroups = dl.doneGroups /\ e.doneNodes = dl.doneNodes /\ e.newStats = dl.newStats /\ e.values = dl.values BY <1>1, <1>2
<1>5. V = {e.values} BY <1>4 DEF V
<1> QED BY <1>3, <1>4, <1>5 DEF IsDelta, A, B, C, D, E, F, G

\* The same of the started groups.
LEMMA WithStartedGroups ==
  ASSUME NEW dl, IsDelta(dl), NEW q \in Seq(Groups), NEW e, e = [dl EXCEPT !.startedGroups = q]
  PROVE  /\ IsDelta(e) /\ e.startedGroups = q
         /\ e.connected = dl.connected /\ e.disconnected = dl.disconnected /\ e.startedNodes = dl.startedNodes /\ e.doneGroups = dl.doneGroups
         /\ e.doneNodes = dl.doneNodes /\ e.newStats = dl.newStats /\ e.values = dl.values
<1> DEFINE A == Seq(Links) B == Seq(Links) C == Seq(Groups) D == Seq(NodeRecs)
           E == Seq(Groups) F == Seq(Nodes) G == Seq(AllStats) V == {dl.values}
<1>1. dl \in [connected : A, disconnected : B, startedGroups : C, startedNodes : D,
            doneGroups : E, doneNodes : F, newStats : G, values : V] BY DEF IsDelta
<1>2. q \in C OBVIOUS
<1> HIDE DEF A, B, C, D, E, F, G, V
<1>3. e \in [connected : A, disconnected : B, startedGroups : C, startedNodes : D,
            doneGroups : E, doneNodes : F, newStats : G, values : V] BY <1>1, <1>2
<1>4. e.startedGroups = q /\ e.connected = dl.connected /\ e.disconnected = dl.disconnected /\ e.startedNodes = dl.startedNodes /\ e.doneGroups = dl.doneGroups /\ e.doneNodes = dl.doneNodes /\ e.newStats = dl.newStats /\ e.values = dl.values BY <1>1, <1>2
<1>5. V = {e.values} BY <1>4 DEF V
<1> QED BY <1>3, <1>4, <1>5 DEF IsDelta, A, B, C, D, E, F, G

\* The same of the started nodes.
LEMMA WithStartedNodes ==
  ASSUME NEW dl, IsDelta(dl), NEW q \in Seq(NodeRecs), NEW e, e = [dl EXCEPT !.startedNodes = q]
  PROVE  /\ IsDelta(e) /\ e.startedNodes = q
         /\ e.connected = dl.connected /\ e.disconnected = dl.disconnected /\ e.startedGroups = dl.startedGroups /\ e.doneGroups = dl.doneGroups
         /\ e.doneNodes = dl.doneNodes /\ e.newStats = dl.newStats /\ e.values = dl.values
<1> DEFINE A == Seq(Links) B == Seq(Links) C == Seq(Groups) D == Seq(NodeRecs)
           E == Seq(Groups) F == Seq(Nodes) G == Seq(AllStats) V == {dl.values}
<1>1. dl \in [connected : A, disconnected : B, startedGroups : C, startedNodes : D,
            doneGroups : E, doneNodes : F, newStats : G, values : V] BY DEF IsDelta
<1>2. q \in D OBVIOUS
<1> HIDE DEF A, B, C, D, E, F, G, V
<1>3. e \in [connected : A, disconnected : B, startedGroups : C, startedNodes : D,
            doneGroups : E, doneNodes : F, newStats : G, values : V] BY <1>1, <1>2
<1>4. e.startedNodes = q /\ e.connected = dl.connected /\ e.disconnected = dl.disconnected /\ e.startedGroups = dl.startedGroups /\ e.doneGroups = dl.doneGroups /\ e.doneNodes = dl.doneNodes /\ e.newStats = dl.newStats /\ e.values = dl.values BY <1>1, <1>2
<1>5. V = {e.values} BY <1>4 DEF V
<1> QED BY <1>3, <1>4, <1>5 DEF IsDelta, A, B, C, D, E, F, G

\* The same of the done groups.
LEMMA WithDoneGroups ==
  ASSUME NEW dl, IsDelta(dl), NEW q \in Seq(Groups), NEW e, e = [dl EXCEPT !.doneGroups = q]
  PROVE  /\ IsDelta(e) /\ e.doneGroups = q
         /\ e.connected = dl.connected /\ e.disconnected = dl.disconnected /\ e.startedGroups = dl.startedGroups /\ e.startedNodes = dl.startedNodes
         /\ e.doneNodes = dl.doneNodes /\ e.newStats = dl.newStats /\ e.values = dl.values
<1> DEFINE A == Seq(Links) B == Seq(Links) C == Seq(Groups) D == Seq(NodeRecs)
           E == Seq(Groups) F == Seq(Nodes) G == Seq(AllStats) V == {dl.values}
<1>1. dl \in [connected : A, disconnected : B, startedGroups : C, startedNodes : D,
            doneGroups : E, doneNodes : F, newStats : G, values : V] BY DEF IsDelta
<1>2. q \in E OBVIOUS
<1> HIDE DEF A, B, C, D, E, F, G, V
<1>3. e \in [connected : A, disconnected : B, startedGroups : C, startedNodes : D,
            doneGroups : E, doneNodes : F, newStats : G, values : V] BY <1>1, <1>2
<1>4. e.doneGroups = q /\ e.connected = dl.connected /\ e.disconnected = dl.disconnected /\ e.startedGroups = dl.startedGroups /\ e.startedNodes = dl.startedNodes /\ e.doneNodes = dl.doneNodes /\ e.newStats = dl.newStats /\ e.values = dl.values BY <1>1, <1>2
<1>5. V = {e.values} BY <1>4 DEF V
<1> QED BY <1>3, <1>4, <1>5 DEF IsDelta, A, B, C, D, E, F, G

\* The same of the done nodes.
LEMMA WithDoneNodes ==
  ASSUME NEW dl, IsDelta(dl), NEW q \in Seq(Nodes), NEW e, e = [dl EXCEPT !.doneNodes = q]
  PROVE  /\ IsDelta(e) /\ e.doneNodes = q
         /\ e.connected = dl.connected /\ e.disconnected = dl.disconnected /\ e.startedGroups = dl.startedGroups /\ e.startedNodes = dl.startedNodes
         /\ e.doneGroups = dl.doneGroups /\ e.newStats = dl.newStats /\ e.values = dl.values
<1> DEFINE A == Seq(Links) B == Seq(Links) C == Seq(Groups) D == Seq(NodeRecs)
           E == Seq(Groups) F == Seq(Nodes) G == Seq(AllStats) V == {dl.values}
<1>1. dl \in [connected : A, disconnected : B, startedGroups : C, startedNodes : D,
            doneGroups : E, doneNodes : F, newStats : G, values : V] BY DEF IsDelta
<1>2. q \in F OBVIOUS
<1> HIDE DEF A, B, C, D, E, F, G, V
<1>3. e \in [connected : A, disconnected : B, startedGroups : C, startedNodes : D,
            doneGroups : E, doneNodes : F, newStats : G, values : V] BY <1>1, <1>2
<1>4. e.doneNodes = q /\ e.connected = dl.connected /\ e.disconnected = dl.disconnected /\ e.startedGroups = dl.startedGroups /\ e.startedNodes = dl.startedNodes /\ e.doneGroups = dl.doneGroups /\ e.newStats = dl.newStats /\ e.values = dl.values BY <1>1, <1>2
<1>5. V = {e.values} BY <1>4 DEF V
<1> QED BY <1>3, <1>4, <1>5 DEF IsDelta, A, B, C, D, E, F, G

\* The same of the stats.
LEMMA WithNewStats ==
  ASSUME NEW dl, IsDelta(dl), NEW q \in Seq(AllStats), NEW e, e = [dl EXCEPT !.newStats = q]
  PROVE  /\ IsDelta(e) /\ e.newStats = q
         /\ e.connected = dl.connected /\ e.disconnected = dl.disconnected /\ e.startedGroups = dl.startedGroups /\ e.startedNodes = dl.startedNodes
         /\ e.doneGroups = dl.doneGroups /\ e.doneNodes = dl.doneNodes /\ e.values = dl.values
<1> DEFINE A == Seq(Links) B == Seq(Links) C == Seq(Groups) D == Seq(NodeRecs)
           E == Seq(Groups) F == Seq(Nodes) G == Seq(AllStats) V == {dl.values}
<1>1. dl \in [connected : A, disconnected : B, startedGroups : C, startedNodes : D,
            doneGroups : E, doneNodes : F, newStats : G, values : V] BY DEF IsDelta
<1>2. q \in G OBVIOUS
<1> HIDE DEF A, B, C, D, E, F, G, V
<1>3. e \in [connected : A, disconnected : B, startedGroups : C, startedNodes : D,
            doneGroups : E, doneNodes : F, newStats : G, values : V] BY <1>1, <1>2
<1>4. e.newStats = q /\ e.connected = dl.connected /\ e.disconnected = dl.disconnected /\ e.startedGroups = dl.startedGroups /\ e.startedNodes = dl.startedNodes /\ e.doneGroups = dl.doneGroups /\ e.doneNodes = dl.doneNodes /\ e.values = dl.values BY <1>1, <1>2
<1>5. V = {e.values} BY <1>4 DEF V
<1> QED BY <1>3, <1>4, <1>5 DEF IsDelta, A, B, C, D, E, F, G

\* What a step of a handler does to the deltas, as sets.
EffectOnCatchUp(do, x) ==
    /\ IsDelta(cd')
    /\ ToSet(cd'.startedGroups) = (ToSet(cd.startedGroups) \cup {g \in {x} : do = "GroupInCatchUp"})
                                     \ {g \in {x} : do = "DropGroup"}
    /\ ToSet(cd'.startedNodes) = (ToSet(cd.startedNodes) \cup {NodeRec(n) : n \in {y \in {x} : do = "NodeInCatchUp"}})
                                     \ {n \in NodeRecs : do = "DropNode" /\ n.id = x}
    /\ ToSet(cd'.connected) = (ToSet(cd.connected) \cup {c \in {x} : do = "LinkInCatchUp"})
                                     \ {c \in {x} : do = "DropLink"}
    /\ ToSet(cd'.newStats) = (ToSet(cd.newStats) \cup {s \in {x} : do = "StatInCatchUp"})
                                     \ {s \in AllStats : do = "DropStats" /\ s.id \in ToSet(StatsOf[x])}
EffectOnDelta(do, x) ==
    /\ IsDelta(d')
    /\ ToSet(d'.startedGroups) = ToSet(d.startedGroups) \cup {g \in {x} : do = "GroupInDelta"}
    /\ ToSet(d'.doneGroups) = ToSet(d.doneGroups) \cup {g \in {x} : do = "GroupDoneInDelta"}
    /\ ToSet(d'.startedNodes) = ToSet(d.startedNodes) \cup {NodeRec(n) : n \in {y \in {x} : do = "NodeInDelta"}}
    /\ ToSet(d'.doneNodes) = ToSet(d.doneNodes) \cup {n \in {x} : do = "NodeDoneInDelta"}
    /\ ToSet(d'.connected) = ToSet(d.connected) \cup {c \in {x} : do = "LinkInDelta"}
    /\ ToSet(d'.disconnected) = ToSet(d.disconnected) \cup {c \in {x} : do = "CutInDelta"}
    /\ ToSet(d'.newStats) = ToSet(d.newStats) \cup {s \in {x} : do = "StatInDelta"}
EffectOnValuers(do, x) ==
    valuers' = (valuers \cup {i \in {x.id} : do = "AddValuer"})
                  \ {i \in ToSet(StatsOf[x]) : do = "RemoveValuers"}

\* A step runs in its goroutine, and leaves the stater and what was told alone.
LEMMA HandleRuns ==
  ASSUME TypeInv, NEW t \in Threads, Handle(t)
  PROVE  /\ Ran(script, script', t) /\ MayRun(t)
         /\ stater' = stater /\ told' = told
         /\ Head(script[t]) = Step(Head(script[t]).do, Subject(t))
         /\ StepIn(t, Head(script[t]))
<1>1. Ran(script, script', t) /\ MayRun(t) /\ stater' = stater /\ told' = told
  BY DEF Handle, AddValuer, StatInCatchUp, StatInDelta, NodeInCatchUp, NodeInDelta, DropStats,
         RemoveValuers, DropNode, NodeDoneInDelta, LinkInCatchUp, LinkInDelta, DropLink, CutInDelta,
         GroupInCatchUp, GroupInDelta, DropGroup, GroupDoneInDelta, Runs, Ran
<1>2. StepIn(t, Head(script[t]))
  <2>1. Scripted(script) /\ Placed(script) BY DEF TypeInv, ScriptInv
  <2>2. 1 \in DOMAIN script[t] /\ Head(script[t]) = script[t][1] BY <1>1, <2>1, RanMoves
  <2> QED BY <2>1, <2>2 DEF Placed
<1>3. Head(script[t]) = Step(Head(script[t]).do, Subject(t)) BY <1>2 DEF StepIn, Subject
<1> QED BY <1>1, <1>2, <1>3

\* What each half of a handler does to the catch-up delta, the pending one and the
\* valuers, field by field.
LEMMA Effects ==
  ASSUME TypeInv, NEW t \in Threads, Handle(t)
  PROVE  /\ EffectOnCatchUp(Head(script[t]).do, Subject(t))
         /\ EffectOnDelta(Head(script[t]).do, Subject(t))
         /\ EffectOnValuers(Head(script[t]).do, Subject(t))
<1> DEFINE do == Head(script[t]).do
           x  == Subject(t)
<1>1. StepIn(t, Head(script[t])) /\ x = Head(script[t]).of BY HandleRuns DEF Subject
<1>2. IsDelta(cd) /\ IsDelta(d) BY DEF TypeInv
<1>3. /\ cd.connected \in Seq(Links) /\ cd.startedGroups \in Seq(Groups)
      /\ cd.startedNodes \in Seq(NodeRecs) /\ cd.newStats \in Seq(AllStats)
      /\ d.connected \in Seq(Links) /\ d.disconnected \in Seq(Links)
      /\ d.startedGroups \in Seq(Groups) /\ d.doneGroups \in Seq(Groups)
      /\ d.startedNodes \in Seq(NodeRecs) /\ d.doneNodes \in Seq(Nodes)
      /\ d.newStats \in Seq(AllStats)
  BY <1>2 DEF IsDelta
<1>4. cd' = cd /\ do \notin {"GroupInCatchUp", "DropGroup", "NodeInCatchUp", "DropNode", "LinkInCatchUp",
                             "DropLink", "StatInCatchUp", "DropStats"} => EffectOnCatchUp(do, x)
  <2> HIDE DEF do, x
  <2>1. ToSet(cd.startedNodes) \subseteq NodeRecs BY <1>3 DEF ToSet
  <2> QED BY <1>2, <2>1 DEF EffectOnCatchUp
<1>5. d' = d /\ do \notin {"GroupInDelta", "GroupDoneInDelta", "NodeInDelta", "NodeDoneInDelta", "LinkInDelta",
                           "CutInDelta", "StatInDelta"} => EffectOnDelta(do, x)
  <2> HIDE DEF do, x
  <2> QED BY <1>2 DEF EffectOnDelta
<1>6. valuers' = valuers /\ do \notin {"AddValuer", "RemoveValuers"} => EffectOnValuers(do, x)
  <2> HIDE DEF do, x
  <2> QED BY DEF EffectOnValuers
<1>7. /\ do \in StatDos => x \in Stats
      /\ do \in StartDos \cup EndDos => x \in Nodes
      /\ do \in LinkDos => x \in Links
      /\ do \in GroupStartDos \cup GroupEndDos => x \in Groups
  <2> DEFINE st == Head(script[t])
  <2> HIDE DEF st
  <2>1. StepIn(t, st) => /\ st.do \in StatDos => st.of \in Stats
                         /\ st.do \in StartDos \cup EndDos => st.of \in Nodes
                         /\ st.do \in LinkDos => st.of \in Links
                         /\ st.do \in GroupStartDos \cup GroupEndDos => st.of \in Groups
    BY DEF StepIn, StatDos, StartDos, EndDos, LinkDos, GroupStartDos, GroupEndDos
  <2> QED BY <1>1, <2>1 DEF st
<1>8. CASE AddValuer(t)
  <2>1. do = "AddValuer" /\ x \in Stats
    BY <1>8, <1>7 DEF AddValuer, Runs, StatDos
  <2>2. cd' = cd /\ d' = d BY <1>8 DEF AddValuer
  <2>3. EffectOnValuers(do, x) BY <1>8, <2>1 DEF AddValuer, EffectOnValuers
  <2> HIDE DEF do, x
  <2> QED BY <2>1, <2>2, <2>3, <1>4, <1>5 DEF do, x
<1>9. CASE StatInCatchUp(t)
  <2>1. do = "StatInCatchUp" /\ x \in Stats
    BY <1>9, <1>7 DEF StatInCatchUp, Runs, StatDos
  <2>2. cd' = [cd EXCEPT !.newStats = Append(cd.newStats, x)] /\ valuers' = valuers /\ d' = d
    BY <1>9 DEF StatInCatchUp
  <2>3. x \in AllStats BY <2>1 DEF AllStats
  <2> DEFINE q == Append(cd.newStats, x)
  <2>9. cd' = [cd EXCEPT !.newStats = q] BY <2>2
  <2>4. q \in Seq(AllStats) /\ ToSet(q) = ToSet(cd.newStats) \cup {x}
    <3> DEFINE y == x
    <3>1. y \in AllStats BY <2>3
    <3> HIDE DEF y, x
    <3>2. Append(cd.newStats, y) \in Seq(AllStats) /\ ToSet(Append(cd.newStats, y)) = ToSet(cd.newStats) \cup {y} BY <1>3, <3>1, AppendSet
    <3> QED BY <3>2 DEF y
  <2> HIDE DEF q, do, x
  <2>6. /\ cd'.newStats = q
        /\ cd'.startedGroups = cd.startedGroups
        /\ cd'.startedNodes = cd.startedNodes
        /\ cd'.connected = cd.connected
        /\ IsDelta(cd')
    BY <1>2, <2>9, <2>4, WithNewStats
  <2>8. ToSet(cd.startedNodes) \subseteq NodeRecs /\ ToSet(cd.newStats) \subseteq AllStats BY <1>3 DEF ToSet
  <2>7. EffectOnCatchUp(do, x) BY <2>1, <2>4, <2>6, <2>8 DEF EffectOnCatchUp
  <2> QED BY <2>1, <2>2, <2>7, <1>5, <1>6 DEF do, x
<1>10. CASE StatInDelta(t)
  <2>1. do = "StatInDelta" /\ x \in Stats
    BY <1>10, <1>7 DEF StatInDelta, Runs, StatDos
  <2>2. d' = [d EXCEPT !.newStats = Append(d.newStats, x)] /\ valuers' = valuers /\ cd' = cd
    BY <1>10 DEF StatInDelta
  <2>3. x \in AllStats BY <2>1 DEF AllStats
  <2> DEFINE q == Append(d.newStats, x)
  <2>9. d' = [d EXCEPT !.newStats = q] BY <2>2
  <2>4. q \in Seq(AllStats) /\ ToSet(q) = ToSet(d.newStats) \cup {x}
    <3> DEFINE y == x
    <3>1. y \in AllStats BY <2>3
    <3> HIDE DEF y, x
    <3>2. Append(d.newStats, y) \in Seq(AllStats) /\ ToSet(Append(d.newStats, y)) = ToSet(d.newStats) \cup {y} BY <1>3, <3>1, AppendSet
    <3> QED BY <3>2 DEF y
  <2> HIDE DEF q, do, x
  <2>6. /\ d'.newStats = q
        /\ d'.startedGroups = d.startedGroups
        /\ d'.doneGroups = d.doneGroups
        /\ d'.startedNodes = d.startedNodes
        /\ d'.doneNodes = d.doneNodes
        /\ d'.connected = d.connected
        /\ d'.disconnected = d.disconnected
        /\ IsDelta(d')
    BY <1>2, <2>9, <2>4, WithNewStats
  <2>7. EffectOnDelta(do, x) BY <2>1, <2>4, <2>6 DEF EffectOnDelta
  <2> QED BY <2>1, <2>2, <2>7, <1>4, <1>6 DEF do, x
<1>11. CASE NodeInCatchUp(t)
  <2>1. do = "NodeInCatchUp" /\ x \in Nodes
    BY <1>11, <1>7 DEF NodeInCatchUp, Runs, StartDos
  <2>2. cd' = [cd EXCEPT !.startedNodes = Append(cd.startedNodes, NodeRec(x))] /\ valuers' = valuers /\ d' = d
    BY <1>11 DEF NodeInCatchUp, NodeRec
  <2>3. NodeRec(x) \in NodeRecs BY <2>1 DEF NodeRecs
  <2> DEFINE q == Append(cd.startedNodes, NodeRec(x))
  <2>9. cd' = [cd EXCEPT !.startedNodes = q] BY <2>2
  <2>4. q \in Seq(NodeRecs) /\ ToSet(q) = ToSet(cd.startedNodes) \cup {NodeRec(x)}
    <3> DEFINE y == NodeRec(x)
    <3>1. y \in NodeRecs BY <2>3
    <3> HIDE DEF y, x
    <3>2. Append(cd.startedNodes, y) \in Seq(NodeRecs) /\ ToSet(Append(cd.startedNodes, y)) = ToSet(cd.startedNodes) \cup {y} BY <1>3, <3>1, AppendSet
    <3> QED BY <3>2 DEF y
  <2> HIDE DEF q, do, x
  <2>6. /\ cd'.startedNodes = q
        /\ cd'.startedGroups = cd.startedGroups
        /\ cd'.connected = cd.connected
        /\ cd'.newStats = cd.newStats
        /\ IsDelta(cd')
    BY <1>2, <2>9, <2>4, WithStartedNodes
  <2>8. ToSet(cd.startedNodes) \subseteq NodeRecs /\ ToSet(cd.newStats) \subseteq AllStats BY <1>3 DEF ToSet
  <2>7. EffectOnCatchUp(do, x) BY <2>1, <2>4, <2>6, <2>8 DEF EffectOnCatchUp
  <2> QED BY <2>1, <2>2, <2>7, <1>5, <1>6 DEF do, x
<1>12. CASE NodeInDelta(t)
  <2>1. do = "NodeInDelta" /\ x \in Nodes
    BY <1>12, <1>7 DEF NodeInDelta, Runs, StartDos
  <2>2. d' = [d EXCEPT !.startedNodes = Append(d.startedNodes, NodeRec(x))] /\ valuers' = valuers /\ cd' = cd
    BY <1>12 DEF NodeInDelta, NodeRec
  <2>3. NodeRec(x) \in NodeRecs BY <2>1 DEF NodeRecs
  <2> DEFINE q == Append(d.startedNodes, NodeRec(x))
  <2>9. d' = [d EXCEPT !.startedNodes = q] BY <2>2
  <2>4. q \in Seq(NodeRecs) /\ ToSet(q) = ToSet(d.startedNodes) \cup {NodeRec(x)}
    <3> DEFINE y == NodeRec(x)
    <3>1. y \in NodeRecs BY <2>3
    <3> HIDE DEF y, x
    <3>2. Append(d.startedNodes, y) \in Seq(NodeRecs) /\ ToSet(Append(d.startedNodes, y)) = ToSet(d.startedNodes) \cup {y} BY <1>3, <3>1, AppendSet
    <3> QED BY <3>2 DEF y
  <2> HIDE DEF q, do, x
  <2>6. /\ d'.startedNodes = q
        /\ d'.startedGroups = d.startedGroups
        /\ d'.doneGroups = d.doneGroups
        /\ d'.doneNodes = d.doneNodes
        /\ d'.connected = d.connected
        /\ d'.disconnected = d.disconnected
        /\ d'.newStats = d.newStats
        /\ IsDelta(d')
    BY <1>2, <2>9, <2>4, WithStartedNodes
  <2>7. EffectOnDelta(do, x) BY <2>1, <2>4, <2>6 DEF EffectOnDelta
  <2> QED BY <2>1, <2>2, <2>7, <1>4, <1>6 DEF do, x
<1>13. CASE DropStats(t)
  <2>1. do = "DropStats" /\ x \in Nodes
    BY <1>13, <1>7 DEF DropStats, Runs, EndDos
  <2> DEFINE K == {s \in ToSet(cd.newStats) : s.id \notin ToSet(StatsOf[x])}
             q == Selected(cd.newStats, K)
  <2>2. cd' = [cd EXCEPT !.newStats = q] /\ valuers' = valuers /\ d' = d
    BY <1>13 DEF DropStats
  <2>4. q \in Seq(AllStats) /\ ToSet(q) = K
    <3>1. K \subseteq ToSet(cd.newStats) /\ ToSet(cd.newStats) \subseteq AllStats BY <1>3 DEF ToSet
    <3> HIDE DEF K
    <3>2. q \in Seq(AllStats \cap K) /\ ToSet(q) = ToSet(cd.newStats) \cap K BY <1>3, SelectedProperties
    <3> QED BY <3>1, <3>2
  <2>5. K = ToSet(cd.newStats) \ {s \in AllStats : s.id \in ToSet(StatsOf[x])} BY <1>3 DEF ToSet
  <2> HIDE DEF q, do, x, K
  <2>6. /\ cd'.newStats = q
        /\ cd'.startedGroups = cd.startedGroups
        /\ cd'.startedNodes = cd.startedNodes
        /\ cd'.connected = cd.connected
        /\ IsDelta(cd')
    BY <1>2, <2>2, <2>4, WithNewStats
  <2>8. ToSet(cd.startedNodes) \subseteq NodeRecs /\ ToSet(cd.newStats) \subseteq AllStats BY <1>3 DEF ToSet
  <2>7. EffectOnCatchUp(do, x) BY <2>1, <2>4, <2>6, <2>5, <2>8 DEF EffectOnCatchUp
  <2> QED BY <2>1, <2>2, <2>7, <1>5, <1>6 DEF do, x
<1>14. CASE RemoveValuers(t)
  <2>1. do = "RemoveValuers" /\ x \in Nodes
    BY <1>14, <1>7 DEF RemoveValuers, Runs, EndDos
  <2>2. cd' = cd /\ d' = d BY <1>14 DEF RemoveValuers
  <2>3. EffectOnValuers(do, x) BY <1>14, <2>1 DEF RemoveValuers, EffectOnValuers
  <2> HIDE DEF do, x
  <2> QED BY <2>1, <2>2, <2>3, <1>4, <1>5 DEF do, x
<1>15. CASE DropNode(t)
  <2>1. do = "DropNode" /\ x \in Nodes
    BY <1>15, <1>7 DEF DropNode, Runs, EndDos
  <2> DEFINE K == {n \in ToSet(cd.startedNodes) : n.id # x}
             q == Selected(cd.startedNodes, K)
  <2>2. cd' = [cd EXCEPT !.startedNodes = q] /\ valuers' = valuers /\ d' = d
    BY <1>15 DEF DropNode
  <2>4. q \in Seq(NodeRecs) /\ ToSet(q) = K
    <3>1. K \subseteq ToSet(cd.startedNodes) /\ ToSet(cd.startedNodes) \subseteq NodeRecs BY <1>3 DEF ToSet
    <3> HIDE DEF K
    <3>2. q \in Seq(NodeRecs \cap K) /\ ToSet(q) = ToSet(cd.startedNodes) \cap K BY <1>3, SelectedProperties
    <3> QED BY <3>1, <3>2
  <2>5. K = ToSet(cd.startedNodes) \ {n \in NodeRecs : n.id = x} BY <1>3 DEF ToSet
  <2> HIDE DEF q, do, x, K
  <2>6. /\ cd'.startedNodes = q
        /\ cd'.startedGroups = cd.startedGroups
        /\ cd'.connected = cd.connected
        /\ cd'.newStats = cd.newStats
        /\ IsDelta(cd')
    BY <1>2, <2>2, <2>4, WithStartedNodes
  <2>8. ToSet(cd.startedNodes) \subseteq NodeRecs /\ ToSet(cd.newStats) \subseteq AllStats BY <1>3 DEF ToSet
  <2>7. EffectOnCatchUp(do, x) BY <2>1, <2>4, <2>6, <2>5, <2>8 DEF EffectOnCatchUp
  <2> QED BY <2>1, <2>2, <2>7, <1>5, <1>6 DEF do, x
<1>16. CASE NodeDoneInDelta(t)
  <2>1. do = "NodeDoneInDelta" /\ x \in Nodes
    BY <1>16, <1>7 DEF NodeDoneInDelta, Runs, EndDos
  <2>2. d' = [d EXCEPT !.doneNodes = Append(d.doneNodes, x)] /\ valuers' = valuers /\ cd' = cd
    BY <1>16 DEF NodeDoneInDelta
  <2>3. x \in Nodes BY <2>1
  <2> DEFINE q == Append(d.doneNodes, x)
  <2>9. d' = [d EXCEPT !.doneNodes = q] BY <2>2
  <2>4. q \in Seq(Nodes) /\ ToSet(q) = ToSet(d.doneNodes) \cup {x}
    <3> DEFINE y == x
    <3>1. y \in Nodes BY <2>3
    <3> HIDE DEF y, x
    <3>2. Append(d.doneNodes, y) \in Seq(Nodes) /\ ToSet(Append(d.doneNodes, y)) = ToSet(d.doneNodes) \cup {y} BY <1>3, <3>1, AppendSet
    <3> QED BY <3>2 DEF y
  <2> HIDE DEF q, do, x
  <2>6. /\ d'.doneNodes = q
        /\ d'.startedGroups = d.startedGroups
        /\ d'.doneGroups = d.doneGroups
        /\ d'.startedNodes = d.startedNodes
        /\ d'.connected = d.connected
        /\ d'.disconnected = d.disconnected
        /\ d'.newStats = d.newStats
        /\ IsDelta(d')
    BY <1>2, <2>9, <2>4, WithDoneNodes
  <2>7. EffectOnDelta(do, x) BY <2>1, <2>4, <2>6 DEF EffectOnDelta
  <2> QED BY <2>1, <2>2, <2>7, <1>4, <1>6 DEF do, x
<1>17. CASE LinkInCatchUp(t)
  <2>1. do = "LinkInCatchUp" /\ x \in Links
    BY <1>17, <1>7 DEF LinkInCatchUp, Runs, LinkDos
  <2>2. cd' = [cd EXCEPT !.connected = Append(cd.connected, x)] /\ valuers' = valuers /\ d' = d
    BY <1>17 DEF LinkInCatchUp
  <2>3. x \in Links BY <2>1
  <2> DEFINE q == Append(cd.connected, x)
  <2>9. cd' = [cd EXCEPT !.connected = q] BY <2>2
  <2>4. q \in Seq(Links) /\ ToSet(q) = ToSet(cd.connected) \cup {x}
    <3> DEFINE y == x
    <3>1. y \in Links BY <2>3
    <3> HIDE DEF y, x
    <3>2. Append(cd.connected, y) \in Seq(Links) /\ ToSet(Append(cd.connected, y)) = ToSet(cd.connected) \cup {y} BY <1>3, <3>1, AppendSet
    <3> QED BY <3>2 DEF y
  <2> HIDE DEF q, do, x
  <2>6. /\ cd'.connected = q
        /\ cd'.startedGroups = cd.startedGroups
        /\ cd'.startedNodes = cd.startedNodes
        /\ cd'.newStats = cd.newStats
        /\ IsDelta(cd')
    BY <1>2, <2>9, <2>4, WithConnected
  <2>8. ToSet(cd.startedNodes) \subseteq NodeRecs /\ ToSet(cd.newStats) \subseteq AllStats BY <1>3 DEF ToSet
  <2>7. EffectOnCatchUp(do, x) BY <2>1, <2>4, <2>6, <2>8 DEF EffectOnCatchUp
  <2> QED BY <2>1, <2>2, <2>7, <1>5, <1>6 DEF do, x
<1>18. CASE LinkInDelta(t)
  <2>1. do = "LinkInDelta" /\ x \in Links
    BY <1>18, <1>7 DEF LinkInDelta, Runs, LinkDos
  <2>2. d' = [d EXCEPT !.connected = Append(d.connected, x)] /\ valuers' = valuers /\ cd' = cd
    BY <1>18 DEF LinkInDelta
  <2>3. x \in Links BY <2>1
  <2> DEFINE q == Append(d.connected, x)
  <2>9. d' = [d EXCEPT !.connected = q] BY <2>2
  <2>4. q \in Seq(Links) /\ ToSet(q) = ToSet(d.connected) \cup {x}
    <3> DEFINE y == x
    <3>1. y \in Links BY <2>3
    <3> HIDE DEF y, x
    <3>2. Append(d.connected, y) \in Seq(Links) /\ ToSet(Append(d.connected, y)) = ToSet(d.connected) \cup {y} BY <1>3, <3>1, AppendSet
    <3> QED BY <3>2 DEF y
  <2> HIDE DEF q, do, x
  <2>6. /\ d'.connected = q
        /\ d'.startedGroups = d.startedGroups
        /\ d'.doneGroups = d.doneGroups
        /\ d'.startedNodes = d.startedNodes
        /\ d'.doneNodes = d.doneNodes
        /\ d'.disconnected = d.disconnected
        /\ d'.newStats = d.newStats
        /\ IsDelta(d')
    BY <1>2, <2>9, <2>4, WithConnected
  <2>7. EffectOnDelta(do, x) BY <2>1, <2>4, <2>6 DEF EffectOnDelta
  <2> QED BY <2>1, <2>2, <2>7, <1>4, <1>6 DEF do, x
<1>19. CASE DropLink(t)
  <2>1. do = "DropLink" /\ x \in Links
    BY <1>19, <1>7 DEF DropLink, Runs, LinkDos
  <2> DEFINE K == ToSet(cd.connected) \ {x}
             q == Selected(cd.connected, K)
  <2>2. cd' = [cd EXCEPT !.connected = q] /\ valuers' = valuers /\ d' = d
    BY <1>19 DEF DropLink
  <2>4. q \in Seq(Links) /\ ToSet(q) = K
    <3>1. K \subseteq ToSet(cd.connected) /\ ToSet(cd.connected) \subseteq Links BY <1>3 DEF ToSet
    <3> HIDE DEF K
    <3>2. q \in Seq(Links \cap K) /\ ToSet(q) = ToSet(cd.connected) \cap K BY <1>3, SelectedProperties
    <3> QED BY <3>1, <3>2
  <2>5. K = ToSet(cd.connected) \ {x} BY <1>3 DEF ToSet
  <2> HIDE DEF q, do, x, K
  <2>6. /\ cd'.connected = q
        /\ cd'.startedGroups = cd.startedGroups
        /\ cd'.startedNodes = cd.startedNodes
        /\ cd'.newStats = cd.newStats
        /\ IsDelta(cd')
    BY <1>2, <2>2, <2>4, WithConnected
  <2>8. ToSet(cd.startedNodes) \subseteq NodeRecs /\ ToSet(cd.newStats) \subseteq AllStats BY <1>3 DEF ToSet
  <2>7. EffectOnCatchUp(do, x) BY <2>1, <2>4, <2>6, <2>5, <2>8 DEF EffectOnCatchUp
  <2> QED BY <2>1, <2>2, <2>7, <1>5, <1>6 DEF do, x
<1>20. CASE CutInDelta(t)
  <2>1. do = "CutInDelta" /\ x \in Links
    BY <1>20, <1>7 DEF CutInDelta, Runs, LinkDos
  <2>2. d' = [d EXCEPT !.disconnected = Append(d.disconnected, x)] /\ valuers' = valuers /\ cd' = cd
    BY <1>20 DEF CutInDelta
  <2>3. x \in Links BY <2>1
  <2> DEFINE q == Append(d.disconnected, x)
  <2>9. d' = [d EXCEPT !.disconnected = q] BY <2>2
  <2>4. q \in Seq(Links) /\ ToSet(q) = ToSet(d.disconnected) \cup {x}
    <3> DEFINE y == x
    <3>1. y \in Links BY <2>3
    <3> HIDE DEF y, x
    <3>2. Append(d.disconnected, y) \in Seq(Links) /\ ToSet(Append(d.disconnected, y)) = ToSet(d.disconnected) \cup {y} BY <1>3, <3>1, AppendSet
    <3> QED BY <3>2 DEF y
  <2> HIDE DEF q, do, x
  <2>6. /\ d'.disconnected = q
        /\ d'.startedGroups = d.startedGroups
        /\ d'.doneGroups = d.doneGroups
        /\ d'.startedNodes = d.startedNodes
        /\ d'.doneNodes = d.doneNodes
        /\ d'.connected = d.connected
        /\ d'.newStats = d.newStats
        /\ IsDelta(d')
    BY <1>2, <2>9, <2>4, WithDisconnected
  <2>7. EffectOnDelta(do, x) BY <2>1, <2>4, <2>6 DEF EffectOnDelta
  <2> QED BY <2>1, <2>2, <2>7, <1>4, <1>6 DEF do, x
<1>21. CASE GroupInCatchUp(t)
  <2>1. do = "GroupInCatchUp" /\ x \in Groups
    BY <1>21, <1>7 DEF GroupInCatchUp, Runs, GroupStartDos
  <2>2. cd' = [cd EXCEPT !.startedGroups = Append(cd.startedGroups, x)] /\ valuers' = valuers /\ d' = d
    BY <1>21 DEF GroupInCatchUp
  <2>3. x \in Groups BY <2>1
  <2> DEFINE q == Append(cd.startedGroups, x)
  <2>9. cd' = [cd EXCEPT !.startedGroups = q] BY <2>2
  <2>4. q \in Seq(Groups) /\ ToSet(q) = ToSet(cd.startedGroups) \cup {x}
    <3> DEFINE y == x
    <3>1. y \in Groups BY <2>3
    <3> HIDE DEF y, x
    <3>2. Append(cd.startedGroups, y) \in Seq(Groups) /\ ToSet(Append(cd.startedGroups, y)) = ToSet(cd.startedGroups) \cup {y} BY <1>3, <3>1, AppendSet
    <3> QED BY <3>2 DEF y
  <2> HIDE DEF q, do, x
  <2>6. /\ cd'.startedGroups = q
        /\ cd'.startedNodes = cd.startedNodes
        /\ cd'.connected = cd.connected
        /\ cd'.newStats = cd.newStats
        /\ IsDelta(cd')
    BY <1>2, <2>9, <2>4, WithStartedGroups
  <2>8. ToSet(cd.startedNodes) \subseteq NodeRecs /\ ToSet(cd.newStats) \subseteq AllStats BY <1>3 DEF ToSet
  <2>7. EffectOnCatchUp(do, x) BY <2>1, <2>4, <2>6, <2>8 DEF EffectOnCatchUp
  <2> QED BY <2>1, <2>2, <2>7, <1>5, <1>6 DEF do, x
<1>22. CASE GroupInDelta(t)
  <2>1. do = "GroupInDelta" /\ x \in Groups
    BY <1>22, <1>7 DEF GroupInDelta, Runs, GroupStartDos
  <2>2. d' = [d EXCEPT !.startedGroups = Append(d.startedGroups, x)] /\ valuers' = valuers /\ cd' = cd
    BY <1>22 DEF GroupInDelta
  <2>3. x \in Groups BY <2>1
  <2> DEFINE q == Append(d.startedGroups, x)
  <2>9. d' = [d EXCEPT !.startedGroups = q] BY <2>2
  <2>4. q \in Seq(Groups) /\ ToSet(q) = ToSet(d.startedGroups) \cup {x}
    <3> DEFINE y == x
    <3>1. y \in Groups BY <2>3
    <3> HIDE DEF y, x
    <3>2. Append(d.startedGroups, y) \in Seq(Groups) /\ ToSet(Append(d.startedGroups, y)) = ToSet(d.startedGroups) \cup {y} BY <1>3, <3>1, AppendSet
    <3> QED BY <3>2 DEF y
  <2> HIDE DEF q, do, x
  <2>6. /\ d'.startedGroups = q
        /\ d'.doneGroups = d.doneGroups
        /\ d'.startedNodes = d.startedNodes
        /\ d'.doneNodes = d.doneNodes
        /\ d'.connected = d.connected
        /\ d'.disconnected = d.disconnected
        /\ d'.newStats = d.newStats
        /\ IsDelta(d')
    BY <1>2, <2>9, <2>4, WithStartedGroups
  <2>7. EffectOnDelta(do, x) BY <2>1, <2>4, <2>6 DEF EffectOnDelta
  <2> QED BY <2>1, <2>2, <2>7, <1>4, <1>6 DEF do, x
<1>23. CASE DropGroup(t)
  <2>1. do = "DropGroup" /\ x \in Groups
    BY <1>23, <1>7 DEF DropGroup, Runs, GroupEndDos
  <2> DEFINE K == ToSet(cd.startedGroups) \ {x}
             q == Selected(cd.startedGroups, K)
  <2>2. cd' = [cd EXCEPT !.startedGroups = q] /\ valuers' = valuers /\ d' = d
    BY <1>23 DEF DropGroup
  <2>4. q \in Seq(Groups) /\ ToSet(q) = K
    <3>1. K \subseteq ToSet(cd.startedGroups) /\ ToSet(cd.startedGroups) \subseteq Groups BY <1>3 DEF ToSet
    <3> HIDE DEF K
    <3>2. q \in Seq(Groups \cap K) /\ ToSet(q) = ToSet(cd.startedGroups) \cap K BY <1>3, SelectedProperties
    <3> QED BY <3>1, <3>2
  <2>5. K = ToSet(cd.startedGroups) \ {x} BY <1>3 DEF ToSet
  <2> HIDE DEF q, do, x, K
  <2>6. /\ cd'.startedGroups = q
        /\ cd'.startedNodes = cd.startedNodes
        /\ cd'.connected = cd.connected
        /\ cd'.newStats = cd.newStats
        /\ IsDelta(cd')
    BY <1>2, <2>2, <2>4, WithStartedGroups
  <2>8. ToSet(cd.startedNodes) \subseteq NodeRecs /\ ToSet(cd.newStats) \subseteq AllStats BY <1>3 DEF ToSet
  <2>7. EffectOnCatchUp(do, x) BY <2>1, <2>4, <2>6, <2>5, <2>8 DEF EffectOnCatchUp
  <2> QED BY <2>1, <2>2, <2>7, <1>5, <1>6 DEF do, x
<1>24. CASE GroupDoneInDelta(t)
  <2>1. do = "GroupDoneInDelta" /\ x \in Groups
    BY <1>24, <1>7 DEF GroupDoneInDelta, Runs, GroupEndDos
  <2>2. d' = [d EXCEPT !.doneGroups = Append(d.doneGroups, x)] /\ valuers' = valuers /\ cd' = cd
    BY <1>24 DEF GroupDoneInDelta
  <2>3. x \in Groups BY <2>1
  <2> DEFINE q == Append(d.doneGroups, x)
  <2>9. d' = [d EXCEPT !.doneGroups = q] BY <2>2
  <2>4. q \in Seq(Groups) /\ ToSet(q) = ToSet(d.doneGroups) \cup {x}
    <3> DEFINE y == x
    <3>1. y \in Groups BY <2>3
    <3> HIDE DEF y, x
    <3>2. Append(d.doneGroups, y) \in Seq(Groups) /\ ToSet(Append(d.doneGroups, y)) = ToSet(d.doneGroups) \cup {y} BY <1>3, <3>1, AppendSet
    <3> QED BY <3>2 DEF y
  <2> HIDE DEF q, do, x
  <2>6. /\ d'.doneGroups = q
        /\ d'.startedGroups = d.startedGroups
        /\ d'.startedNodes = d.startedNodes
        /\ d'.doneNodes = d.doneNodes
        /\ d'.connected = d.connected
        /\ d'.disconnected = d.disconnected
        /\ d'.newStats = d.newStats
        /\ IsDelta(d')
    BY <1>2, <2>9, <2>4, WithDoneGroups
  <2>7. EffectOnDelta(do, x) BY <2>1, <2>4, <2>6 DEF EffectOnDelta
  <2> QED BY <2>1, <2>2, <2>7, <1>4, <1>6 DEF do, x
<1> QED BY <1>8, <1>9, <1>10, <1>11, <1>12, <1>13, <1>14, <1>15, <1>16, <1>17, <1>18, <1>19, <1>20, <1>21, <1>22, <1>23, <1>24 DEF Handle

---------------------------------------------------------------------------
(* What a goroutine may count on when it runs.                             *)

\* A node that is done has started, and its stats have been announced (task.go: running
\* comes before done).
LEMMA NodeGate ==
  ASSUME ScriptInv(script), NEW n \in Nodes, script[n] # <<>>, MayRun(n)
  PROVE  /\ ~Left(script, Step("NodeInDelta", n))
         /\ \A s \in Stats : s.node = n => /\ ~Left(script, Step("StatInDelta", s))
                                           /\ ~Left(script, Step("StatInCatchUp", s))
                                           /\ ~Left(script, Step("AddValuer", s))
<1>0. Scripted(script) /\ Placed(script) /\ StatsFirst(script) /\ StatsInTurn(script) BY DEF ScriptInv
<1>1. \A i \in DOMAIN script[UserThread] : script[UserThread][i] # Step("NodeInDelta", n) BY DEF MayRun
<1>2. ~Left(script, Step("NodeInDelta", n))
  <2> SUFFICES ASSUME NEW t \in Threads, NEW i \in DOMAIN script[t], script[t][i] = Step("NodeInDelta", n)
               PROVE  FALSE
    BY DEF Left
  <2>1. StepIn(t, Step("NodeInDelta", n)) BY <1>0 DEF Placed
  <2>2. t = UserThread
    BY <2>1 DEF StepIn, Step, LinkDos, StatDos, StartDos, GroupStartDos, EndDos, GroupEndDos
  <2> QED BY <2>2, <1>1
<1>3. ASSUME NEW s \in Stats, s.node = n PROVE ~Left(script, Step("StatInDelta", s))
  <2> SUFFICES ASSUME NEW t \in Threads, NEW i \in DOMAIN script[t], script[t][i] = Step("StatInDelta", s)
               PROVE  FALSE
    BY DEF Left
  <2>1. StepIn(t, Step("StatInDelta", s)) BY <1>0 DEF Placed
  <2>2. t = UserThread
    BY <2>1 DEF StepIn, Step, LinkDos, StatDos, StartDos, GroupStartDos, EndDos, GroupEndDos
  <2>3. script[t][i].do = "StatInDelta" /\ script[t][i].of = s BY DEF Step
  <2>4. \E j \in DOMAIN script[UserThread] : script[UserThread][j] = Step("NodeInDelta", n)
    BY <1>0, <1>3, <2>2, <2>3 DEF StatsFirst
  <2> QED BY <2>4, <1>1
<1>4. ASSUME NEW s \in Stats, s.node = n
      PROVE  ~Left(script, Step("StatInCatchUp", s)) /\ ~Left(script, Step("AddValuer", s))
  <2>1. /\ Then(script, Step("AddValuer", s), Step("StatInCatchUp", s))
        /\ Then(script, Step("StatInCatchUp", s), Step("StatInDelta", s))
    BY <1>0 DEF StatsInTurn
  <2>2. Left(script, Step("AddValuer", s)) => Left(script, Step("StatInCatchUp", s)) BY <1>0, <2>1, InTurn
  <2>3. Left(script, Step("StatInCatchUp", s)) => Left(script, Step("StatInDelta", s)) BY <1>0, <2>1, InTurn
  <2> QED BY <2>2, <2>3, <1>3, <1>4
<1> QED BY <1>2, <1>3, <1>4

\* A group that is done has started.
LEMMA GroupGate ==
  ASSUME ScriptInv(script), NEW g \in Groups, MayRun(g)
  PROVE  ~Left(script, Step("GroupInDelta", g))
<1>0. Placed(script) BY DEF ScriptInv
<1>1. \A i \in DOMAIN script[UserThread] : script[UserThread][i] # Step("GroupInDelta", g) BY DEF MayRun
<1> SUFFICES ASSUME NEW t \in Threads, NEW i \in DOMAIN script[t], script[t][i] = Step("GroupInDelta", g)
             PROVE  FALSE
  BY DEF Left
<1>2. StepIn(t, Step("GroupInDelta", g)) BY <1>0 DEF Placed
<1>3. t = UserThread
  BY <1>2 DEF StepIn, Step, LinkDos, StatDos, StartDos, GroupStartDos, EndDos, GroupEndDos
<1> QED BY <1>1, <1>3

\* A link that is about to be cut has been told, when links come in turn.
LEMMA LinkGate ==
  ASSUME ScriptInv(script), LinkInv(script), NEW t \in Threads, MayRun(t), NEW c \in Links,
         script[t] # <<>>, Head(script[t]) = Step("DropLink", c)
  PROVE  ~Left(script, Step("LinkInDelta", c))
<1>1. 1 \in DOMAIN script[t] /\ script[t][1] = Step("DropLink", c) /\ DOMAIN script[t] \subseteq Nat \ {0}
  <2> DEFINE s == script[t]
             S == ToSet(s)
  <2>1. s \in Seq(S) BY DEF ScriptInv, Scripted
  <2> HIDE DEF s, S
  <2>2. s # <<>> => 1 \in DOMAIN s /\ s[1] = Head(s) /\ DOMAIN s \subseteq Nat \ {0} BY <2>1
  <2> QED BY <2>2 DEF s
<1> SUFFICES ASSUME NEW u \in Threads, NEW j \in DOMAIN script[u], script[u][j] = Step("LinkInDelta", c)
             PROVE  FALSE
  BY DEF Left
<1>2. script[t][1].do = "DropLink" /\ script[t][1].of = c BY <1>1 DEF Step
<1>3. \/ t = u /\ j < 1
      \/ u = UserThread /\ \E k \in DOMAIN script[u] : k > j /\
             \/ t \in Nodes /\ script[u][k] = Step("NodeInDelta", t)
             \/ t \in Groups /\ script[u][k] = Step("GroupInDelta", t)
  BY <1>1, <1>2 DEF LinkInv, CutLater
<1>4. ~(t = u /\ j < 1) BY <1>1
<1> QED BY <1>3, <1>4 DEF MayRun

---------------------------------------------------------------------------
(* The story of a thing that enters two deltas, then leaves them: c says   *)
(* whether the catch-up delta has it, e whether who adds the deltas up     *)
(* will, z whether the pending delta withdraws it.  Of its four steps, e1, *)
(* e2, l1 and l2 are still to be run.                                      *)
Story(e1, e2, l1, l2, c, e, z) ==
    /\ e1 => ~c
    /\ e2 => ~e /\ ~z
    /\ e2 /\ ~e1 => c
    /\ l2 /\ ~l1 => ~c
    /\ ~e2 /\ (l1 \/ ~l2) => (c <=> e)
    /\ e2 /\ l2 => l1

\* What is left of a thing's four steps after a step.
LEMMA LeftMoves ==
  ASSUME NEW sc, NEW sc2, NEW t \in Threads, Scripted(sc), Ran(sc, sc2, t), NEW st, st = Head(sc[t]),
         NEW A1, NEW A2, NEW L1, NEW L2, st \in {A1, A2, L1, L2} => Once(sc, st)
  PROVE  /\ Left(sc, st)
         /\ Left(sc2, A1) <=> Left(sc, A1) /\ A1 # st
         /\ Left(sc2, A2) <=> Left(sc, A2) /\ A2 # st
         /\ Left(sc2, L1) <=> Left(sc, L1) /\ L1 # st
         /\ Left(sc2, L2) <=> Left(sc, L2) /\ L2 # st
<1>1. ASSUME NEW x, st = x => Once(sc, st)
      PROVE  Left(sc2, x) <=> Left(sc, x) /\ x # st
  BY RanLeaves, <1>1
<1>2. Left(sc, st) BY RanLeaves
<1> QED BY <1>1, <1>2

\* The steps of a thing that is withdrawn from both deltas, after one of them was run.
Turns(sc, sc2, st, A1, A2, L1, L2) ==
    /\ A1 # A2 /\ A1 # L1 /\ A1 # L2 /\ A2 # L1 /\ A2 # L2 /\ L1 # L2
    /\ Left(sc, st)
    /\ Left(sc2, A1) <=> Left(sc, A1) /\ A1 # st
    /\ Left(sc2, A2) <=> Left(sc, A2) /\ A2 # st
    /\ Left(sc2, L1) <=> Left(sc, L1) /\ L1 # st
    /\ Left(sc2, L2) <=> Left(sc, L2) /\ L2 # st
    /\ Left(sc, A1) => Left(sc, A2)
    /\ st = A2 => ~Left(sc, A1)
    /\ Left(sc, L1) => Left(sc, L2)
    /\ st = L2 => ~Left(sc, L1)
    /\ st = L1 => ~Left(sc, A2)

\* They are run in turn, the first half of each before its second, and the announcement first.
LEMMA TakesTurns ==
  ASSUME NEW sc, NEW sc2, Scripted(sc), NEW t \in Threads, Ran(sc, sc2, t), NEW st, st = Head(sc[t]),
         NEW A1, NEW A2, NEW L1, NEW L2,
         A1 # A2 /\ A1 # L1 /\ A1 # L2 /\ A2 # L1 /\ A2 # L2 /\ L1 # L2,
         st \in {A1, A2, L1, L2} => Once(sc, st),
         Then(sc, A1, A2), Then(sc, L1, L2),
         st = L1 => ~Left(sc, A2)
  PROVE  Turns(sc, sc2, st, A1, A2, L1, L2)
<1>1. sc[t] # <<>> BY DEF Ran
<1>2. /\ Left(sc, A1) => Left(sc, A2)
      /\ st = A2 => ~Left(sc, A1)
  <2>1. Left(sc, A1) => Left(sc, A2) BY InTurn
  <2>2. ASSUME st = A2 PROVE ~Left(sc, A1)
    <3>1. Once(sc, A2) /\ Head(sc[t]) = A2 BY <2>2
    <3> QED BY <1>1, <3>1, InTurn
  <2> QED BY <2>1, <2>2
<1>3. /\ Left(sc, L1) => Left(sc, L2)
      /\ st = L2 => ~Left(sc, L1)
  <2>1. Left(sc, L1) => Left(sc, L2) BY InTurn
  <2>2. ASSUME st = L2 PROVE ~Left(sc, L1)
    <3>1. Once(sc, L2) /\ Head(sc[t]) = L2 BY <2>2
    <3> QED BY <1>1, <3>1, InTurn
  <2> QED BY <2>1, <2>2
<1>4. /\ Left(sc, st)
      /\ Left(sc2, A1) <=> Left(sc, A1) /\ A1 # st
      /\ Left(sc2, A2) <=> Left(sc, A2) /\ A2 # st
      /\ Left(sc2, L1) <=> Left(sc, L1) /\ L1 # st
      /\ Left(sc2, L2) <=> Left(sc, L2) /\ L2 # st
  BY LeftMoves
<1> QED BY <1>2, <1>3, <1>4 DEF Turns

\* After a step a thing's story goes on.
LEMMA StoryGoesOn ==
  ASSUME NEW sc, NEW sc2, NEW st, NEW A1, NEW A2, NEW L1, NEW L2, Turns(sc, sc2, st, A1, A2, L1, L2),
         NEW c \in BOOLEAN, NEW e \in BOOLEAN, NEW z \in BOOLEAN,
         NEW cc \in BOOLEAN, NEW ee \in BOOLEAN, NEW zz \in BOOLEAN,
         Story(Left(sc, A1), Left(sc, A2), Left(sc, L1), Left(sc, L2), c, e, z),
         cc <=> (c \/ st = A1) /\ st # L1,
         ee <=> (e \/ (st = A2 /\ ~z)) /\ st # L2,
         zz <=> z \/ st = L2
  PROVE  Story(Left(sc2, A1), Left(sc2, A2), Left(sc2, L1), Left(sc2, L2), cc, ee, zz)
<1> DEFINE P(y) == Left(sc, y)
           Q(y) == Left(sc2, y)
<1>1. /\ A1 # A2 /\ A1 # L1 /\ A1 # L2 /\ A2 # L1 /\ A2 # L2 /\ L1 # L2
      /\ P(st)
      /\ Q(A1) <=> P(A1) /\ A1 # st
      /\ Q(A2) <=> P(A2) /\ A2 # st
      /\ Q(L1) <=> P(L1) /\ L1 # st
      /\ Q(L2) <=> P(L2) /\ L2 # st
      /\ P(A1) => P(A2)
      /\ st = A2 => ~P(A1)
      /\ st = L2 => ~P(L1)
      /\ P(L1) => P(L2)
      /\ st = L1 => ~P(A2)
  BY DEF Turns
<1>2. Story(P(A1), P(A2), P(L1), P(L2), c, e, z) OBVIOUS
<1> SUFFICES Story(Q(A1), Q(A2), Q(L1), Q(L2), cc, ee, zz) OBVIOUS
<1> HIDE DEF P, Q
<1>3. CASE st = A1 BY <1>1, <1>2, <1>3 DEF Story
<1>4. CASE st = A2 BY <1>1, <1>2, <1>4 DEF Story
<1>5. CASE st = L1 BY <1>1, <1>2, <1>5 DEF Story
<1>6. CASE st = L2 BY <1>1, <1>2, <1>6 DEF Story
<1>7. CASE st \notin {A1, A2, L1, L2} BY <1>1, <1>2, <1>7 DEF Story
<1> QED BY <1>3, <1>4, <1>5, <1>6, <1>7

---------------------------------------------------------------------------
(* The things of a flow, and their stories.                                *)

\* Those of a group.
LEMMA GroupTurns ==
  ASSUME TypeInv, NEW t \in Threads, Handle(t), NEW g \in Groups
  PROVE  Turns(script, script', Head(script[t]), Step("GroupInCatchUp", g), Step("GroupInDelta", g),
               Step("DropGroup", g), Step("GroupDoneInDelta", g))
<1> DEFINE st == Head(script[t])
           A1 == Step("GroupInCatchUp", g)
           A2 == Step("GroupInDelta", g)
           L1 == Step("DropGroup", g)
           L2 == Step("GroupDoneInDelta", g)
<1>1. Ran(script, script', t) /\ MayRun(t) /\ StepIn(t, st)
  BY HandleRuns
<1>2. ScriptInv(script) /\ Scripted(script) BY DEF TypeInv, ScriptInv
<1>3. A1 # A2 /\ A1 # L1 /\ A1 # L2 /\ A2 # L1 /\ A2 # L2 /\ L1 # L2 BY DEF Step
<1>4. st \in {A1, A2, L1, L2} => Once(script, st) BY <1>2 DEF ScriptInv, Unique, LinkDos, Step
<1>5. Then(script, A1, A2) /\ Then(script, L1, L2) BY <1>2 DEF ScriptInv, GroupsInTurn
<1>6. st = L1 => ~Left(script, A2)
  <2> SUFFICES ASSUME st = L1 PROVE ~Left(script, A2) OBVIOUS
  <2>1. t = g
    BY <1>1 DEF StepIn, Step, LinkDos, StatDos, StartDos, GroupStartDos, EndDos, GroupEndDos
  <2> QED BY <2>1, <1>1, <1>2, GroupGate
<1> HIDE DEF st, A1, A2, L1, L2
<1>7. Turns(script, script', st, A1, A2, L1, L2)
  BY <1>1, <1>2, <1>3, <1>4, <1>5, <1>6, TakesTurns DEF st
<1> QED BY <1>7 DEF st, A1, A2, L1, L2

\* Those of a node.
LEMMA NodeTurns ==
  ASSUME TypeInv, NEW t \in Threads, Handle(t), NEW n \in Nodes
  PROVE  Turns(script, script', Head(script[t]), Step("NodeInCatchUp", n), Step("NodeInDelta", n),
               Step("DropNode", n), Step("NodeDoneInDelta", n))
<1> DEFINE st == Head(script[t])
           A1 == Step("NodeInCatchUp", n)
           A2 == Step("NodeInDelta", n)
           L1 == Step("DropNode", n)
           L2 == Step("NodeDoneInDelta", n)
<1>1. Ran(script, script', t) /\ MayRun(t) /\ StepIn(t, st)
  BY HandleRuns
<1>2. ScriptInv(script) /\ Scripted(script) BY DEF TypeInv, ScriptInv
<1>3. A1 # A2 /\ A1 # L1 /\ A1 # L2 /\ A2 # L1 /\ A2 # L2 /\ L1 # L2 BY DEF Step
<1>4. st \in {A1, A2, L1, L2} => Once(script, st) BY <1>2 DEF ScriptInv, Unique, LinkDos, Step
<1>5. Then(script, A1, A2) /\ Then(script, L1, L2) BY <1>2 DEF ScriptInv, NodesInTurn
<1>6. st = L1 => ~Left(script, A2)
  <2> SUFFICES ASSUME st = L1 PROVE ~Left(script, A2) OBVIOUS
  <2>1. t = n
    BY <1>1 DEF StepIn, Step, LinkDos, StatDos, StartDos, GroupStartDos, EndDos, GroupEndDos
  <2>2. script[t] # <<>> BY <1>1 DEF Ran
  <2> QED BY <2>1, <2>2, <1>1, <1>2, NodeGate
<1> HIDE DEF st, A1, A2, L1, L2
<1>7. Turns(script, script', st, A1, A2, L1, L2)
  BY <1>1, <1>2, <1>3, <1>4, <1>5, <1>6, TakesTurns DEF st
<1> QED BY <1>7 DEF st, A1, A2, L1, L2

\* Those of a link, when links come in turn.
LEMMA LinkTurns ==
  ASSUME TypeInv, LinkInv(script), NEW t \in Threads, Handle(t), NEW l \in Links
  PROVE  Turns(script, script', Head(script[t]), Step("LinkInCatchUp", l), Step("LinkInDelta", l),
               Step("DropLink", l), Step("CutInDelta", l))
<1> DEFINE st == Head(script[t])
           A1 == Step("LinkInCatchUp", l)
           A2 == Step("LinkInDelta", l)
           L1 == Step("DropLink", l)
           L2 == Step("CutInDelta", l)
<1>1. Ran(script, script', t) /\ MayRun(t) /\ StepIn(t, st)
  BY HandleRuns
<1>2. ScriptInv(script) /\ Scripted(script) BY DEF TypeInv, ScriptInv
<1>3. A1 # A2 /\ A1 # L1 /\ A1 # L2 /\ A2 # L1 /\ A2 # L2 /\ L1 # L2 BY DEF Step
<1>4. st \in {A1, A2, L1, L2} => Once(script, st) BY DEF LinkInv
<1>5. Then(script, A1, A2) /\ Then(script, L1, L2) BY <1>2 DEF ScriptInv, LinksInTurn
<1>6. st = L1 => ~Left(script, A2)
  <2>1. script[t] # <<>> BY <1>1 DEF Ran
  <2> QED BY <2>1, <1>1, <1>2, LinkGate
<1> HIDE DEF st, A1, A2, L1, L2
<1>7. Turns(script, script', st, A1, A2, L1, L2)
  BY <1>1, <1>2, <1>3, <1>4, <1>5, <1>6, TakesTurns DEF st
<1> QED BY <1>7 DEF st, A1, A2, L1, L2

\* Those of a stat of a node, which leaves with the node.
LEMMA StatTurns ==
  ASSUME TypeInv, NEW t \in Threads, Handle(t), NEW s \in Stats
  PROVE  Turns(script, script', Head(script[t]), Step("StatInCatchUp", s), Step("StatInDelta", s),
               Step("DropStats", s.node), Step("NodeDoneInDelta", s.node))
<1> DEFINE st == Head(script[t])
           A1 == Step("StatInCatchUp", s)
           A2 == Step("StatInDelta", s)
           L1 == Step("DropStats", s.node)
           L2 == Step("NodeDoneInDelta", s.node)
<1>1. Ran(script, script', t) /\ MayRun(t) /\ StepIn(t, st) /\ script[t] # <<>>
  BY HandleRuns DEF Ran
<1>2. ScriptInv(script) /\ Scripted(script) BY DEF TypeInv, ScriptInv
<1>3. A1 # A2 /\ A1 # L1 /\ A1 # L2 /\ A2 # L1 /\ A2 # L2 /\ L1 # L2 BY DEF Step
<1>4. st \in {A1, A2, L1, L2} => Once(script, st) BY <1>2 DEF ScriptInv, Unique, LinkDos, Step
<1>5. /\ Left(script, A1) => Left(script, A2)
      /\ st = A2 => ~Left(script, A1)
  <2>1. Then(script, A1, A2) BY <1>2 DEF ScriptInv, StatsInTurn
  <2> HIDE DEF A1, A2
  <2>2. Left(script, A1) => Left(script, A2) BY <1>2, <2>1, InTurn
  <2>3. ASSUME st = A2 PROVE ~Left(script, A1)
    <3>1. Once(script, A2) /\ Head(script[t]) = A2 BY <1>4, <2>3
    <3> QED BY <1>1, <1>2, <2>1, <3>1, InTurn
  <2> QED BY <2>2, <2>3
<1>6. /\ Left(script, L1) => Left(script, L2)
      /\ st = L2 => ~Left(script, L1)
  <2> DEFINE M1 == Step("RemoveValuers", s.node)
             M2 == Step("DropNode", s.node)
  <2>0. s.node \in Nodes BY DEF Stats
  <2>1. Then(script, L1, M1) /\ Then(script, M1, M2) /\ Then(script, M2, L2)
    BY <1>2, <2>0 DEF ScriptInv, NodesInTurn
  <2> HIDE DEF L1, L2, M1, M2
  <2>2. Left(script, L1) => Left(script, M1) BY <1>2, <2>1, InTurn
  <2>3. Left(script, M1) => Left(script, M2) BY <1>2, <2>1, InTurn
  <2>4. Left(script, M2) => Left(script, L2) BY <1>2, <2>1, InTurn
  <2>5. ASSUME st = L2 PROVE ~Left(script, M2)
    <3>1. Once(script, L2) /\ Head(script[t]) = L2 BY <1>4, <2>5
    <3> QED BY <1>1, <1>2, <2>1, <3>1, InTurn
  <2> QED BY <2>2, <2>3, <2>4, <2>5
<1>7. st = L1 => ~Left(script, A2)
  <2> SUFFICES ASSUME st = L1 PROVE ~Left(script, A2) OBVIOUS
  <2>1. t = s.node
    BY <1>1 DEF StepIn, Step, LinkDos, StatDos, StartDos, GroupStartDos, EndDos, GroupEndDos
  <2>2. s.node \in Nodes BY DEF Stats
  <2> QED BY <2>1, <2>2, <1>1, <1>2, NodeGate
<1> HIDE DEF st, A1, A2, L1, L2
<1>8. Turns(script, script', st, A1, A2, L1, L2)
  <2> DEFINE sc == script
             sc2 == script'
  <2>1. /\ Scripted(sc) /\ Ran(sc, sc2, t) /\ st = Head(sc[t])
        /\ st \in {A1, A2, L1, L2} => Once(sc, st)
    BY <1>1, <1>2, <1>4 DEF st
  <2>2. /\ Left(sc, A1) => Left(sc, A2)
        /\ st = A2 => ~Left(sc, A1)
        /\ Left(sc, L1) => Left(sc, L2)
        /\ st = L2 => ~Left(sc, L1)
        /\ st = L1 => ~Left(sc, A2)
    BY <1>5, <1>6, <1>7
  <2> HIDE DEF sc, sc2
  <2>3. /\ Left(sc, st)
        /\ Left(sc2, A1) <=> Left(sc, A1) /\ A1 # st
        /\ Left(sc2, A2) <=> Left(sc, A2) /\ A2 # st
        /\ Left(sc2, L1) <=> Left(sc, L1) /\ L1 # st
        /\ Left(sc2, L2) <=> Left(sc, L2) /\ L2 # st
    BY <2>1, LeftMoves
  <2>4. Turns(sc, sc2, st, A1, A2, L1, L2)
    BY <1>3, <2>2, <2>3 DEF Turns
  <2> QED BY <2>4 DEF sc, sc2
<1> QED BY <1>8 DEF st, A1, A2, L1, L2

GroupStory(g) ==
    Story(Left(script, Step("GroupInCatchUp", g)), Left(script, Step("GroupInDelta", g)),
          Left(script, Step("DropGroup", g)), Left(script, Step("GroupDoneInDelta", g)),
          g \in ToSet(cd.startedGroups), g \in ToldInTheEnd.groups, g \in ToSet(d.doneGroups))
NodeStory(n) ==
    Story(Left(script, Step("NodeInCatchUp", n)), Left(script, Step("NodeInDelta", n)),
          Left(script, Step("DropNode", n)), Left(script, Step("NodeDoneInDelta", n)),
          NodeRec(n) \in ToSet(cd.startedNodes), NodeRec(n) \in ToldInTheEnd.nodes, n \in ToSet(d.doneNodes))
LinkStory(c) ==
    Story(Left(script, Step("LinkInCatchUp", c)), Left(script, Step("LinkInDelta", c)),
          Left(script, Step("DropLink", c)), Left(script, Step("CutInDelta", c)),
          c \in ToSet(cd.connected), c \in ToldInTheEnd.links, c \in ToSet(d.disconnected))
StatStory(s) ==
    Story(Left(script, Step("StatInCatchUp", s)), Left(script, Step("StatInDelta", s)),
          Left(script, Step("DropStats", s.node)), Left(script, Step("NodeDoneInDelta", s.node)),
          s \in ToSet(cd.newStats), s \in ToldInTheEnd.stats, s.node \in ToSet(d.doneNodes))
\* The stats of the flow are there from the start.
FlowStatStory(s) == s \in ToSet(cd.newStats) <=> s \in ToldInTheEnd.stats

\* A step of a handler keeps the story of every group.
LEMMA GroupHandled ==
  ASSUME TypeInv, NEW t \in Threads, Handle(t), NEW g \in Groups, GroupStory(g)
  PROVE  GroupStory(g)'
<1> DEFINE st == Head(script[t])
           A1 == Step("GroupInCatchUp", g)
           A2 == Step("GroupInDelta", g)
           L1 == Step("DropGroup", g)
           L2 == Step("GroupDoneInDelta", g)
           c == g \in ToSet(cd.startedGroups)
           e == g \in Told(Told(told, stater.delta), d).groups
           z == g \in ToSet(d.doneGroups)
           cc == g \in ToSet(cd'.startedGroups)
           ee == g \in Told(Told(told, stater.delta), d').groups
           zz == g \in ToSet(d'.doneGroups)
<1>1. /\ stater' = stater /\ told' = told
      /\ st = Step(st.do, Subject(t)) /\ StepIn(t, st)
  BY HandleRuns
<1>2. EffectOnCatchUp(st.do, Subject(t)) /\ EffectOnDelta(st.do, Subject(t))
  BY Effects
<1>3. Turns(script, script', st, A1, A2, L1, L2) BY GroupTurns
<1>4. cc <=> (c \/ st = A1) /\ st # L1 BY <1>1, <1>2 DEF EffectOnCatchUp, Step
<1>5. ee <=> (e \/ (st = A2 /\ ~z)) /\ st # L2
  <2>1. /\ ToSet(d'.startedGroups) = ToSet(d.startedGroups) \cup {y \in {Subject(t)} : st.do = "GroupInDelta"}
        /\ ToSet(d'.doneGroups) = ToSet(d.doneGroups) \cup {y \in {Subject(t)} : st.do = "GroupDoneInDelta"}
    BY <1>2 DEF EffectOnDelta
  <2>2. st = A2 <=> st.do = "GroupInDelta" /\ Subject(t) = g BY <1>1 DEF Step
  <2>3. st = L2 <=> st.do = "GroupDoneInDelta" /\ Subject(t) = g BY <1>1 DEF Step
  <2> QED BY <2>1, <2>2, <2>3 DEF Told
<1>6. zz <=> z \/ st = L2 BY <1>1, <1>2 DEF EffectOnDelta, Step
<1>7. Story(Left(script, A1), Left(script, A2), Left(script, L1), Left(script, L2), c, e, z)
  BY DEF GroupStory, ToldInTheEnd
<1>8. ASSUME Story(Left(script', A1), Left(script', A2), Left(script', L1), Left(script', L2), cc, ee, zz)
       PROVE  GroupStory(g)'
  BY <1>1, <1>8 DEF GroupStory, ToldInTheEnd
<1>9. c \in BOOLEAN /\ e \in BOOLEAN /\ z \in BOOLEAN /\ cc \in BOOLEAN /\ ee \in BOOLEAN /\ zz \in BOOLEAN
  OBVIOUS
<1> HIDE DEF st, A1, A2, L1, L2, c, e, z, cc, ee, zz
<1>10. Story(Left(script', A1), Left(script', A2), Left(script', L1), Left(script', L2), cc, ee, zz)
  <2> DEFINE sc == script
             sc2 == script'
  <2>1. /\ Turns(sc, sc2, st, A1, A2, L1, L2)
        /\ Story(Left(sc, A1), Left(sc, A2), Left(sc, L1), Left(sc, L2), c, e, z)
    BY <1>3, <1>7
  <2> HIDE DEF sc, sc2
  <2>2. Story(Left(sc2, A1), Left(sc2, A2), Left(sc2, L1), Left(sc2, L2), cc, ee, zz)
    BY <1>4, <1>5, <1>6, <1>9, <2>1, StoryGoesOn
  <2> QED BY <2>2 DEF sc, sc2
<1> QED BY <1>8, <1>10

\* A step of a handler keeps the story of every node.
LEMMA NodeHandled ==
  ASSUME TypeInv, NEW t \in Threads, Handle(t), NEW n \in Nodes, NodeStory(n)
  PROVE  NodeStory(n)'
<1> DEFINE st == Head(script[t])
           A1 == Step("NodeInCatchUp", n)
           A2 == Step("NodeInDelta", n)
           L1 == Step("DropNode", n)
           L2 == Step("NodeDoneInDelta", n)
           c == NodeRec(n) \in ToSet(cd.startedNodes)
           e == NodeRec(n) \in Told(Told(told, stater.delta), d).nodes
           z == n \in ToSet(d.doneNodes)
           cc == NodeRec(n) \in ToSet(cd'.startedNodes)
           ee == NodeRec(n) \in Told(Told(told, stater.delta), d').nodes
           zz == n \in ToSet(d'.doneNodes)
<1>1. /\ stater' = stater /\ told' = told
      /\ st = Step(st.do, Subject(t)) /\ StepIn(t, st)
  BY HandleRuns
<1>2. EffectOnCatchUp(st.do, Subject(t)) /\ EffectOnDelta(st.do, Subject(t))
  BY Effects
<1>3. Turns(script, script', st, A1, A2, L1, L2) BY NodeTurns
<1>4. /\ NodeRec(n) \in NodeRecs /\ NodeRec(n).id = n
      /\ \A m : NodeRec(m) = NodeRec(n) => m = n
  <2>1. \A m : NodeRec(m).id = m BY DEF NodeRec
  <2> QED BY <2>1 DEF NodeRecs
<1>5. cc <=> (c \/ st = A1) /\ st # L1
  <2>1. st = A1 <=> st.do = "NodeInCatchUp" /\ Subject(t) = n BY <1>1 DEF Step
  <2>2. st = L1 <=> st.do = "DropNode" /\ Subject(t) = n BY <1>1 DEF Step
  <2>3. ToSet(cd'.startedNodes) =
            (ToSet(cd.startedNodes) \cup {NodeRec(m) : m \in {y \in {Subject(t)} : st.do = "NodeInCatchUp"}})
                \ {r \in NodeRecs : st.do = "DropNode" /\ r.id = Subject(t)}
    BY <1>2 DEF EffectOnCatchUp
  <2> QED BY <1>4, <2>1, <2>2, <2>3
<1>6. ee <=> (e \/ (st = A2 /\ ~z)) /\ st # L2
  <2>1. st = A2 <=> st.do = "NodeInDelta" /\ Subject(t) = n BY <1>1 DEF Step
  <2>2. st = L2 <=> st.do = "NodeDoneInDelta" /\ Subject(t) = n BY <1>1 DEF Step
  <2>3. /\ ToSet(d'.startedNodes) =
               ToSet(d.startedNodes) \cup {NodeRec(m) : m \in {y \in {Subject(t)} : st.do = "NodeInDelta"}}
        /\ ToSet(d'.doneNodes) = ToSet(d.doneNodes) \cup {y \in {Subject(t)} : st.do = "NodeDoneInDelta"}
    BY <1>2 DEF EffectOnDelta
  <2>4. NodeRec(n) \in ToSet(d'.startedNodes) <=> NodeRec(n) \in ToSet(d.startedNodes) \/ st = A2
    BY <1>4, <2>1, <2>3
  <2>5. n \in ToSet(d'.doneNodes) <=> n \in ToSet(d.doneNodes) \/ st = L2 BY <2>2, <2>3
  <2>6. \A dl : NodeRec(n) \in Told(Told(told, stater.delta), dl).nodes <=>
           /\ NodeRec(n) \in Told(told, stater.delta).nodes \/ NodeRec(n) \in ToSet(dl.startedNodes)
           /\ n \notin ToSet(dl.doneNodes)
    BY <1>4, Zenon DEF Told
  <2> HIDE DEF A1, A2, L1, L2, st
  <2> QED BY <2>4, <2>5, <2>6
<1>7. zz <=> z \/ st = L2 BY <1>1, <1>2 DEF EffectOnDelta, Step
<1>8. Story(Left(script, A1), Left(script, A2), Left(script, L1), Left(script, L2), c, e, z)
  BY DEF NodeStory, ToldInTheEnd
<1>9. ASSUME Story(Left(script', A1), Left(script', A2), Left(script', L1), Left(script', L2), cc, ee, zz)
       PROVE  NodeStory(n)'
  BY <1>1, <1>9 DEF NodeStory, ToldInTheEnd
<1>10. c \in BOOLEAN /\ e \in BOOLEAN /\ z \in BOOLEAN /\ cc \in BOOLEAN /\ ee \in BOOLEAN /\ zz \in BOOLEAN
  OBVIOUS
<1> HIDE DEF st, A1, A2, L1, L2, c, e, z, cc, ee, zz
<1>11. Story(Left(script', A1), Left(script', A2), Left(script', L1), Left(script', L2), cc, ee, zz)
  <2> DEFINE sc == script
             sc2 == script'
  <2>1. /\ Turns(sc, sc2, st, A1, A2, L1, L2)
        /\ Story(Left(sc, A1), Left(sc, A2), Left(sc, L1), Left(sc, L2), c, e, z)
    BY <1>3, <1>8
  <2> HIDE DEF sc, sc2
  <2>2. Story(Left(sc2, A1), Left(sc2, A2), Left(sc2, L1), Left(sc2, L2), cc, ee, zz)
    BY <1>5, <1>6, <1>7, <1>10, <2>1, StoryGoesOn
  <2> QED BY <2>2 DEF sc, sc2
<1> QED BY <1>9, <1>11

\* A step of a handler keeps the story of every link that is made once.
LEMMA LinkHandled ==
  ASSUME TypeInv, LinkInv(script), NEW t \in Threads, Handle(t), NEW l \in Links, LinkStory(l)
  PROVE  LinkStory(l)'
<1> DEFINE st == Head(script[t])
           A1 == Step("LinkInCatchUp", l)
           A2 == Step("LinkInDelta", l)
           L1 == Step("DropLink", l)
           L2 == Step("CutInDelta", l)
           c == l \in ToSet(cd.connected)
           e == l \in Told(Told(told, stater.delta), d).links
           z == l \in ToSet(d.disconnected)
           cc == l \in ToSet(cd'.connected)
           ee == l \in Told(Told(told, stater.delta), d').links
           zz == l \in ToSet(d'.disconnected)
<1>1. /\ stater' = stater /\ told' = told
      /\ st = Step(st.do, Subject(t)) /\ StepIn(t, st)
  BY HandleRuns
<1>2. EffectOnCatchUp(st.do, Subject(t)) /\ EffectOnDelta(st.do, Subject(t))
  BY Effects
<1>3. Turns(script, script', st, A1, A2, L1, L2) BY LinkTurns
<1>4. cc <=> (c \/ st = A1) /\ st # L1 BY <1>1, <1>2 DEF EffectOnCatchUp, Step
<1>5. ee <=> (e \/ (st = A2 /\ ~z)) /\ st # L2
  <2>1. /\ ToSet(d'.connected) = ToSet(d.connected) \cup {y \in {Subject(t)} : st.do = "LinkInDelta"}
        /\ ToSet(d'.disconnected) = ToSet(d.disconnected) \cup {y \in {Subject(t)} : st.do = "CutInDelta"}
    BY <1>2 DEF EffectOnDelta
  <2>2. st = A2 <=> st.do = "LinkInDelta" /\ Subject(t) = l BY <1>1 DEF Step
  <2>3. st = L2 <=> st.do = "CutInDelta" /\ Subject(t) = l BY <1>1 DEF Step
  <2> QED BY <2>1, <2>2, <2>3 DEF Told
<1>6. zz <=> z \/ st = L2 BY <1>1, <1>2 DEF EffectOnDelta, Step
<1>7. Story(Left(script, A1), Left(script, A2), Left(script, L1), Left(script, L2), c, e, z)
  BY DEF LinkStory, ToldInTheEnd
<1>8. ASSUME Story(Left(script', A1), Left(script', A2), Left(script', L1), Left(script', L2), cc, ee, zz)
       PROVE  LinkStory(l)'
  BY <1>1, <1>8 DEF LinkStory, ToldInTheEnd
<1>9. c \in BOOLEAN /\ e \in BOOLEAN /\ z \in BOOLEAN /\ cc \in BOOLEAN /\ ee \in BOOLEAN /\ zz \in BOOLEAN
  OBVIOUS
<1> HIDE DEF st, A1, A2, L1, L2, c, e, z, cc, ee, zz
<1>10. Story(Left(script', A1), Left(script', A2), Left(script', L1), Left(script', L2), cc, ee, zz)
  <2> DEFINE sc == script
             sc2 == script'
  <2>1. /\ Turns(sc, sc2, st, A1, A2, L1, L2)
        /\ Story(Left(sc, A1), Left(sc, A2), Left(sc, L1), Left(sc, L2), c, e, z)
    BY <1>3, <1>7
  <2> HIDE DEF sc, sc2
  <2>2. Story(Left(sc2, A1), Left(sc2, A2), Left(sc2, L1), Left(sc2, L2), cc, ee, zz)
    BY <1>4, <1>5, <1>6, <1>9, <2>1, StoryGoesOn
  <2> QED BY <2>2 DEF sc, sc2
<1> QED BY <1>8, <1>10

\* A step of a handler keeps the story of every stat of a node.
LEMMA StatHandled ==
  ASSUME TypeInv, NEW t \in Threads, Handle(t), NEW s \in Stats, StatStory(s)
  PROVE  StatStory(s)'
<1> DEFINE st == Head(script[t])
           A1 == Step("StatInCatchUp", s)
           A2 == Step("StatInDelta", s)
           L1 == Step("DropStats", s.node)
           L2 == Step("NodeDoneInDelta", s.node)
           c == s \in ToSet(cd.newStats)
           e == s \in Told(Told(told, stater.delta), d).stats
           z == s.node \in ToSet(d.doneNodes)
           cc == s \in ToSet(cd'.newStats)
           ee == s \in Told(Told(told, stater.delta), d').stats
           zz == s.node \in ToSet(d'.doneNodes)
<1>1. /\ stater' = stater /\ told' = told
      /\ st = Step(st.do, Subject(t)) /\ StepIn(t, st)
  BY HandleRuns
<1>2. EffectOnCatchUp(st.do, Subject(t)) /\ EffectOnDelta(st.do, Subject(t))
  BY Effects
<1>3. Turns(script, script', st, A1, A2, L1, L2) BY StatTurns
<1>4. /\ s \in AllStats /\ s.node \in Nodes
      /\ \A m \in Nodes : s.id \in ToSet(StatsOf[m]) <=> m = s.node
  BY IdsAssumption DEF AllStats, Stats
<1>5. cc <=> (c \/ st = A1) /\ st # L1
  <2>1. st = A1 <=> st.do = "StatInCatchUp" /\ Subject(t) = s BY <1>1 DEF Step
  <2>2. st = L1 <=> st.do = "DropStats" /\ Subject(t) = s.node BY <1>1 DEF Step
  <2>3. ToSet(cd'.newStats) = (ToSet(cd.newStats) \cup {y \in {Subject(t)} : st.do = "StatInCatchUp"})
                                  \ {y \in AllStats : st.do = "DropStats" /\ y.id \in ToSet(StatsOf[Subject(t)])}
    BY <1>2 DEF EffectOnCatchUp
  <2>4. st.do = "DropStats" => Subject(t) \in Nodes
    BY <1>1 DEF StepIn, Step, LinkDos, StatDos, StartDos, GroupStartDos, EndDos, GroupEndDos
  <2> HIDE DEF A1, A2, L1, L2, st
  <2> QED BY <1>4, <2>1, <2>2, <2>3, <2>4
<1>6. ee <=> (e \/ (st = A2 /\ ~z)) /\ st # L2
  <2>1. st = A2 <=> st.do = "StatInDelta" /\ Subject(t) = s BY <1>1 DEF Step
  <2>2. st = L2 <=> st.do = "NodeDoneInDelta" /\ Subject(t) = s.node BY <1>1 DEF Step
  <2>3. /\ ToSet(d'.newStats) = ToSet(d.newStats) \cup {y \in {Subject(t)} : st.do = "StatInDelta"}
        /\ ToSet(d'.doneNodes) = ToSet(d.doneNodes) \cup {y \in {Subject(t)} : st.do = "NodeDoneInDelta"}
    BY <1>2 DEF EffectOnDelta
  <2>4. \A dl : s \in Told(Told(told, stater.delta), dl).stats <=>
           /\ s \in Told(told, stater.delta).stats \/ s \in ToSet(dl.newStats)
           /\ s.node \notin ToSet(dl.doneNodes)
    BY Zenon DEF Told
  <2> HIDE DEF A1, A2, L1, L2, st
  <2> QED BY <2>1, <2>2, <2>3, <2>4
<1>7. zz <=> z \/ st = L2 BY <1>1, <1>2 DEF EffectOnDelta, Step
<1>8. Story(Left(script, A1), Left(script, A2), Left(script, L1), Left(script, L2), c, e, z)
  BY DEF StatStory, ToldInTheEnd
<1>9. ASSUME Story(Left(script', A1), Left(script', A2), Left(script', L1), Left(script', L2), cc, ee, zz)
       PROVE  StatStory(s)'
  BY <1>1, <1>9 DEF StatStory, ToldInTheEnd
<1>10. c \in BOOLEAN /\ e \in BOOLEAN /\ z \in BOOLEAN /\ cc \in BOOLEAN /\ ee \in BOOLEAN /\ zz \in BOOLEAN
  OBVIOUS
<1> HIDE DEF st, A1, A2, L1, L2, c, e, z, cc, ee, zz
<1>11. Story(Left(script', A1), Left(script', A2), Left(script', L1), Left(script', L2), cc, ee, zz)
  <2> DEFINE sc == script
             sc2 == script'
  <2>1. /\ Turns(sc, sc2, st, A1, A2, L1, L2)
        /\ Story(Left(sc, A1), Left(sc, A2), Left(sc, L1), Left(sc, L2), c, e, z)
    BY <1>3, <1>8
  <2> HIDE DEF sc, sc2
  <2>2. Story(Left(sc2, A1), Left(sc2, A2), Left(sc2, L1), Left(sc2, L2), cc, ee, zz)
    BY <1>5, <1>6, <1>7, <1>10, <2>1, StoryGoesOn
  <2> QED BY <2>2 DEF sc, sc2
<1> QED BY <1>9, <1>11

\* A step of a handler keeps the flow's own stats where they are.
LEMMA FlowStatHandled ==
  ASSUME TypeInv, NEW t \in Threads, Handle(t), NEW s \in FlowStats, FlowStatStory(s)
  PROVE  FlowStatStory(s)'
<1> DEFINE st == Head(script[t])
<1>1. stater' = stater /\ told' = told /\ st = Step(st.do, Subject(t)) /\ StepIn(t, st)
  BY HandleRuns
<1>2. EffectOnCatchUp(st.do, Subject(t)) /\ EffectOnDelta(st.do, Subject(t)) BY Effects
<1>3. /\ s.node = NoNode /\ NoNode \notin Nodes /\ s \notin Stats
      /\ \A m \in Nodes : s.id \notin ToSet(StatsOf[m])
  <2>1. PICK p \in Programs : s.id \in ToSet(p.flowStats) /\ s = [id |-> s.id, node |-> NoNode] BY DEF FlowStats
  <2>2. \A y \in Stats : y.id \notin ToSet(p.flowStats) BY ProgramsAssumption DEF IsProgram
  <2>3. NoNode \notin Nodes BY IdsAssumption DEF UserThread, NoNode
  <2>4. ASSUME NEW m \in Nodes, s.id \in ToSet(StatsOf[m]) PROVE FALSE
    <3>1. [id |-> s.id, node |-> m] \in Stats BY <2>4 DEF Stats
    <3> QED BY <3>1, <2>1, <2>2
  <2>5. \A y \in Stats : y.node \in Nodes BY DEF Stats
  <2> QED BY <2>1, <2>3, <2>4, <2>5
<1>4. /\ st.do \in {"StatInCatchUp", "StatInDelta"} => Subject(t) # s
      /\ st.do \in {"DropStats", "NodeDoneInDelta"} => Subject(t) \in Nodes
  BY <1>1, <1>3 DEF StepIn, Step, LinkDos, StatDos, StartDos, GroupStartDos, EndDos, GroupEndDos
<1>5. s \in ToSet(cd'.newStats) <=> s \in ToSet(cd.newStats)
  <2>1. ToSet(cd'.newStats) = (ToSet(cd.newStats) \cup {y \in {Subject(t)} : st.do = "StatInCatchUp"})
                                  \ {y \in AllStats : st.do = "DropStats" /\ y.id \in ToSet(StatsOf[Subject(t)])}
    BY <1>2 DEF EffectOnCatchUp
  <2> HIDE DEF st
  <2> QED BY <1>3, <1>4, <2>1
<1>6. s \in Told(Told(told, stater.delta), d').stats <=> s \in Told(Told(told, stater.delta), d).stats
  <2>1. /\ ToSet(d'.newStats) = ToSet(d.newStats) \cup {y \in {Subject(t)} : st.do = "StatInDelta"}
        /\ ToSet(d'.doneNodes) = ToSet(d.doneNodes) \cup {y \in {Subject(t)} : st.do = "NodeDoneInDelta"}
    BY <1>2 DEF EffectOnDelta
  <2>2. \A dl : s \in Told(Told(told, stater.delta), dl).stats <=>
           /\ s \in Told(told, stater.delta).stats \/ s \in ToSet(dl.newStats)
           /\ s.node \notin ToSet(dl.doneNodes)
    BY Zenon DEF Told
  <2> HIDE DEF st
  <2>3. s.node \in ToSet(d'.doneNodes) <=> s.node \in ToSet(d.doneNodes) BY <1>3, <1>4, <2>1
  <2> QED BY <1>4, <2>1, <2>2, <2>3
<1> QED BY <1>1, <1>5, <1>6 DEF FlowStatStory, ToldInTheEnd

---------------------------------------------------------------------------
(* The stater.                                                             *)

ToldType == [groups : SUBSET Groups, nodes : SUBSET NodeRecs, stats : SUBSET AllStats,
             links : SUBSET Links, untold : SUBSET NodeRecs]

\* A delta with other values is a delta, and says the same of things.
LEMMA WithValues ==
  ASSUME NEW dl, IsDelta(dl), NEW q, NEW e, e = [dl EXCEPT !.values = q]
  PROVE  /\ IsDelta(e)
         /\ e.connected = dl.connected /\ e.disconnected = dl.disconnected /\ e.startedGroups = dl.startedGroups
         /\ e.startedNodes = dl.startedNodes /\ e.doneGroups = dl.doneGroups /\ e.doneNodes = dl.doneNodes
         /\ e.newStats = dl.newStats
<1> DEFINE A == Seq(Links) B == Seq(Links) C == Seq(Groups) D == Seq(NodeRecs)
           E == Seq(Groups) F == Seq(Nodes) G == Seq(AllStats) V == {dl.values, q}
           R(W) == [connected : A, disconnected : B, startedGroups : C, startedNodes : D,
                    doneGroups : E, doneNodes : F, newStats : G, values : W]
<1>1. dl \in R({dl.values}) BY DEF IsDelta
<1> HIDE DEF A, B, C, D, E, F, G
<1>2. e \in R({q}) BY <1>1
<1>3. /\ e.connected = dl.connected /\ e.disconnected = dl.disconnected /\ e.startedGroups = dl.startedGroups
      /\ e.startedNodes = dl.startedNodes /\ e.doneGroups = dl.doneGroups /\ e.doneNodes = dl.doneNodes
      /\ e.newStats = dl.newStats /\ e.values = q
  BY <1>1
<1> QED BY <1>2, <1>3 DEF IsDelta, A, B, C, D, E, F, G

\* The empty delta is one, and says nothing.
LEMMA NoDeltaIsDelta ==
  /\ IsDelta(NoDelta)
  /\ ToSet(NoDelta.connected) = {} /\ ToSet(NoDelta.disconnected) = {} /\ ToSet(NoDelta.startedGroups) = {}
  /\ ToSet(NoDelta.startedNodes) = {} /\ ToSet(NoDelta.doneGroups) = {} /\ ToSet(NoDelta.doneNodes) = {}
  /\ ToSet(NoDelta.newStats) = {}
<1>1. ToSet(<<>>) = {} BY DEF ToSet
<1>2. IsDelta(NoDelta) BY DEF IsDelta, NoDelta
<1> QED BY <1>1, <1>2 DEF NoDelta

\* A delta in which nothing happened tells nothing.
LEMMA ToldNothing ==
  ASSUME NEW x
  PROVE  /\ Told(x, NoDelta).groups = x.groups /\ Told(x, NoDelta).links = x.links
         /\ Told(x, NoDelta).nodes = x.nodes /\ Told(x, NoDelta).stats = x.stats
BY NoDeltaIsDelta, Zenon DEF Told

\* Adding a delta up to what is known gives groups, nodes, links and stats.
LEMMA ToldTyped ==
  ASSUME NEW x \in ToldType, NEW dl, IsDelta(dl)
  PROVE  Told(x, dl) \in ToldType
<1>1. /\ ToSet(dl.startedGroups) \subseteq Groups /\ ToSet(dl.startedNodes) \subseteq NodeRecs
      /\ ToSet(dl.newStats) \subseteq AllStats /\ ToSet(dl.connected) \subseteq Links
  BY DEF IsDelta, ToSet
<1> QED BY <1>1 DEF Told, ToldType

\* What adding a delta up does does not depend on its values.
LEMMA ToldAlike ==
  ASSUME NEW x, NEW dl, IsDelta(dl), NEW q
  PROVE  Told(x, [dl EXCEPT !.values = q]) = Told(x, dl)
BY WithValues DEF Told

\* The stater hands on what is pending: what will have been told in the end does
\* not change, but for nodes alone in a delta, which are then set down as untold.
LEMMA StaterKeeps ==
  ASSUME TypeInv, Sample \/ SwapDelta \/ Deliver
  PROVE  /\ TypeInv'
         /\ script' = script /\ valuers' = valuers
         /\ cd'.startedGroups = cd.startedGroups /\ cd'.startedNodes = cd.startedNodes
         /\ cd'.connected = cd.connected /\ cd'.newStats = cd.newStats
         /\ ToldInTheEnd'.groups = ToldInTheEnd.groups /\ ToldInTheEnd'.links = ToldInTheEnd.links
         /\ ToldInTheEnd'.stats = ToldInTheEnd.stats
         /\ told.untold \subseteq told'.untold
         /\ \A n \in Nodes : NodeRec(n) \notin told'.untold =>
                (NodeRec(n) \in ToldInTheEnd'.nodes <=> NodeRec(n) \in ToldInTheEnd.nodes)
         /\ ToSet(d'.doneGroups) \subseteq ToSet(d.doneGroups) /\ ToSet(d'.doneNodes) \subseteq ToSet(d.doneNodes)
         /\ ToSet(d'.disconnected) \subseteq ToSet(d.disconnected)
<1>0. /\ ScriptInv(script) /\ IsDelta(cd) /\ IsDelta(d) /\ IsDelta(stater.delta)
      /\ stater \in [pc : {"idle", "sampled", "swapped"}, sampled : {stater.sampled}, delta : {stater.delta}]
      /\ stater.pc # "swapped" => stater.delta = NoDelta
      /\ told \in ToldType
  BY DEF TypeInv, ToldType
<1>1. CASE Sample
  <2>1. /\ script' = script /\ cd' = cd /\ d' = d /\ valuers' = valuers /\ told' = told
        /\ stater.pc = "idle" /\ stater' = [stater EXCEPT !.pc = "sampled", !.sampled = valuers]
    BY <1>1 DEF Sample
  <2>2. stater'.delta = stater.delta /\ stater'.pc = "sampled" /\ stater'.sampled = valuers
        /\ stater' \in [pc : {"idle", "sampled", "swapped"}, sampled : {stater'.sampled}, delta : {stater'.delta}]
    BY <2>1, <1>0
  <2>3. TypeInv' BY <2>1, <2>2, <1>0 DEF TypeInv, ToldType
  <2>4. ToldInTheEnd' = ToldInTheEnd BY <2>1, <2>2 DEF ToldInTheEnd
  <2> QED BY <2>1, <2>3, <2>4
<1>2. CASE SwapDelta
  <2>1. /\ script' = script /\ cd' = cd /\ d' = NoDelta /\ valuers' = valuers /\ told' = told
        /\ stater.pc = "sampled" /\ stater' = [stater EXCEPT !.pc = "swapped", !.delta = d]
    BY <1>2 DEF SwapDelta
  <2>2. stater'.delta = d /\ stater'.pc = "swapped" /\ stater'.sampled = stater.sampled
        /\ stater' \in [pc : {"idle", "sampled", "swapped"}, sampled : {stater'.sampled}, delta : {stater'.delta}]
    BY <2>1, <1>0
  <2>3. TypeInv' BY <2>1, <2>2, <1>0, NoDeltaIsDelta DEF TypeInv, ToldType
  <2>4. ToldInTheEnd = Told(Told(told, NoDelta), d) BY <2>1, <1>0 DEF ToldInTheEnd
  <2>5. ToldInTheEnd' = Told(Told(told, d), NoDelta) BY <2>1, <2>2 DEF ToldInTheEnd
  <2>6. /\ Told(Told(told, d), NoDelta).groups = Told(told, d).groups
        /\ Told(Told(told, d), NoDelta).nodes = Told(told, d).nodes
        /\ Told(Told(told, d), NoDelta).stats = Told(told, d).stats
        /\ Told(Told(told, d), NoDelta).links = Told(told, d).links
    BY ToldNothing
  <2>7. \A x, y, dl : x.groups = y.groups /\ x.nodes = y.nodes /\ x.stats = y.stats /\ x.links = y.links =>
            /\ Told(x, dl).groups = Told(y, dl).groups /\ Told(x, dl).nodes = Told(y, dl).nodes
            /\ Told(x, dl).stats = Told(y, dl).stats /\ Told(x, dl).links = Told(y, dl).links
    BY DEF Told
  <2>8. /\ Told(Told(told, NoDelta), d).groups = Told(told, d).groups
        /\ Told(Told(told, NoDelta), d).nodes = Told(told, d).nodes
        /\ Told(Told(told, NoDelta), d).stats = Told(told, d).stats
        /\ Told(Told(told, NoDelta), d).links = Told(told, d).links
    BY <2>7, ToldNothing
  <2> QED BY <2>1, <2>3, <2>4, <2>5, <2>6, <2>8, NoDeltaIsDelta
<1>3. CASE Deliver
  <2>1. /\ script' = script /\ cd' = [cd EXCEPT !.values = Sampled] /\ d' = d /\ valuers' = valuers
        /\ told' = IF HandsOver THEN Told(told, Handed)
                   ELSE [told EXCEPT !.untold = @ \cup ToSet(Handed.startedNodes)]
        /\ stater.pc = "swapped" /\ stater' = Idle
    BY <1>3 DEF Deliver
  <2>2. stater'.delta = NoDelta /\ stater'.pc = "idle"
        /\ stater' \in [pc : {"idle", "sampled", "swapped"}, sampled : {stater'.sampled}, delta : {stater'.delta}]
    BY <2>1 DEF Idle
  <2>3. /\ IsDelta(cd') /\ cd'.startedGroups = cd.startedGroups /\ cd'.startedNodes = cd.startedNodes
        /\ cd'.connected = cd.connected /\ cd'.newStats = cd.newStats
    BY <2>1, <1>0, WithValues
  <2>4. IsDelta(Handed) /\ Told(told, Handed) = Told(told, stater.delta)
        /\ Handed.startedNodes = stater.delta.startedNodes
    BY <1>0, WithValues, ToldAlike DEF Handed
  <2>5. ToSet(Handed.startedNodes) \subseteq NodeRecs BY <2>4 DEF IsDelta, ToSet
  <2>6. told' \in ToldType
    <3>1. CASE HandsOver BY <3>1, <2>1, <2>4, <1>0, ToldTyped
    <3>2. CASE ~HandsOver BY <3>2, <2>1, <2>5, <1>0 DEF ToldType
    <3> QED BY <3>1, <3>2
  <2>7. TypeInv' BY <2>1, <2>2, <2>3, <2>6, <1>0, NoDeltaIsDelta DEF TypeInv, ToldType
  <2>8. ToldInTheEnd' = Told(Told(told', NoDelta), d) BY <2>1, <2>2 DEF ToldInTheEnd
  <2>9. \A x, y, dl : x.groups = y.groups /\ x.stats = y.stats /\ x.links = y.links =>
            /\ Told(x, dl).groups = Told(y, dl).groups
            /\ Told(x, dl).stats = Told(y, dl).stats /\ Told(x, dl).links = Told(y, dl).links
    BY DEF Told
  <2>10. \A x, y, dl, r : (r \in x.nodes <=> r \in y.nodes) =>
            (r \in Told(x, dl).nodes <=> r \in Told(y, dl).nodes)
    <3>1. \A x, dl, r : r \in Told(x, dl).nodes <=>
             /\ r \in x.nodes \/ r \in ToSet(dl.startedNodes)
             /\ r.id \notin ToSet(dl.doneNodes)
      BY Zenon DEF Told
    <3> QED BY <3>1
  <2>11. CASE HandsOver
    <3>1. told' = Told(told, stater.delta) BY <2>1, <2>4, <2>11
    <3>2. told'.untold = told.untold BY <3>1 DEF Told
    <3>3. /\ Told(told', NoDelta).groups = told'.groups /\ Told(told', NoDelta).nodes = told'.nodes
          /\ Told(told', NoDelta).stats = told'.stats /\ Told(told', NoDelta).links = told'.links
      BY ToldNothing
    <3>4. ToldInTheEnd = Told(told', d) BY <3>1 DEF ToldInTheEnd
    <3>5. /\ ToldInTheEnd'.groups = ToldInTheEnd.groups /\ ToldInTheEnd'.links = ToldInTheEnd.links
          /\ ToldInTheEnd'.stats = ToldInTheEnd.stats
      BY <2>8, <2>9, <3>3, <3>4
    <3>6. ASSUME NEW n \in Nodes
          PROVE  NodeRec(n) \in ToldInTheEnd'.nodes <=> NodeRec(n) \in ToldInTheEnd.nodes
      <4>1. NodeRec(n) \in Told(told', NoDelta).nodes <=> NodeRec(n) \in told'.nodes BY <3>3
      <4> QED BY <4>1, <3>4, <2>8, <2>10
    <3> QED BY <2>1, <2>3, <2>7, <3>2, <3>5, <3>6
  <2>12. CASE ~HandsOver
    <3>1. IsEmpty(Handed) BY <2>1, <2>12 DEF HandsOver
    <3>2. /\ Handed.connected = <<>> /\ Handed.disconnected = <<>> /\ Handed.doneGroups = <<>>
          /\ Handed.doneNodes = <<>> /\ Handed.newStats = <<>> /\ Handed.startedGroups = <<>>
      BY <3>1 DEF IsEmpty
    <3>3. ToSet(<<>>) = {} BY DEF ToSet
    <3>4. /\ told' = [told EXCEPT !.untold = @ \cup ToSet(Handed.startedNodes)]
      BY <2>1, <2>12
    <3>5. /\ told'.groups = told.groups /\ told'.nodes = told.nodes /\ told'.stats = told.stats
          /\ told'.links = told.links /\ told'.untold = told.untold \cup ToSet(Handed.startedNodes)
      BY <3>4, <1>0 DEF ToldType
    <3>6. /\ Told(told, Handed).groups = told.groups /\ Told(told, Handed).links = told.links
          /\ Told(told, Handed).stats = told.stats
          /\ Told(told, Handed).nodes = told.nodes \cup ToSet(Handed.startedNodes)
      BY <3>2, <3>3, Zenon DEF Told
    <3>7. /\ Told(told', NoDelta).groups = told'.groups /\ Told(told', NoDelta).nodes = told'.nodes
          /\ Told(told', NoDelta).stats = told'.stats /\ Told(told', NoDelta).links = told'.links
      BY ToldNothing
    <3>8. ToldInTheEnd = Told(Told(told, Handed), d) BY <2>4 DEF ToldInTheEnd
    <3>9. ASSUME NEW n \in Nodes, NodeRec(n) \notin told'.untold
          PROVE  NodeRec(n) \in ToldInTheEnd'.nodes <=> NodeRec(n) \in ToldInTheEnd.nodes
      <4>1. NodeRec(n) \in Told(told', NoDelta).nodes <=> NodeRec(n) \in Told(told, Handed).nodes
        BY <3>5, <3>6, <3>7, <3>9
      <4> QED BY <4>1, <3>8, <2>8, <2>10
    <3>10. /\ ToldInTheEnd'.groups = ToldInTheEnd.groups /\ ToldInTheEnd'.links = ToldInTheEnd.links
           /\ ToldInTheEnd'.stats = ToldInTheEnd.stats
      BY <3>5, <3>6, <3>7, <3>8, <2>8, <2>9
    <3> QED BY <2>1, <2>3, <2>7, <3>5, <3>9, <3>10
  <2> QED BY <2>11, <2>12
<1> QED BY <1>1, <1>2, <1>3

---------------------------------------------------------------------------
(* The invariant.                                                          *)

Stories ==
    /\ \A g \in Groups : GroupStory(g)
    /\ \A n \in Nodes : NodeRec(n) \notin told.untold => NodeStory(n)
    /\ \A s \in Stats : StatStory(s)
    /\ \A s \in FlowStats : FlowStatStory(s)

\* A stat about to enter the catch-up delta is sampled already.
SampledFirst == \A s \in Stats :
    Left(script, Step("StatInCatchUp", s)) /\ ~Left(script, Step("AddValuer", s)) => s.id \in valuers

MonitorerInv == TypeInv /\ Stories /\ SampledFirst /\ StatsShownAreSampled
LinksInv == LinkInv(script) /\ \A c \in Links : LinkStory(c)

\* The invariant holds when monitorFlow has run.
LEMMA InitHolds ==
  ASSUME NEW p \in Programs, MonitorFlow(p)
  PROVE  MonitorerInv /\ (LinkedInTurn(p) => LinksInv)
<1> DEFINE fs == [i \in DOMAIN p.flowStats |-> [id |-> p.flowStats[i], node |-> NoNode]]
           none == [groups |-> {}, nodes |-> {}, stats |-> {}, links |-> {}, untold |-> {}]
<1>1. /\ script = ScriptOf(p) /\ cd = [NoDelta EXCEPT !.newStats = fs] /\ d = cd
      /\ valuers = ToSet(p.flowStats) /\ stater = Idle /\ told = none
  BY DEF MonitorFlow
<1>2. IsProgram(p) BY ProgramsAssumption
<1>3. ScriptInv(script) /\ AllWhole(script) BY <1>1, <1>2, ProgramScript
<1>4. p.flowStats \in Seq(ToSet(p.flowStats)) BY <1>2 DEF IsProgram
<1>5. fs \in Seq(AllStats) /\ ToSet(fs) \subseteq FlowStats /\ \A s \in ToSet(fs) : s.id \in ToSet(p.flowStats)
  <2> DEFINE q == p.flowStats
  <2>1. Len(q) \in Nat /\ DOMAIN q = 1 .. Len(q) BY <1>4
  <2>2. \A i \in DOMAIN q : q[i] \in ToSet(q) BY DEF ToSet
  <2>3. \A i \in DOMAIN q : fs[i] = [id |-> q[i], node |-> NoNode] /\ fs[i] \in FlowStats
    BY <2>2 DEF FlowStats
  <2>4. DOMAIN fs = DOMAIN q OBVIOUS
  <2>5. \A i \in DOMAIN q : fs[i] \in AllStats BY <2>3 DEF AllStats
  <2>6. fs \in [1 .. Len(q) -> AllStats] BY <2>1, <2>5
  <2>7. fs \in Seq(AllStats) BY <2>1, <2>6
  <2>8. \A s \in ToSet(fs) : \E i \in DOMAIN q : s = fs[i] BY <2>4 DEF ToSet
  <2>9. \A s \in ToSet(fs) : s \in FlowStats /\ s.id \in ToSet(q)
    <3> TAKE s \in ToSet(fs)
    <3>1. PICK i \in DOMAIN q : s = fs[i] BY <2>8
    <3>2. s = [id |-> q[i], node |-> NoNode] /\ s \in FlowStats BY <3>1, <2>3
    <3>3. s.id = q[i] BY <3>2
    <3> QED BY <3>2, <3>3, <2>2
  <2> QED BY <2>7, <2>9
<1> HIDE DEF fs
<1>6. /\ IsDelta(cd) /\ cd.newStats = fs
      /\ ToSet(cd.startedGroups) = {} /\ ToSet(cd.startedNodes) = {} /\ ToSet(cd.connected) = {}
      /\ ToSet(cd.doneGroups) = {} /\ ToSet(cd.doneNodes) = {} /\ ToSet(cd.disconnected) = {}
  BY <1>1, <1>5, NoDeltaIsDelta, WithNewStats
<1>7. TypeInv
  <2>1. stater \in [pc : {"idle", "sampled", "swapped"}, sampled : {stater.sampled}, delta : {stater.delta}]
        /\ stater.delta = NoDelta
    BY <1>1 DEF Idle
  <2>2. told \in [groups : SUBSET Groups, nodes : SUBSET NodeRecs, stats : SUBSET AllStats,
                  links : SUBSET Links, untold : SUBSET NodeRecs]
    BY <1>1
  <2> QED BY <1>1, <1>3, <1>6, <2>1, <2>2, NoDeltaIsDelta DEF TypeInv
<1>8. /\ ToldInTheEnd.groups = {} /\ ToldInTheEnd.nodes = {} /\ ToldInTheEnd.links = {}
      /\ ToldInTheEnd.stats = ToSet(fs)
  <2>1. stater.delta = NoDelta BY <1>1 DEF Idle
  <2>2. /\ Told(told, NoDelta).groups = {} /\ Told(told, NoDelta).nodes = {}
        /\ Told(told, NoDelta).links = {} /\ Told(told, NoDelta).stats = {}
    BY <1>1, ToldNothing
  <2> DEFINE x == Told(told, NoDelta)
  <2> HIDE DEF x
  <2>3. /\ x.groups = {} /\ x.nodes = {} /\ x.links = {} /\ x.stats = {} BY <2>2 DEF x
  <2>4. ToldInTheEnd = Told(x, d) BY <2>1 DEF ToldInTheEnd, x
  <2>5. /\ ToSet(d.startedGroups) = {} /\ ToSet(d.startedNodes) = {} /\ ToSet(d.connected) = {}
        /\ ToSet(d.doneNodes) = {} /\ d.newStats = fs
    BY <1>1, <1>6
  <2>6. Told(x, d).groups = {} /\ Told(x, d).links = {} BY <2>3, <2>5 DEF Told
  <2>7. Told(x, d).nodes = {} BY <2>3, <2>5 DEF Told
  <2>8. Told(x, d).stats = ToSet(fs) BY <2>3, <2>5 DEF Told
  <2> QED BY <2>4, <2>6, <2>7, <2>8
<1>9. ToSet(d.doneGroups) = {} /\ ToSet(d.doneNodes) = {} /\ ToSet(d.disconnected) = {} BY <1>1, <1>6
<1>10. ASSUME NEW g \in Groups PROVE GroupStory(g)
  <2>1. /\ Left(script, Step("GroupInDelta", g)) => Left(script, Step("GroupInCatchUp", g))
        /\ Left(script, Step("GroupDoneInDelta", g)) => Left(script, Step("DropGroup", g))
    BY <1>3 DEF AllWhole, Whole
  <2>2. g \notin ToSet(cd.startedGroups) /\ g \notin ToldInTheEnd.groups /\ g \notin ToSet(d.doneGroups)
    BY <1>6, <1>8, <1>9
  <2> QED BY <2>1, <2>2 DEF GroupStory, Story
<1>11. ASSUME NEW n \in Nodes PROVE NodeStory(n)
  <2>1. /\ Left(script, Step("NodeInDelta", n)) => Left(script, Step("NodeInCatchUp", n))
        /\ Left(script, Step("NodeDoneInDelta", n)) => Left(script, Step("DropNode", n))
    BY <1>3 DEF AllWhole, Whole
  <2>2. NodeRec(n) \notin ToSet(cd.startedNodes) /\ NodeRec(n) \notin ToldInTheEnd.nodes /\ n \notin ToSet(d.doneNodes)
    BY <1>6, <1>8, <1>9
  <2> QED BY <2>1, <2>2 DEF NodeStory, Story
<1>12. ASSUME NEW c \in Links PROVE LinkStory(c)
  <2>1. /\ Left(script, Step("LinkInDelta", c)) => Left(script, Step("LinkInCatchUp", c))
        /\ Left(script, Step("CutInDelta", c)) => Left(script, Step("DropLink", c))
    BY <1>3 DEF AllWhole, Whole
  <2>2. c \notin ToSet(cd.connected) /\ c \notin ToldInTheEnd.links /\ c \notin ToSet(d.disconnected)
    BY <1>6, <1>8, <1>9
  <2> QED BY <2>1, <2>2 DEF LinkStory, Story
<1>13. ASSUME NEW s \in Stats PROVE StatStory(s) /\ s \notin ToSet(cd.newStats)
  <2>0. s.node \in Nodes BY DEF Stats
  <2>1. /\ Left(script, Step("StatInDelta", s)) => Left(script, Step("StatInCatchUp", s))
        /\ Left(script, Step("NodeDoneInDelta", s.node)) => Left(script, Step("DropNode", s.node))
        /\ Left(script, Step("DropNode", s.node)) => Left(script, Step("RemoveValuers", s.node))
        /\ Left(script, Step("RemoveValuers", s.node)) => Left(script, Step("DropStats", s.node))
    BY <1>3, <2>0 DEF AllWhole, Whole
  <2>2. s \notin ToSet(fs)
    <3>1. s.id \notin ToSet(p.flowStats) BY <1>2 DEF IsProgram
    <3> QED BY <3>1, <1>5
  <2>3. s \notin ToSet(cd.newStats) /\ s \notin ToldInTheEnd.stats /\ s.node \notin ToSet(d.doneNodes)
    BY <1>6, <1>8, <1>9, <2>2
  <2> QED BY <2>1, <2>3 DEF StatStory, Story
<1>14. \A s \in FlowStats : FlowStatStory(s) BY <1>6, <1>8 DEF FlowStatStory
<1>15. Stories BY <1>10, <1>11, <1>13, <1>14 DEF Stories
<1>16. SampledFirst BY <1>3 DEF SampledFirst, AllWhole, Whole
<1>17. StatsShownAreSampled BY <1>1, <1>5, <1>6 DEF StatsShownAreSampled
<1>18. LinkedInTurn(p) => LinkInv(script) BY <1>1, LinkedScript
<1> QED BY <1>7, <1>12, <1>15, <1>16, <1>17, <1>18 DEF MonitorerInv, LinksInv

\* A step of a handler: the valuers.
LEMMA ValuersHandled ==
  ASSUME MonitorerInv, NEW t \in Threads, Handle(t)
  PROVE  SampledFirst' /\ StatsShownAreSampled'
<1> DEFINE st == Head(script[t])
           x == Subject(t)
<1>0. TypeInv /\ Stories /\ SampledFirst /\ StatsShownAreSampled BY DEF MonitorerInv
<1>1. /\ Ran(script, script', t) /\ MayRun(t) /\ st = Step(st.do, x) /\ StepIn(t, st) BY <1>0, HandleRuns
<1>2. EffectOnCatchUp(st.do, x) /\ EffectOnValuers(st.do, x) BY <1>0, Effects
<1>3. ScriptInv(script) /\ Scripted(script) /\ Unique(script) /\ IsDelta(cd) BY <1>0 DEF TypeInv, ScriptInv
<1>4. script[t] # <<>> BY <1>1 DEF Ran
<1>5. /\ valuers' = (valuers \cup {i \in {x.id} : st.do = "AddValuer"})
                       \ {i \in ToSet(StatsOf[x]) : st.do = "RemoveValuers"}
      /\ ToSet(cd'.newStats) = (ToSet(cd.newStats) \cup {s \in {x} : st.do = "StatInCatchUp"})
                                  \ {s \in AllStats : st.do = "DropStats" /\ s.id \in ToSet(StatsOf[x])}
  BY <1>2 DEF EffectOnValuers, EffectOnCatchUp
<1>6. /\ st.do \in StatDos => x \in Stats
      /\ st.do \in EndDos => x \in Nodes /\ t = x
  <2> HIDE DEF st, x
  <2> QED BY <1>1 DEF StepIn, Step, LinkDos, StatDos, StartDos, GroupStartDos, EndDos, GroupEndDos
<1>7. \A s \in Stats : s.node \in Nodes /\ \A m \in Nodes : s.id \in ToSet(StatsOf[m]) => m = s.node
  BY IdsAssumption DEF Stats
\* What a node that is done takes from the stater is not shown any more.
<1>8. ASSUME st.do = "RemoveValuers"
      PROVE  /\ \A s \in ToSet(cd.newStats) : s.id \notin ToSet(StatsOf[x])
             /\ \A s \in Stats : s.id \in ToSet(StatsOf[x]) => ~Left(script, Step("StatInCatchUp", s))
  <2>0. x \in Nodes /\ t = x /\ st = Step("RemoveValuers", x) BY <1>1, <1>6, <1>8 DEF EndDos
  <2>1. /\ Then(script, Step("DropStats", x), Step("RemoveValuers", x))
        /\ Then(script, Step("RemoveValuers", x), Step("DropNode", x))
        /\ Then(script, Step("DropNode", x), Step("NodeDoneInDelta", x))
    BY <1>3, <2>0 DEF ScriptInv, NodesInTurn
  <2>2. Once(script, Step("RemoveValuers", x)) BY <1>3 DEF Unique, Step, LinkDos
  <2> DEFINE a == Step("DropStats", x)
             b == Step("RemoveValuers", x)
             m == Step("DropNode", x)
             l == Step("NodeDoneInDelta", x)
  <2>3. Then(script, a, b) /\ Then(script, b, m) /\ Then(script, m, l) /\ Once(script, b) BY <2>1, <2>2
  <2>4. Head(script[t]) = b BY <2>0
  <2> HIDE DEF a, b, m, l
  <2>5. ~Left(script, a) BY <1>3, <1>4, <2>3, <2>4, InTurn
  <2>6. Left(script, b) BY <1>1, <1>3, <2>4, RanLeaves
  <2>7. Left(script, m) BY <1>3, <2>3, <2>6, InTurn
  <2>8. Left(script, l) BY <1>3, <2>3, <2>7, InTurn
  <2>9. ASSUME NEW s \in Stats, s.node = x PROVE s \notin ToSet(cd.newStats)
    <3>1. StatStory(s) BY <1>0 DEF Stories
    <3>2. ~Left(script, Step("DropStats", s.node)) /\ Left(script, Step("NodeDoneInDelta", s.node))
      BY <2>5, <2>8, <2>9 DEF a, l
    <3> QED BY <3>1, <3>2 DEF StatStory, Story
  <2>10. ASSUME NEW s \in ToSet(cd.newStats), s.id \in ToSet(StatsOf[x]) PROVE FALSE
    <3>1. s \in AllStats BY <1>3 DEF IsDelta, ToSet
    <3>2. CASE s \in Stats
      <4>1. s.node = x BY <3>2, <2>0, <2>10, <1>7
      <4> QED BY <4>1, <3>2, <2>9
    <3>3. CASE s \in FlowStats
      <4>1. PICK p \in Programs : s.id \in ToSet(p.flowStats) BY <3>3 DEF FlowStats
      <4>2. [id |-> s.id, node |-> x] \in Stats BY <2>0, <2>10 DEF Stats
      <4>3. \A y \in Stats : y.id \notin ToSet(p.flowStats) BY ProgramsAssumption DEF IsProgram
      <4> QED BY <4>1, <4>2, <4>3
    <3> QED BY <3>1, <3>2, <3>3 DEF AllStats
  <2>11. ASSUME NEW s \in Stats, s.id \in ToSet(StatsOf[x]) PROVE ~Left(script, Step("StatInCatchUp", s))
    <3>1. s.node = x BY <2>0, <2>11, <1>7
    <3>2. script[x] # <<>> /\ MayRun(x) BY <2>0, <1>1, <1>4
    <3> QED BY <3>1, <3>2, <2>0, <1>3, NodeGate
  <2> QED BY <2>10, <2>11
<1>9. \A y : (Left(script', y) => Left(script, y)) /\ (y # st /\ Left(script, y) => Left(script', y))
  BY <1>1, <1>3, RanLeaves
<1>10. SampledFirst'
  <2> SUFFICES ASSUME NEW s \in Stats, Left(script', Step("StatInCatchUp", s)), ~Left(script', Step("AddValuer", s))
               PROVE  s.id \in valuers'
    BY DEF SampledFirst
  <2>1. Left(script, Step("StatInCatchUp", s)) BY <1>9
  <2>2. CASE st = Step("AddValuer", s)
    <3>1. st.do = "AddValuer" /\ x = s BY <2>2, <1>1 DEF Step
    <3> QED BY <3>1, <1>5
  <2>3. CASE st # Step("AddValuer", s)
    <3>1. ~Left(script, Step("AddValuer", s)) BY <2>3, <1>9
    <3>2. s.id \in valuers BY <3>1, <2>1, <1>0 DEF SampledFirst
    <3>3. st.do = "RemoveValuers" => s.id \notin ToSet(StatsOf[x]) BY <1>8, <2>1
    <3> HIDE DEF st, x
    <3> QED BY <3>2, <3>3, <1>5
  <2> QED BY <2>2, <2>3
<1>11. StatsShownAreSampled'
  <2> SUFFICES ASSUME NEW s \in ToSet(cd'.newStats) PROVE s.id \in valuers'
    BY DEF StatsShownAreSampled
  <2>1. CASE s \in ToSet(cd.newStats)
    <3>1. s.id \in valuers BY <2>1, <1>0 DEF StatsShownAreSampled
    <3>2. st.do = "RemoveValuers" => s.id \notin ToSet(StatsOf[x]) BY <1>8, <2>1
    <3> HIDE DEF st, x
    <3> QED BY <3>1, <3>2, <1>5
  <2>2. CASE s \notin ToSet(cd.newStats)
    <3>1. s = x /\ st.do = "StatInCatchUp"
      <4> HIDE DEF st, x
      <4> QED BY <2>2, <1>5
    <3>2. s \in Stats /\ st = Step("StatInCatchUp", s) BY <3>1, <1>1, <1>6 DEF StatDos
    <3>3. Then(script, Step("AddValuer", s), Step("StatInCatchUp", s)) BY <1>3, <3>2 DEF ScriptInv, StatsInTurn
    <3>4. Once(script, Step("StatInCatchUp", s)) BY <1>3 DEF Unique, Step, LinkDos
    <3> DEFINE a == Step("AddValuer", s)
               b == Step("StatInCatchUp", s)
    <3>5. Then(script, a, b) /\ Once(script, b) /\ Head(script[t]) = b BY <3>2, <3>3, <3>4
    <3> HIDE DEF a, b
    <3>6. ~Left(script, a) BY <1>3, <1>4, <3>5, InTurn
    <3>7. Left(script, b) BY <1>1, <1>3, <3>5, RanLeaves
    <3>8. s.id \in valuers BY <3>2, <3>6, <3>7, <1>0 DEF SampledFirst, a, b
    <3> QED BY <3>1, <3>8, <1>5
  <2> QED BY <2>1, <2>2
<1> QED BY <1>10, <1>11

\* The invariant is kept by a step of a handler.
LEMMA HandledKeeps ==
  ASSUME MonitorerInv, NEW t \in Threads, Handle(t)
  PROVE  MonitorerInv' /\ (LinksInv => LinksInv')
<1>0. TypeInv /\ Stories BY DEF MonitorerInv
<1>1. Ran(script, script', t) /\ stater' = stater /\ told' = told BY <1>0, HandleRuns
<1>2. EffectOnCatchUp(Head(script[t]).do, Subject(t)) /\ EffectOnDelta(Head(script[t]).do, Subject(t))
  BY <1>0, Effects
<1>3. TypeInv'
  <2>1. ScriptInv(script') BY <1>0, <1>1, RanKeeps DEF TypeInv
  <2>2. IsDelta(cd') /\ IsDelta(d') BY <1>2 DEF EffectOnCatchUp, EffectOnDelta
  <2> QED BY <2>1, <2>2, <1>0, <1>1 DEF TypeInv
<1>4. Stories'
  <2>1. \A g \in Groups : GroupStory(g)' BY <1>0, GroupHandled DEF Stories
  <2>2. \A n \in Nodes : NodeRec(n) \notin told'.untold => NodeStory(n)' BY <1>0, <1>1, NodeHandled DEF Stories
  <2>3. \A s \in Stats : StatStory(s)' BY <1>0, StatHandled DEF Stories
  <2>4. \A s \in FlowStats : FlowStatStory(s)' BY <1>0, FlowStatHandled DEF Stories
  <2> QED BY <2>1, <2>2, <2>3, <2>4 DEF Stories
<1>5. SampledFirst' /\ StatsShownAreSampled' BY ValuersHandled
<1>6. ASSUME LinksInv PROVE LinksInv'
  <2>1. LinkInv(script') BY <1>0, <1>1, <1>6, RanKeepsLinks DEF LinksInv, TypeInv, ScriptInv
  <2>2. \A c \in Links : LinkStory(c)' BY <1>0, <1>6, LinkHandled DEF LinksInv
  <2> QED BY <2>1, <2>2 DEF LinksInv
<1> QED BY <1>3, <1>4, <1>5, <1>6 DEF MonitorerInv

\* The invariant is kept by the stater's steps: a sample, the exchange of deltas, the
\* delivery.
LEMMA StaterKeepsAll ==
  ASSUME MonitorerInv, Sample \/ SwapDelta \/ Deliver
  PROVE  MonitorerInv' /\ (LinksInv => LinksInv')
<1>0. TypeInv /\ Stories /\ SampledFirst /\ StatsShownAreSampled BY DEF MonitorerInv
<1>1. /\ TypeInv'
      /\ script' = script /\ valuers' = valuers
      /\ cd'.startedGroups = cd.startedGroups /\ cd'.startedNodes = cd.startedNodes
      /\ cd'.connected = cd.connected /\ cd'.newStats = cd.newStats
      /\ ToldInTheEnd'.groups = ToldInTheEnd.groups /\ ToldInTheEnd'.links = ToldInTheEnd.links
      /\ ToldInTheEnd'.stats = ToldInTheEnd.stats
      /\ told.untold \subseteq told'.untold
      /\ \A n \in Nodes : NodeRec(n) \notin told'.untold =>
             (NodeRec(n) \in ToldInTheEnd'.nodes <=> NodeRec(n) \in ToldInTheEnd.nodes)
      /\ ToSet(d'.doneGroups) \subseteq ToSet(d.doneGroups) /\ ToSet(d'.doneNodes) \subseteq ToSet(d.doneNodes)
      /\ ToSet(d'.disconnected) \subseteq ToSet(d.disconnected)
  BY <1>0, StaterKeeps
<1>2. ASSUME NEW g \in Groups PROVE GroupStory(g)'
  <2>1. GroupStory(g) BY <1>0 DEF Stories
  <2> QED BY <2>1, <1>1 DEF GroupStory, Story
<1>3. ASSUME NEW n \in Nodes, NodeRec(n) \notin told'.untold PROVE NodeStory(n)'
  <2>1. NodeStory(n) BY <1>0, <1>1, <1>3 DEF Stories
  <2>2. NodeRec(n) \in ToldInTheEnd'.nodes <=> NodeRec(n) \in ToldInTheEnd.nodes BY <1>1, <1>3
  <2> QED BY <2>1, <2>2, <1>1 DEF NodeStory, Story
<1>4. ASSUME NEW s \in Stats PROVE StatStory(s)'
  <2>1. StatStory(s) BY <1>0 DEF Stories
  <2> QED BY <2>1, <1>1 DEF StatStory, Story
<1>5. ASSUME NEW s \in FlowStats PROVE FlowStatStory(s)'
  BY <1>0, <1>1 DEF Stories, FlowStatStory
<1>6. ASSUME LinksInv PROVE LinksInv'
  <2>1. ASSUME NEW c \in Links PROVE LinkStory(c)'
    <3>1. LinkStory(c) BY <1>6 DEF LinksInv
    <3> QED BY <3>1, <1>1 DEF LinkStory, Story
  <2> QED BY <2>1, <1>1, <1>6 DEF LinksInv
<1>7. Stories' BY <1>2, <1>3, <1>4, <1>5 DEF Stories
<1>8. SampledFirst' /\ StatsShownAreSampled' BY <1>0, <1>1 DEF SampledFirst, StatsShownAreSampled
<1> QED BY <1>1, <1>6, <1>7, <1>8 DEF MonitorerInv

\* The invariant is kept by steps of others.
LEMMA StutterKeeps ==
  ASSUME MonitorerInv, UNCHANGED monitorerVars
  PROVE  MonitorerInv' /\ (LinksInv => LinksInv')
<1>1. script' = script /\ cd' = cd /\ d' = d /\ valuers' = valuers /\ stater' = stater /\ told' = told
  BY DEF monitorerVars
<1>2. ToldInTheEnd' = ToldInTheEnd BY <1>1 DEF ToldInTheEnd
<1>3. TypeInv' /\ SampledFirst' /\ StatsShownAreSampled'
  BY <1>1 DEF MonitorerInv, TypeInv, SampledFirst, StatsShownAreSampled
<1>4. Stories'
  <2>1. Stories BY DEF MonitorerInv
  <2>2. \A g : GroupStory(g)' <=> GroupStory(g) BY <1>1, <1>2 DEF GroupStory
  <2>3. \A n : NodeStory(n)' <=> NodeStory(n) BY <1>1, <1>2 DEF NodeStory
  <2>4. \A s : StatStory(s)' <=> StatStory(s) BY <1>1, <1>2 DEF StatStory
  <2>5. \A s : FlowStatStory(s)' <=> FlowStatStory(s) BY <1>1, <1>2 DEF FlowStatStory
  <2> QED BY <2>1, <2>2, <2>3, <2>4, <2>5, <1>1 DEF Stories
<1>5. ASSUME LinksInv PROVE LinksInv'
  <2>1. \A c : LinkStory(c)' <=> LinkStory(c) BY <1>1, <1>2 DEF LinkStory
  <2> QED BY <2>1, <1>1, <1>5 DEF LinksInv
<1> QED BY <1>3, <1>4, <1>5 DEF MonitorerInv

\* The invariant is kept by every step.
LEMMA NextKeeps ==
  ASSUME MonitorerInv, [MonitorerNext]_monitorerVars
  PROVE  MonitorerInv' /\ (LinksInv => LinksInv')
<1>1. CASE \E t \in Threads : Handle(t) BY <1>1, HandledKeeps
<1>2. CASE Sample \/ SwapDelta \/ Deliver BY <1>2, StaterKeepsAll
<1>3. CASE UNCHANGED monitorerVars BY <1>3, StutterKeeps
<1> QED BY <1>1, <1>2, <1>3 DEF MonitorerNext

---------------------------------------------------------------------------
(* What the stories come to when no handler is halfway.                    *)

\* Between handlers, nothing is left of one but the whole of it.
LEMMA NoHalves ==
  ASSUME ScriptInv(script), BetweenHandlers, NEW a, NEW b, Then(script, a, b), b.do \in SecondHalves
  PROVE  Left(script, b) => Left(script, a)
<1> SUFFICES ASSUME Left(script, b), ~Left(script, a) PROVE FALSE OBVIOUS
<1>1. Scripted(script) BY DEF ScriptInv
<1>2. PICK t \in Threads : script[t] # <<>> /\ Head(script[t]) = b BY <1>1, InTurn
<1> QED BY <1>2 DEF BetweenHandlers

\* What is told and what is in the catch-up delta are things of the same kinds.
LEMMA TypedSets ==
  ASSUME TypeInv
  PROVE  /\ ToSet(cd.startedGroups) \subseteq Groups /\ ToldInTheEnd.groups \subseteq Groups
         /\ ToSet(cd.startedNodes) \subseteq NodeRecs /\ ToldInTheEnd.nodes \subseteq NodeRecs
         /\ ToSet(cd.connected) \subseteq Links /\ ToldInTheEnd.links \subseteq Links
         /\ ToSet(cd.newStats) \subseteq AllStats /\ ToldInTheEnd.stats \subseteq AllStats
<1>1. told \in ToldType /\ IsDelta(stater.delta) /\ IsDelta(d) /\ IsDelta(cd) BY DEF TypeInv, ToldType
<1>2. ToldInTheEnd \in ToldType BY <1>1, ToldTyped DEF ToldInTheEnd
<1>3. /\ ToSet(cd.startedGroups) \subseteq Groups /\ ToSet(cd.startedNodes) \subseteq NodeRecs
      /\ ToSet(cd.connected) \subseteq Links /\ ToSet(cd.newStats) \subseteq AllStats
  <2>1. /\ cd.startedGroups \in Seq(Groups) /\ cd.startedNodes \in Seq(NodeRecs)
        /\ cd.connected \in Seq(Links) /\ cd.newStats \in Seq(AllStats)
    BY <1>1 DEF IsDelta
  <2>2. \A S : \A q \in Seq(S) : ToSet(q) \subseteq S BY DEF ToSet
  <2> QED BY <2>1, <2>2
<1> QED BY <1>2, <1>3 DEF ToldType

\* Groups, nodes and stats agree, whatever links do.
LEMMA ThingsAgree ==
  ASSUME MonitorerInv, BetweenHandlers
  PROVE  /\ ToldInTheEnd.groups = ToSet(cd.startedGroups)
         /\ ToldInTheEnd.stats = ToSet(cd.newStats)
         /\ ToldInTheEnd.nodes \ told.untold = ToSet(cd.startedNodes) \ told.untold
<1>0. TypeInv /\ Stories /\ ScriptInv(script) BY DEF MonitorerInv, TypeInv
<1>2. ASSUME NEW g \in Groups PROVE g \in ToSet(cd.startedGroups) <=> g \in ToldInTheEnd.groups
  <2>1. Then(script, Step("GroupInCatchUp", g), Step("GroupInDelta", g))
        /\ Then(script, Step("DropGroup", g), Step("GroupDoneInDelta", g))
    BY <1>0 DEF ScriptInv, GroupsInTurn
  <2>2. Step("GroupInDelta", g).do \in SecondHalves /\ Step("GroupDoneInDelta", g).do \in SecondHalves
    BY DEF SecondHalves, Step
  <2>3. Left(script, Step("GroupInDelta", g)) => Left(script, Step("GroupInCatchUp", g)) BY <1>0, <2>1, <2>2, NoHalves
  <2>4. Left(script, Step("GroupDoneInDelta", g)) => Left(script, Step("DropGroup", g)) BY <1>0, <2>1, <2>2, NoHalves
  <2>5. GroupStory(g) BY <1>0 DEF Stories
  <2> QED BY <2>3, <2>4, <2>5 DEF GroupStory, Story
<1>3. ASSUME NEW n \in Nodes, NodeRec(n) \notin told.untold
      PROVE  NodeRec(n) \in ToSet(cd.startedNodes) <=> NodeRec(n) \in ToldInTheEnd.nodes
  <2>1. Then(script, Step("NodeInCatchUp", n), Step("NodeInDelta", n))
        /\ Then(script, Step("DropNode", n), Step("NodeDoneInDelta", n))
    BY <1>0 DEF ScriptInv, NodesInTurn
  <2>2. Step("NodeInDelta", n).do \in SecondHalves /\ Step("NodeDoneInDelta", n).do \in SecondHalves
    BY DEF SecondHalves, Step
  <2>3. Left(script, Step("NodeInDelta", n)) => Left(script, Step("NodeInCatchUp", n)) BY <1>0, <2>1, <2>2, NoHalves
  <2>4. Left(script, Step("NodeDoneInDelta", n)) => Left(script, Step("DropNode", n)) BY <1>0, <2>1, <2>2, NoHalves
  <2>5. NodeStory(n) BY <1>0, <1>3 DEF Stories
  <2> QED BY <2>3, <2>4, <2>5 DEF NodeStory, Story
<1>4. ASSUME NEW s \in Stats PROVE s \in ToSet(cd.newStats) <=> s \in ToldInTheEnd.stats
  <2> DEFINE n == s.node
  <2>0. n \in Nodes BY DEF Stats
  <2>1. /\ Then(script, Step("StatInCatchUp", s), Step("StatInDelta", s))
        /\ Then(script, Step("DropStats", n), Step("RemoveValuers", n))
        /\ Then(script, Step("RemoveValuers", n), Step("DropNode", n))
        /\ Then(script, Step("DropNode", n), Step("NodeDoneInDelta", n))
    BY <1>0, <2>0 DEF ScriptInv, StatsInTurn, NodesInTurn
  <2>2. /\ Step("StatInDelta", s).do \in SecondHalves /\ Step("RemoveValuers", n).do \in SecondHalves
        /\ Step("DropNode", n).do \in SecondHalves /\ Step("NodeDoneInDelta", n).do \in SecondHalves
    BY DEF SecondHalves, Step
  <2>3. Left(script, Step("StatInDelta", s)) => Left(script, Step("StatInCatchUp", s)) BY <1>0, <2>1, <2>2, NoHalves
  <2>4. Left(script, Step("NodeDoneInDelta", n)) => Left(script, Step("DropNode", n)) BY <1>0, <2>1, <2>2, NoHalves
  <2>5. Left(script, Step("DropNode", n)) => Left(script, Step("RemoveValuers", n)) BY <1>0, <2>1, <2>2, NoHalves
  <2>6. Left(script, Step("RemoveValuers", n)) => Left(script, Step("DropStats", n)) BY <1>0, <2>1, <2>2, NoHalves
  <2>7. StatStory(s) BY <1>0 DEF Stories
  <2> QED BY <2>3, <2>4, <2>5, <2>6, <2>7 DEF StatStory, Story
<1>5. ASSUME NEW s \in FlowStats PROVE s \in ToSet(cd.newStats) <=> s \in ToldInTheEnd.stats
  BY <1>0 DEF Stories, FlowStatStory
<1>6. ToldInTheEnd.groups = ToSet(cd.startedGroups) BY <1>0, <1>2, TypedSets
<1>7. ToldInTheEnd.stats = ToSet(cd.newStats) BY <1>0, <1>4, <1>5, TypedSets DEF AllStats
<1>8. ToldInTheEnd.nodes \ told.untold = ToSet(cd.startedNodes) \ told.untold
  BY <1>0, <1>3, TypedSets DEF NodeRecs
<1> QED BY <1>6, <1>7, <1>8

\* Links agree, when they come in turn.
LEMMA LinksAgreeToo ==
  ASSUME MonitorerInv, LinksInv, BetweenHandlers
  PROVE  ToldInTheEnd.links = ToSet(cd.connected)
<1>0. TypeInv /\ ScriptInv(script) BY DEF MonitorerInv, TypeInv
<1>1. ASSUME NEW c \in Links PROVE c \in ToSet(cd.connected) <=> c \in ToldInTheEnd.links
  <2>1. Then(script, Step("LinkInCatchUp", c), Step("LinkInDelta", c))
        /\ Then(script, Step("DropLink", c), Step("CutInDelta", c))
    BY <1>0 DEF ScriptInv, LinksInTurn
  <2>2. Step("LinkInDelta", c).do \in SecondHalves /\ Step("CutInDelta", c).do \in SecondHalves
    BY DEF SecondHalves, Step
  <2>3. Left(script, Step("LinkInDelta", c)) => Left(script, Step("LinkInCatchUp", c)) BY <1>0, <2>1, <2>2, NoHalves
  <2>4. Left(script, Step("CutInDelta", c)) => Left(script, Step("DropLink", c)) BY <1>0, <2>1, <2>2, NoHalves
  <2>5. LinkStory(c) BY DEF LinksInv
  <2> QED BY <2>3, <2>4, <2>5 DEF LinkStory, Story
<1> QED BY <1>0, <1>1, TypedSets

---------------------------------------------------------------------------
(* The theorems.                                                           *)

\* Whatever happens in a browser, monitorer.go runs as it would alone.
LEMMA MonitorerStep ==
  ASSUME [Next]_vars
  PROVE  [MonitorerNext]_monitorerVars
<1>1. CASE Mount \/ Answer \/ ReceiveAnswer \/ RequestRefused \/ RequestFails
  BY <1>1 DEF Mount, Answer, ReceiveAnswer, RequestRefused, RequestFails
<1>2. CASE PusherIsMade \/ SocketOpens \/ SocketCloses \/ ReceivePush
  BY <1>2 DEF PusherIsMade, SocketOpens, SocketCloses, ReceivePush
<1>3. CASE FlowMoves BY <1>3 DEF FlowMoves, MonitorerNext
<1>4. CASE Push BY <1>4 DEF Push, MonitorerNext
<1>5. CASE User
  BY <1>5 DEF User, OpenFile, ClearReplay, Keys, SeekByBar, UserSends
<1>6. CASE WorkerMoves BY <1>6 DEF WorkerMoves
<1>7. CASE PageHears
  BY <1>7 DEF PageHears, OnWorkerCleared, OnWorkerDelta, OnWorkerOpened, OnWorkerProgress, HeardUnchanged
<1>8. CASE UNCHANGED vars BY <1>8 DEF vars
<1> QED BY <1>1, <1>2, <1>3, <1>4, <1>5, <1>6, <1>7, <1>8 DEF Next

\* WebPage adds pages, a network and a worker to a monitorer, and takes none of
\* its steps away: whatever happens in a browser, monitorer.go runs as it would alone.
THEOREM PageIsAMonitorer == Spec => MonitorerSpec
<1>1. Init => MonitorerInit BY DEF Init, MonitorerInit
<1>2. [Next]_vars => [MonitorerNext]_monitorerVars BY MonitorerStep
<1> QED BY <1>1, <1>2, PTL DEF Spec, MonitorerSpec

\* The invariant holds of every run, for every program.
LEMMA InvHolds == MonitorerSpec => []MonitorerInv
<1>1. MonitorerInit => MonitorerInv BY InitHolds DEF MonitorerInit
<1>2. MonitorerInv /\ [MonitorerNext]_monitorerVars => MonitorerInv' BY NextKeeps
<1> QED BY <1>1, <1>2, PTL DEF MonitorerSpec

\* And so does that of links, for programs that link in turn.
LEMMA LinksHold ==
  ASSUME \A p \in Programs : LinkedInTurn(p)
  PROVE  MonitorerSpec => [](MonitorerInv /\ LinksInv)
<1>1. MonitorerInit => MonitorerInv /\ LinksInv BY InitHolds DEF MonitorerInit
<1>2. (MonitorerInv /\ LinksInv) /\ [MonitorerNext]_monitorerVars => (MonitorerInv /\ LinksInv)' BY NextKeeps
<1> QED BY <1>1, <1>2, PTL DEF MonitorerSpec

\* The scripts, the deltas and the stater's own are what their types say, for every program.
THEOREM MonitorerTypeCorrect == MonitorerSpec => []TypeInv
<1>1. MonitorerInv => TypeInv BY DEF MonitorerInv
<1> QED BY <1>1, InvHolds, PTL

\* A stat that whoever catches up is shown is sampled: monitorNode registers a
\* valuer before it announces the stat and, in whatever goroutine the node ends,
\* takes it from the stater after it took it from the catch-up delta.
THEOREM StatsShownAreSampledHolds == Spec => []StatsShownAreSampled
<1>1. MonitorerInv => StatsShownAreSampled BY DEF MonitorerInv
<1> QED BY <1>1, InvHolds, PageIsAMonitorer, PTL

\* The groups, nodes and stats someone knows who added the deltas up are those
\* of the catch-up delta, whenever no handler is halfway.
ThingsAreTold ==
    BetweenHandlers =>
        /\ ToldInTheEnd.groups = ToSet(cd.startedGroups)
        /\ ToldInTheEnd.stats = ToSet(cd.newStats)
        /\ ToldInTheEnd.nodes \ told.untold = ToSet(cd.startedNodes) \ told.untold

\* It holds for every program, without a condition on links.
THEOREM ThingsAreToldHolds == Spec => []ThingsAreTold
<1>1. MonitorerInv => ThingsAreTold BY ThingsAgree DEF ThingsAreTold
<1> QED BY <1>1, InvHolds, PageIsAMonitorer, PTL

\* And so are the links, when each pair of nodes is linked once at most and cut
\* by a goroutine that comes to it later: the two deltas of monitorer.go say the
\* same, whatever the order of the goroutines, the periods and the catch-ups.
THEOREM CatchUpAgreesHolds ==
  ASSUME \A p \in Programs : LinkedInTurn(p)
  PROVE  Spec => []CatchUpAgrees
<1>1. MonitorerInv /\ LinksInv => CatchUpAgrees BY ThingsAgree, LinksAgreeToo DEF CatchUpAgrees
<1> QED BY <1>1, LinksHold, PageIsAMonitorer, PTL

---------------------------------------------------------------------------
(* A replay: the page and the worker.                                      *)
(*                                                                         *)
(* What the page knows runs behind what the worker does by the messages    *)
(* that are on their way.  The invariant says where the page will be once  *)
(* it has heard them all, from a history of it, message after message:     *)
(* there it agrees with the worker; and on the way there it never takes    *)
(* the lines of another recording for the worker's.                        *)

\* What replay.js keeps, as a record of a list of values.
IsRecord(w) ==
  /\ w = [groups |-> w.groups, nodes |-> w.nodes, stats |-> w.stats, values |-> w.values, current |-> w.current]
  /\ w.values \in Seq(ToSet(w.values))

\* Nothing is recorded, or the worker stands on a line there is.
Recorded(w) == IsRecord(w) /\ (w = NoRecording \/ w.current.idx \in DOMAIN w.values)

Ats(w) == [i \in DOMAIN w.values |-> w.values[i].at]

\* What the page knows of its replay once it heard m.
After(r, m) ==
  CASE m.name = "cleared" -> NoReplay
    [] m.name = "delta"   -> [r EXCEPT !.idx = m.idx]
    [] m.name = "opened"  -> [r EXCEPT !.ats = m.ats, !.idx = m.idx]
    [] OTHER              -> [r EXCEPT !.progress = m.elapsed, !.done = @ \/ m.elapsed = 100]

IsReplay(r) == r = [ats |-> r.ats, idx |-> r.idx, progress |-> r.progress, done |-> r.done] /\ r.done \in BOOLEAN

\* h is what the page knows, message after message of q, when it knows r now.
HearsOut(h, r, q) ==
  /\ h = [i \in 0 .. Len(q) |-> h[i]] /\ h[0] = r
  /\ \A i \in 1 .. Len(q) : h[i] = After(h[i - 1], q[i])
  /\ \A i \in 0 .. Len(q) : IsReplay(h[i])

\* The page and the worker count the same lines and stand on the same one.
Agree(r, w) == IF r.done THEN r.idx = w.current.idx /\ r.ats = Ats(w)
               ELSE w = NoRecording /\ r.idx = NoReplayIdx

\* A line that is shown is the one the worker stands on, and changes none.
LEMMA BuiltKeeps ==
  ASSUME NEW w, IsRecord(w), NEW idx \in DOMAIN w.values
  PROVE  LET b == BuildDelta(w, idx).worker
         IN  Recorded(b) /\ b.values = w.values /\ b.current.idx = idx /\ Ats(b) = Ats(w) /\ b # NoRecording
<1> DEFINE b == BuildDelta(w, idx).worker
<1>1. b.values = w.values /\ b.current.idx = idx /\ IsRecord(b)
  BY DEF BuildDelta, IsRecord
<1> HIDE DEF b
<1>2. Ats(b) = Ats(w) /\ Recorded(b)
  BY <1>1 DEF Ats, Recorded
<1>3. w.values # <<>>
  OBVIOUS
<1>4. b # NoRecording
  BY <1>1, <1>3 DEF NoRecording
<1> QED BY <1>1, <1>2, <1>4 DEF b

\* A line that parses adds its values, at its time.
LEMMA LineRead ==
  ASSUME NEW w, IsRecord(w), NEW line, line.parses
  PROVE  LET r == ReadLine(w, line)
         IN  /\ IsRecord(r) /\ r.current = w.current
             /\ \E v : r.values = Append(w.values, v) /\ v.at = line.at
<1> DEFINE v == [at |-> line.at, connections |-> LinksAfter(w, line.delta), stats |-> line.delta.values]
           r == ReadLine(w, line)
           S == ToSet(w.values) \cup {v}
<1>1. /\ r.values = Append(w.values, v) /\ r.current = w.current
      /\ r = [groups |-> r.groups, nodes |-> r.nodes, stats |-> r.stats, values |-> r.values, current |-> r.current]
  BY DEF ReadLine, IsRecord
<1>2. w.values \in Seq(S)
  <2>1. w.values \in Seq(ToSet(w.values)) BY DEF IsRecord
  <2> HIDE DEF v
  <2> QED BY <2>1
<1>3. Append(w.values, v) \in Seq(S)
  <2> HIDE DEF v
  <2> QED BY <1>2
<1> HIDE DEF r, v
<1>4. ToSet(r.values) = S
  BY <1>1, AppendSet DEF IsRecord
<1> QED BY <1>1, <1>3, <1>4 DEF IsRecord, r, v

\* A file that is read from nothing leaves a value for each line that parses, and
\* nothing when none does.
LEMMA FileRead ==
  ASSUME NEW file \in Recordings
  PROVE  LET w == ReadFile(NoRecording, file)
         IN  /\ IsRecord(w) /\ w.current = NoCurrent /\ Ats(w) = AtsOf(file)
             /\ w.values = <<>> => w = NoRecording
<1> DEFINE n == Len(file)
           S == {line \in ToSet(file) : line.parses}
           Body(g, i) == IF i = 0 THEN NoRecording ELSE ReadLine(g[i - 1], file[i])
           read == CHOOSE g : g = [i \in 0 .. n |-> Body(g, i)]
           T == {m \in Nat : \E g : g = [i \in 0 .. m |-> Body(g, i)]}
<1>1. file \in Seq(ToSet(file)) /\ n \in Nat
      /\ \A i \in 1 .. n : file[i] \in ToSet(file) /\ file[i].parses \in BOOLEAN
  <2>1. file \in Seq(ToSet(file)) /\ \A line \in ToSet(file) : line.parses \in BOOLEAN
    BY RecordingsAssumption
  <2> QED BY <2>1
<1>2. 0 \in T
  <2> DEFINE g == [i \in 0 .. 0 |-> NoRecording]
  <2>1. g = [i \in 0 .. 0 |-> Body(g, i)]
    OBVIOUS
  <2> HIDE DEF g, Body
  <2> QED BY <2>1
<1>3. \A m \in Nat : m \in T => m + 1 \in T
  <2> SUFFICES ASSUME NEW m \in Nat, m \in T PROVE m + 1 \in T
    OBVIOUS
  <2>1. PICK g : g = [i \in 0 .. m |-> Body(g, i)]
    <3> HIDE DEF Body
    <3> QED OBVIOUS
  <2> DEFINE g2 == [i \in 0 .. m + 1 |-> IF i = m + 1 THEN ReadLine(g[m], file[m + 1]) ELSE g[i]]
  <2>2. \A i \in 0 .. m : g[i] = Body(g, i)
    <3> HIDE DEF Body
    <3> QED BY <2>1
  <2>3. \A i \in 0 .. m + 1 : g2[i] = Body(g2, i)
    <3> TAKE i \in 0 .. m + 1
    <3>1. CASE i = m + 1
      <4>1. g2[m] = g[m] /\ g2[i] = ReadLine(g[m], file[m + 1]) /\ i - 1 = m /\ i # 0
        BY <3>1
      <4> HIDE DEF g2
      <4> QED BY <3>1, <4>1
    <3>2. CASE i # m + 1
      <4>1. i \in 0 .. m /\ (i # 0 => i - 1 \in 0 .. m /\ i - 1 # m + 1 /\ i - 1 \in 0 .. m + 1)
        BY <3>2
      <4>2. g2[i] = g[i] /\ (i # 0 => g2[i - 1] = g[i - 1])
        BY <3>2, <4>1
      <4> HIDE DEF g2
      <4> QED BY <2>2, <4>1, <4>2
    <3> QED BY <3>1, <3>2
  <2>4. g2 = [i \in 0 .. m + 1 |-> g2[i]]
    OBVIOUS
  <2>5. g2 = [i \in 0 .. m + 1 |-> Body(g2, i)]
    <3> HIDE DEF g2, Body
    <3> QED BY <2>3, <2>4
  <2> HIDE DEF g2, Body
  <2> QED BY <2>5
<1>4. n \in T
  <2> HIDE DEF T, n
  <2> QED BY <1>1, <1>2, <1>3, Induction
<1>5. read = [i \in 0 .. n |-> Body(read, i)]
  <2> HIDE DEF Body, n
  <2> QED BY <1>4
<1>6. ReadFile(NoRecording, file) = read[n]
  BY DEF ReadFile
<1>7. read[0] = NoRecording /\ \A i \in 1 .. n : read[i] = ReadLine(read[i - 1], file[i])
  <2> HIDE DEF read
  <2>1. \A i \in 0 .. n : read[i] = Body(read, i)
    <3> HIDE DEF Body, n
    <3> QED BY <1>5
  <2> HIDE DEF n
  <2> QED BY <1>1, <2>1
<1> HIDE DEF read, T
<1>8. PICK kept : Selects(kept, ToSet(file), S, file)
  <2> HIDE DEF S
  <2> QED BY <1>1, SelectedSteps
<1>9. AtsOf(file) = [i \in DOMAIN kept[n] |-> kept[n][i].at]
  BY <1>8 DEF AtsOf, Selects
<1> DEFINE Fine(w, k) == /\ IsRecord(w) /\ w.current = NoCurrent
                         /\ DOMAIN w.values = DOMAIN k /\ \A j \in DOMAIN k : w.values[j].at = k[j].at
                         /\ w.values = <<>> => w = NoRecording
           U == {m \in Nat : m <= n => Fine(read[m], kept[m])}
<1>10. 0 \in U
  <2>1. read[0] = NoRecording /\ kept[0] = <<>>
    BY <1>7, <1>8 DEF Selects
  <2>2. ToSet(<<>>) = {}
    BY DEF ToSet
  <2>3. Fine(NoRecording, <<>>)
    BY <2>2 DEF IsRecord, NoRecording
  <2> QED BY <2>1, <2>3
<1>11. \A m \in Nat : m \in U => m + 1 \in U
  <2> SUFFICES ASSUME NEW m \in Nat, Fine(read[m], kept[m]), m + 1 <= n PROVE Fine(read[m + 1], kept[m + 1])
    <3> HIDE DEF Fine, n
    <3>1. \A m \in Nat : m + 1 <= n => m <= n
      BY <1>1
    <3> QED BY <3>1
  <2> DEFINE w == read[m]
             k == kept[m]
             line == file[m + 1]
  <2>1. /\ m + 1 \in 1 .. n /\ (m + 1) - 1 = m /\ m \in 0 .. n
    BY <1>1
  <2>2. /\ read[m + 1] = ReadLine(w, line)
        /\ kept[m + 1] = IF line \in S THEN Append(k, line) ELSE k
        /\ k \in Seq(ToSet(file))
    <3> HIDE DEF n, S
    <3>1. /\ kept \in [0 .. n -> Seq(ToSet(file))]
          /\ \A i \in 1 .. n : kept[i] = IF file[i] \in S THEN Append(kept[i - 1], file[i]) ELSE kept[i - 1]
      BY <1>8 DEF Selects, n
    <3>2. kept[m + 1] = IF line \in S THEN Append(kept[m], line) ELSE kept[m]
      BY <2>1, <3>1
    <3>3. read[m + 1] = ReadLine(read[m], line)
      BY <1>7, <2>1
    <3>4. kept[m] \in Seq(ToSet(file))
      BY <2>1, <3>1
    <3> QED BY <3>2, <3>3, <3>4
  <2>3. line \in ToSet(file) /\ line.parses \in BOOLEAN /\ (line \in S <=> line.parses)
    <3>1. line \in ToSet(file) /\ line.parses \in BOOLEAN
      BY <1>1, <2>1
    <3> HIDE DEF line
    <3> QED BY <3>1
  <2>4. Fine(w, k)
    OBVIOUS
  <2> HIDE DEF w, k, line
  <2>5. CASE ~line.parses
    <3>1. ReadLine(w, line) = w
      BY <2>5 DEF ReadLine
    <3> HIDE DEF Fine, S
    <3> QED BY <2>2, <2>3, <2>4, <2>5, <3>1
  <2>6. CASE line.parses
    <3> DEFINE r == ReadLine(w, line)
    <3>1. IsRecord(r) /\ r.current = w.current /\ \E v : r.values = Append(w.values, v) /\ v.at = line.at
      BY <2>4, <2>6, LineRead
    <3> HIDE DEF r
    <3>2. PICK v : r.values = Append(w.values, v) /\ v.at = line.at
      BY <3>1
    <3> DEFINE l == Len(w.values)
    <3>3. /\ l \in Nat /\ DOMAIN w.values = 1 .. l
          /\ DOMAIN r.values = 1 .. l + 1 /\ r.values[l + 1] = v
          /\ \A j \in 1 .. l : r.values[j] = w.values[j]
      BY <2>4, <3>2 DEF IsRecord
    <3>4. DOMAIN k = 1 .. l /\ DOMAIN k = 1 .. Len(k) /\ Len(k) \in Nat
      <4>1. DOMAIN w.values = DOMAIN k
        BY <2>4
      <4> HIDE DEF Fine, l, S, n
      <4> QED BY <2>2, <3>3, <4>1
    <3>5. Len(k) = l
      <4> HIDE DEF l
      <4> QED BY <3>3, <3>4
    <3>6. /\ DOMAIN Append(k, line) = 1 .. l + 1 /\ Append(k, line)[l + 1] = line
          /\ \A j \in 1 .. l : Append(k, line)[j] = k[j]
      <4> HIDE DEF l
      <4> QED BY <2>2, <2>3, <3>4, <3>5
    <3>7. kept[m + 1] = Append(k, line)
      BY <2>2, <2>3, <2>6
    <3>8. r.values # <<>>
      BY <3>3
    <3>9. \A j \in 1 .. l + 1 : r.values[j].at = Append(k, line)[j].at
      <4> TAKE j \in 1 .. l + 1
      <4>1. j = l + 1 \/ j \in 1 .. l
        BY <3>3
      <4>2. CASE j \in 1 .. l
        BY <2>4, <3>3, <3>4, <3>6, <4>2
      <4> HIDE DEF l
      <4> QED BY <3>2, <3>3, <3>6, <4>1, <4>2
    <3> HIDE DEF l
    <3>10. Fine(r, Append(k, line))
      BY <2>4, <3>1, <3>3, <3>6, <3>8, <3>9
    <3> HIDE DEF Fine
    <3> QED BY <2>2, <3>7, <3>10 DEF r
  <2> HIDE DEF Fine
  <2> QED BY <2>3, <2>5, <2>6
<1>12. n \in U
  <2> HIDE DEF U, n
  <2> QED BY <1>1, <1>10, <1>11, Induction
<1>13. Fine(read[n], kept[n])
  <2> HIDE DEF Fine, n
  <2> QED BY <1>1, <1>12
<1>14. Ats(read[n]) = AtsOf(file)
  BY <1>9, <1>13 DEF Ats
<1> QED BY <1>6, <1>13, <1>14

\* What the page hears of a queue, one message more.
LEMMA HearsOneMore ==
  ASSUME NEW h, NEW r, NEW S, NEW q \in Seq(S), HearsOut(h, r, q),
         NEW m, IsReplay(After(h[Len(q)], m))
  PROVE  \E h2 : /\ HearsOut(h2, r, Append(q, m))
                 /\ h2[Len(q) + 1] = After(h[Len(q)], m)
                 /\ \A i \in 0 .. Len(q) : h2[i] = h[i]
<1> DEFINE n == Len(q)
           e == After(h[n], m)
           h2 == [i \in 0 .. n + 1 |-> IF i = n + 1 THEN e ELSE h[i]]
           S2 == S \cup {m}
<1>1. /\ n \in Nat /\ Len(Append(q, m)) = n + 1 /\ Append(q, m)[n + 1] = m
      /\ \A i \in 1 .. n : Append(q, m)[i] = q[i]
  <2>1. m \in S2 /\ q \in Seq(S2)
    OBVIOUS
  <2> HIDE DEF S2
  <2> QED BY <2>1
<1>2. h2[n + 1] = e /\ \A i \in 0 .. n : h2[i] = h[i]
  <2> HIDE DEF n, e
  <2> QED BY <1>1
<1>3. h2 = [i \in 0 .. n + 1 |-> h2[i]]
  OBVIOUS
<1> HIDE DEF h2
<1>4. \A i \in 1 .. n + 1 : h2[i] = After(h2[i - 1], Append(q, m)[i])
  <2> TAKE i \in 1 .. n + 1
  <2>1. CASE i = n + 1
    <3>1. h2[i - 1] = h[n]
      BY <1>1, <1>2, <2>1
    <3> QED BY <1>1, <1>2, <2>1, <3>1
  <2>2. CASE i # n + 1
    <3>1. i \in 1 .. n /\ i - 1 \in 0 .. n /\ i \in 0 .. n
      BY <1>1, <2>2
    <3> QED BY <1>1, <1>2, <3>1 DEF HearsOut
  <2> QED BY <2>1, <2>2
<1>5. \A i \in 0 .. n + 1 : IsReplay(h2[i])
  <2>1. \A i \in 0 .. n + 1 : i = n + 1 \/ i \in 0 .. n
    BY <1>1
  <2> HIDE DEF n, e
  <2>2. IsReplay(e)
    BY DEF e, n
  <2>3. \A i \in 0 .. n : IsReplay(h[i])
    BY DEF HearsOut, n
  <2> QED BY <1>2, <2>1, <2>2, <2>3
<1>6. h2[0] = r
  BY <1>1, <1>2 DEF HearsOut
<1>7. HearsOut(h2, r, Append(q, m))
  <2> HIDE DEF n
  <2> QED BY <1>1, <1>3, <1>4, <1>5, <1>6 DEF HearsOut
<1> QED BY <1>2, <1>7

\* And one message less, which it has heard.
LEMMA HeardOne ==
  ASSUME NEW h, NEW r, NEW S, NEW q \in Seq(S), q # <<>>, HearsOut(h, r, q)
  PROVE  /\ h[1] = After(r, Head(q)) /\ IsReplay(h[1])
         /\ \E h2 : /\ HearsOut(h2, After(r, Head(q)), Tail(q))
                    /\ Len(q) = Len(Tail(q)) + 1 /\ Len(Tail(q)) \in Nat
                    /\ \A i \in 0 .. Len(Tail(q)) : h2[i] = h[i + 1]
<1> DEFINE n == Len(Tail(q))
           h2 == [i \in 0 .. n |-> h[i + 1]]
<1>1. /\ n \in Nat /\ Len(q) = n + 1 /\ Head(q) = q[1]
      /\ \A i \in 1 .. n : Tail(q)[i] = q[i + 1]
  OBVIOUS
<1>2. h[1] = After(r, Head(q)) /\ IsReplay(h[1])
  BY <1>1 DEF HearsOut
<1>3. h2 = [i \in 0 .. n |-> h2[i]] /\ \A i \in 0 .. n : h2[i] = h[i + 1]
  OBVIOUS
<1> HIDE DEF h2, n
<1>4. \A i \in 1 .. n : h2[i] = After(h2[i - 1], Tail(q)[i])
  <2> TAKE i \in 1 .. n
  <2>1. i \in 0 .. n /\ i - 1 \in 0 .. n /\ (i - 1) + 1 = i /\ i + 1 \in 1 .. Len(q) /\ (i + 1) - 1 = i
    BY <1>1
  <2> QED BY <1>1, <1>3, <2>1 DEF HearsOut
<1>5. \A i \in 0 .. n : IsReplay(h2[i])
  <2>1. \A i \in 0 .. n : i + 1 \in 0 .. Len(q)
    BY <1>1
  <2> QED BY <1>3, <2>1 DEF HearsOut
<1>6. h2[0] = h[1]
  BY <1>1, <1>3
<1>7. HearsOut(h2, After(r, Head(q)), Tail(q))
  BY <1>2, <1>3, <1>4, <1>5, <1>6 DEF HearsOut, n
<1> QED BY <1>1, <1>2, <1>3, <1>7 DEF n

\* A file is on its way to the page.
Opening(q, l) == l # {} \/ \E i \in DOMAIN q : q[i].name = "open"

\* A file is opened alone, and the bar knows lines there are.
Orders(q, l, w) ==
  /\ \A i \in DOMAIN q : q[i].name = "open" => Len(q) = 1 /\ l = {} /\ q[i].file \in Recordings
  /\ l # {} => q = <<>> /\ \E f \in Recordings : l = {f}
  /\ \A i \in DOMAIN q : q[i].name = "seek" => w = NoRecording \/ q[i].idx \in DOMAIN w.values

\* h ends where the worker is, and knows its lines as soon as it shows one.
Keeps(h, r, q, w, opening) ==
  /\ HearsOut(h, r, q)
  /\ Agree(h[Len(q)], w)
  /\ w # NoRecording => \A i \in 0 .. Len(q) : h[i].idx # NoReplayIdx => h[i].ats = Ats(w)
  /\ opening => \A i \in 0 .. Len(q) : ~h[i].done /\ h[i].idx = NoReplayIdx

Sound(w, tw, l, tp) ==
  /\ Recorded(w) /\ Orders(tw, l, w)
  /\ tw \in Seq(ToSet(tw)) /\ tp \in Seq(ToSet(tp))

InStep(r, w, tw, l, tp) == Sound(w, tw, l, tp) /\ \E h : Keeps(h, r, tp, w, Opening(tw, l))

AgreeInv == "merged" \notin trouble => InStep(replay, worker, toWorker, loading, toPage)

\* Sequences of anything.
LEMMA Queues ==
  ASSUME NEW q, q \in Seq(ToSet(q))
  PROVE  /\ \A m : Append(q, m) \in Seq(ToSet(Append(q, m)))
         /\ q # <<>> => Tail(q) \in Seq(ToSet(Tail(q)))
<1>1. ASSUME NEW m PROVE Append(q, m) \in Seq(ToSet(Append(q, m)))
  <2> DEFINE S == ToSet(q) \cup {m}
  <2>1. q \in Seq(S) /\ m \in S
    <3> DEFINE V == ToSet(q)
    <3>1. q \in Seq(V)
      OBVIOUS
    <3> HIDE DEF V
    <3> QED BY <3>1 DEF V
  <2> HIDE DEF S
  <2>2. Append(q, m) \in Seq(S)
    BY <2>1
  <2>3. ToSet(Append(q, m)) = S
    BY AppendSet DEF S
  <2> QED BY <2>2, <2>3
<1>2. ASSUME q # <<>> PROVE Tail(q) \in Seq(ToSet(Tail(q)))
  <2> DEFINE V == ToSet(q)
             s == Tail(q)
  <2>1. q \in Seq(V)
    OBVIOUS
  <2> HIDE DEF V
  <2>2. s \in Seq(V)
    BY <1>2, <2>1
  <2> HIDE DEF s
  <2>3. s = [i \in 1 .. Len(s) |-> s[i]] /\ Len(s) \in Nat /\ DOMAIN s = 1 .. Len(s)
    BY <2>2
  <2>4. \A i \in 1 .. Len(s) : s[i] \in ToSet(s)
    BY <2>3 DEF ToSet
  <2>5. s \in Seq(ToSet(s))
    BY <2>3, <2>4
  <2> QED BY <2>5 DEF s
<1> QED BY <1>1, <1>2

\* The worker says one thing more.
LEMMA Says ==
  ASSUME NEW h, NEW r, NEW S, NEW q \in Seq(S), NEW w, NEW op \in BOOLEAN, Keeps(h, r, q, w, op),
         NEW m, NEW w2, NEW op2 \in BOOLEAN,
         IsReplay(After(h[Len(q)], m)), Agree(After(h[Len(q)], m), w2),
         w2 # NoRecording =>
            /\ w # NoRecording /\ Ats(w2) = Ats(w)
            /\ After(h[Len(q)], m).idx # NoReplayIdx => After(h[Len(q)], m).ats = Ats(w2),
         op2 => op /\ ~After(h[Len(q)], m).done /\ After(h[Len(q)], m).idx = NoReplayIdx
  PROVE  \E h2 : Keeps(h2, r, Append(q, m), w2, op2)
<1> DEFINE e == After(h[Len(q)], m)
<1>1. PICK h2 : /\ HearsOut(h2, r, Append(q, m))
                /\ h2[Len(q) + 1] = e
                /\ \A i \in 0 .. Len(q) : h2[i] = h[i]
  <2>1. HearsOut(h, r, q)
    BY DEF Keeps
  <2> QED BY <2>1, HearsOneMore
<1>2. Len(Append(q, m)) = Len(q) + 1 /\ Len(q) \in Nat
  <2> DEFINE S2 == S \cup {m}
  <2>1. m \in S2 /\ q \in Seq(S2)
    OBVIOUS
  <2> HIDE DEF S2
  <2> QED BY <2>1
<1>3. \A i \in 0 .. Len(q) + 1 : i = Len(q) + 1 \/ i \in 0 .. Len(q)
  BY <1>2
<1> HIDE DEF e
<1>4. Agree(e, w2)
  BY DEF e
<1>5. ASSUME w2 # NoRecording, NEW i \in 0 .. Len(q) + 1, h2[i].idx # NoReplayIdx PROVE h2[i].ats = Ats(w2)
  <2>1. CASE i = Len(q) + 1
    BY <1>1, <1>5, <2>1 DEF e
  <2>2. CASE i \in 0 .. Len(q)
    BY <1>1, <1>5, <2>2 DEF Keeps
  <2> QED BY <1>3, <2>1, <2>2
<1>6. ASSUME op2, NEW i \in 0 .. Len(q) + 1 PROVE ~h2[i].done /\ h2[i].idx = NoReplayIdx
  <2>1. CASE i = Len(q) + 1
    BY <1>1, <1>6, <2>1 DEF e
  <2>2. CASE i \in 0 .. Len(q)
    BY <1>1, <1>6, <2>2 DEF Keeps
  <2> QED BY <1>3, <2>1, <2>2
<1>7. Keeps(h2, r, Append(q, m), w2, op2)
  BY <1>1, <1>2, <1>4, <1>5, <1>6 DEF Keeps
<1> QED BY <1>7

\* The page hears what was said first.
LEMMA Listens ==
  ASSUME NEW r, NEW w, NEW tw, NEW l, NEW tp, tp # <<>>, InStep(r, w, tw, l, tp)
  PROVE  InStep(After(r, Head(tp)), w, tw, l, Tail(tp))
<1> DEFINE q == Tail(tp)
           op == Opening(tw, l)
<1>1. tp \in Seq(ToSet(tp)) /\ Tail(tp) \in Seq(ToSet(Tail(tp)))
  BY Queues DEF InStep, Sound
<1>2. PICK h : Keeps(h, r, tp, w, op)
  BY DEF InStep
<1>3. PICK h2 : /\ HearsOut(h2, After(r, Head(tp)), q)
                /\ Len(tp) = Len(q) + 1 /\ Len(q) \in Nat
                /\ \A i \in 0 .. Len(q) : h2[i] = h[i + 1]
  <2> DEFINE V == ToSet(tp)
  <2>1. HearsOut(h, r, tp) /\ tp \in Seq(V)
    BY <1>1, <1>2 DEF Keeps
  <2> HIDE DEF V
  <2> QED BY <2>1, HeardOne
<1> HIDE DEF q, op
<1>4. \A i \in 0 .. Len(q) : i + 1 \in 0 .. Len(tp)
  BY <1>3
<1>5. Keeps(h2, After(r, Head(tp)), q, w, op)
  BY <1>2, <1>3, <1>4 DEF Keeps
<1> QED BY <1>1, <1>5 DEF InStep, Sound, q, op

\* The user asks for something else than a file.
LEMMA Asked ==
  ASSUME NEW r, NEW w, NEW tw, NEW l, NEW tp, InStep(r, w, tw, l, tp), r.done,
         NEW m, m.name # "open", m.name = "seek" => w = NoRecording \/ m.idx \in DOMAIN w.values
  PROVE  InStep(r, w, Append(tw, m), l, tp)
<1>1. PICK h : Keeps(h, r, tp, w, Opening(tw, l))
  BY DEF InStep
<1>2. Len(tp) \in Nat
  BY DEF InStep, Sound
<1>3. h[0].done
  BY <1>1 DEF Keeps, HearsOut
<1>4. ~Opening(tw, l)
  BY <1>1, <1>2, <1>3 DEF Keeps
<1>5. /\ DOMAIN Append(tw, m) = 1 .. Len(tw) + 1 /\ DOMAIN tw = 1 .. Len(tw) /\ Len(tw) \in Nat
      /\ Append(tw, m)[Len(tw) + 1] = m
      /\ \A i \in 1 .. Len(tw) : Append(tw, m)[i] = tw[i]
  <2> DEFINE S == ToSet(tw) \cup {m}
  <2>1. tw \in Seq(ToSet(tw))
    BY DEF InStep, Sound
  <2>2. tw \in Seq(S) /\ m \in S
    <3> DEFINE V == ToSet(tw)
    <3>1. tw \in Seq(V)
      BY <2>1
    <3> HIDE DEF V
    <3> QED BY <3>1 DEF V
  <2> HIDE DEF S
  <2> QED BY <2>2
<1>6. \A i \in DOMAIN Append(tw, m) : (i \in DOMAIN tw /\ Append(tw, m)[i] = tw[i]) \/ Append(tw, m)[i] = m
  <2>1. \A i \in 1 .. Len(tw) + 1 : i \in 1 .. Len(tw) \/ i = Len(tw) + 1
    BY <1>5
  <2> QED BY <1>5, <2>1
<1>7. ~Opening(Append(tw, m), l)
  BY <1>4, <1>6 DEF Opening
<1>8. Orders(Append(tw, m), l, w)
  <2>1. Orders(tw, l, w)
    BY DEF InStep, Sound
  <2> QED BY <1>4, <1>6, <2>1 DEF Orders, Opening
<1>9. Append(tw, m) \in Seq(ToSet(Append(tw, m)))
  BY Queues DEF InStep, Sound
<1>10. Keeps(h, r, tp, w, Opening(Append(tw, m), l))
  BY <1>1, <1>7 DEF Keeps
<1> QED BY <1>8, <1>9, <1>10 DEF InStep, Sound

\* The user asks for a file, of a page and a worker that have nothing to tell.
LEMMA AskedToOpen ==
  ASSUME NEW r, NEW w, InStep(r, w, <<>>, {}, <<>>), ~r.done, NEW file \in Recordings
  PROVE  InStep(r, w, <<[name |-> "open", file |-> file]>>, {}, <<>>)
<1> DEFINE m == [name |-> "open", file |-> file]
           q == <<m>>
<1>1. PICK h : Keeps(h, r, <<>>, w, Opening(<<>>, {}))
  BY DEF InStep
<1>2. h[0] = r /\ Len(<<>>) = 0
  BY <1>1 DEF Keeps, HearsOut
<1>3. r.idx = NoReplayIdx
  BY <1>1, <1>2 DEF Keeps, Agree
<1>4. Keeps(h, r, <<>>, w, Opening(q, {}))
  BY <1>1, <1>2, <1>3 DEF Keeps
<1>5. q \in Seq(ToSet(q)) /\ DOMAIN q = {1} /\ Len(q) = 1 /\ q[1] = m
  <2> HIDE DEF m
  <2>1. ToSet(q) = {m}
    BY DEF ToSet
  <2> QED BY <2>1
<1>6. Orders(q, {}, w)
  <2> HIDE DEF q
  <2>1. \A i \in DOMAIN q : q[i] = m
    BY <1>5
  <2> QED BY <1>5, <2>1 DEF Orders
<1> QED BY <1>4, <1>5, <1>6 DEF InStep, Sound

\* A message that was taken leaves the others.
LEMMA Taken ==
  ASSUME NEW r, NEW w, NEW tw, NEW l, NEW tp, InStep(r, w, tw, l, tp), tw # <<>>
  PROVE  /\ l = {} /\ Orders(Tail(tw), l, w) /\ Tail(tw) \in Seq(ToSet(Tail(tw)))
         /\ ~Opening(Tail(tw), l)
         /\ Opening(tw, l) <=> Head(tw).name = "open"
         /\ Head(tw).name = "open" => Tail(tw) = <<>> /\ Head(tw).file \in Recordings
         /\ Head(tw).name = "seek" => w = NoRecording \/ Head(tw).idx \in DOMAIN w.values
<1> DEFINE V == ToSet(tw)
<1>1. tw \in Seq(V) /\ Orders(tw, l, w)
  BY DEF InStep, Sound
<1>2. Tail(tw) \in Seq(ToSet(Tail(tw)))
  BY Queues DEF InStep, Sound
<1> HIDE DEF V
<1>3. /\ Len(tw) \in Nat /\ DOMAIN tw = 1 .. Len(tw) /\ 1 \in DOMAIN tw /\ Head(tw) = tw[1]
      /\ DOMAIN Tail(tw) = 1 .. Len(tw) - 1
      /\ \A i \in 1 .. Len(tw) - 1 : i + 1 \in DOMAIN tw /\ Tail(tw)[i] = tw[i + 1]
  BY <1>1
<1>4. l = {}
  BY <1>1 DEF Orders
<1>5. \A i \in DOMAIN Tail(tw) : i + 1 \in DOMAIN tw /\ Tail(tw)[i] = tw[i + 1]
  BY <1>3
<1>6. \A i \in DOMAIN Tail(tw) : Tail(tw)[i].name # "open"
  <2> SUFFICES ASSUME NEW i \in DOMAIN Tail(tw), Tail(tw)[i].name = "open" PROVE FALSE
    OBVIOUS
  <2>1. Len(tw) = 1
    BY <1>1, <1>5 DEF Orders
  <2> QED BY <1>3, <2>1
<1>7. Orders(Tail(tw), l, w)
  BY <1>1, <1>4, <1>5, <1>6 DEF Orders
<1>8. Opening(tw, l) => Head(tw).name = "open"
  <2> SUFFICES ASSUME NEW i \in DOMAIN tw, tw[i].name = "open" PROVE tw[1].name = "open"
    BY <1>3, <1>4 DEF Opening
  <2>1. Len(tw) = 1
    BY <1>1 DEF Orders
  <2> QED BY <1>3, <2>1
<1>9. Head(tw).name = "open" => Tail(tw) = <<>>
  <2> SUFFICES ASSUME tw[1].name = "open" PROVE Tail(tw) = <<>>
    BY <1>3
  <2>1. Len(tw) = 1
    BY <1>1, <1>3 DEF Orders
  <2> QED BY <1>1, <2>1
<1> QED BY <1>1, <1>2, <1>3, <1>4, <1>6, <1>7, <1>8, <1>9 DEF Orders, Opening

\* The worker goes to a line, if there is one.
LEMMA Goes ==
  ASSUME NEW r, NEW w, NEW tw, NEW l, NEW tp, InStep(r, w, tw, l, tp), tw # <<>>,
         Head(tw).name # "open", NEW w1, NEW idx, NEW clear,
         \/ w1 = w
         \/ w1 = [w EXCEPT !.current = NoCurrent] /\ (w = NoRecording \/ idx \in DOMAIN w.values)
  PROVE  IF InRange(w1, idx)
         THEN InStep(r, BuildDelta(w1, idx).worker, Tail(tw), l, Append(tp, DeltaMessage(w1, idx, clear)))
         ELSE InStep(r, w1, Tail(tw), l, tp)
<1>1. PICK h : Keeps(h, r, tp, w, Opening(tw, l))
  BY DEF InStep
<1>2. /\ Recorded(w) /\ IsRecord(w) /\ tp \in Seq(ToSet(tp)) /\ Orders(Tail(tw), l, w)
      /\ Tail(tw) \in Seq(ToSet(Tail(tw))) /\ ~Opening(Tail(tw), l) /\ ~Opening(tw, l)
  BY Taken DEF InStep, Sound, Recorded
<1>3. IsRecord(w1) /\ w1.values = w.values /\ (w = NoRecording => w1 = NoRecording)
  BY <1>2 DEF IsRecord, NoRecording
<1>4. CASE ~InRange(w1, idx)
  <2>1. w1 = w
    BY <1>3, <1>4 DEF InRange
  <2>2. Keeps(h, r, tp, w, Opening(Tail(tw), l))
    BY <1>1, <1>2 DEF Keeps
  <2> QED BY <1>2, <1>4, <2>1, <2>2 DEF InStep, Sound
<1>5. CASE InRange(w1, idx)
  <2> DEFINE w2 == BuildDelta(w1, idx).worker
             m == DeltaMessage(w1, idx, clear)
             e == After(h[Len(tp)], m)
  <2>1. /\ Recorded(w2) /\ w2.values = w1.values /\ w2.current.idx = idx
        /\ Ats(w2) = Ats(w1) /\ w2 # NoRecording
    BY <1>3, <1>5, BuiltKeeps DEF InRange
  <2>2. w # NoRecording
    BY <1>3, <1>5 DEF InRange, NoRecording
  <2>3. m.name = "delta" /\ m.idx = idx
    BY DEF DeltaMessage
  <2> HIDE DEF w2, m
  <2>4. Ats(w2) = Ats(w)
    BY <1>3, <2>1 DEF Ats
  <2>5. IsReplay(h[Len(tp)]) /\ Agree(h[Len(tp)], w)
    <3>1. Len(tp) \in Nat
      BY <1>2
    <3> QED BY <1>1, <3>1 DEF Keeps, HearsOut
  <2>6. h[Len(tp)].done /\ h[Len(tp)].ats = Ats(w)
    BY <2>2, <2>5 DEF Agree
  <2>7. e = [h[Len(tp)] EXCEPT !.idx = idx]
    BY <2>3 DEF After
  <2>8. IsReplay(e) /\ e.done /\ e.ats = Ats(w2) /\ e.idx = w2.current.idx
    BY <2>1, <2>4, <2>5, <2>6, <2>7 DEF IsReplay
  <2> HIDE DEF e
  <2>9. Agree(e, w2)
    BY <2>8 DEF Agree
  <2> DEFINE V == ToSet(tp)
  <2>10. tp \in Seq(V)
    BY <1>2
  <2> HIDE DEF V
  <2>11. \E h2 : Keeps(h2, r, Append(tp, m), w2, Opening(Tail(tw), l))
    <3>1. Opening(tw, l) \in BOOLEAN /\ Opening(Tail(tw), l) \in BOOLEAN
      BY DEF Opening
    <3> QED BY <1>1, <1>2, <2>2, <2>4, <2>8, <2>9, <2>10, <3>1, Says DEF e
  <2>12. Orders(Tail(tw), l, w2)
    BY <1>2, <1>3, <2>1, <2>2 DEF Orders
  <2>13. Append(tp, m) \in Seq(ToSet(Append(tp, m)))
    BY <1>2, Queues
  <2> QED BY <1>2, <1>5, <2>1, <2>11, <2>12, <2>13 DEF InStep, Sound, w2, m
<1> QED BY <1>4, <1>5

\* The worker forgets its recording, and says so when it had one.
LEMMA Forgets ==
  ASSUME NEW r, NEW w, NEW tw, NEW l, NEW tp, InStep(r, w, tw, l, tp), tw # <<>>,
         Head(tw).name # "open"
  PROVE  InStep(r, Cleared(w), Tail(tw), l, tp \o ClearedMessage(w))
<1>1. PICK h : Keeps(h, r, tp, w, Opening(tw, l))
  BY DEF InStep
<1>2. /\ Recorded(w) /\ IsRecord(w) /\ tp \in Seq(ToSet(tp)) /\ Orders(Tail(tw), l, w)
      /\ Tail(tw) \in Seq(ToSet(Tail(tw))) /\ ~Opening(Tail(tw), l) /\ ~Opening(tw, l)
  BY Taken DEF InStep, Sound, Recorded
<1> DEFINE V == ToSet(tp)
<1>3. tp \in Seq(V)
  BY <1>2
<1> HIDE DEF V
<1>4. CASE w.current.idx = NoIdx
  <2>1. Cleared(w) = w /\ ClearedMessage(w) = <<>> /\ tp \o <<>> = tp
    BY <1>3, <1>4 DEF Cleared, ClearedMessage
  <2>2. Keeps(h, r, tp, w, Opening(Tail(tw), l))
    BY <1>1, <1>2 DEF Keeps
  <2> QED BY <1>2, <2>1, <2>2 DEF InStep, Sound
<1>5. CASE w.current.idx # NoIdx
  <2> DEFINE m == [name |-> "cleared"]
             e == After(h[Len(tp)], m)
  <2>1. Cleared(w) = NoRecording /\ tp \o ClearedMessage(w) = Append(tp, m)
    <3>1. Cleared(w) = NoRecording /\ ClearedMessage(w) = <<m>>
      BY <1>5 DEF Cleared, ClearedMessage
    <3> DEFINE S == V \cup {m}
    <3>2. tp \in Seq(S) /\ m \in S
      BY <1>3
    <3> HIDE DEF S, m
    <3> QED BY <3>1, <3>2
  <2>2. e = NoReplay
    BY DEF After
  <2>3. IsReplay(e) /\ ~e.done /\ Agree(e, NoRecording)
    <3> HIDE DEF e
    <3>1. e.done = FALSE /\ e.idx = NoReplayIdx /\ IsReplay(e)
      BY <2>2 DEF NoReplay, IsReplay
    <3> QED BY <3>1 DEF Agree
  <2> HIDE DEF e, m
  <2>4. \E h2 : Keeps(h2, r, Append(tp, m), NoRecording, Opening(Tail(tw), l))
    <3>1. Opening(tw, l) \in BOOLEAN /\ Opening(Tail(tw), l) \in BOOLEAN
      BY DEF Opening
    <3> QED BY <1>1, <1>2, <1>3, <2>3, <3>1, Says DEF e
  <2>5. Recorded(NoRecording)
    <3>1. ToSet(<<>>) = {}
      BY DEF ToSet
    <3> QED BY <3>1 DEF Recorded, IsRecord, NoRecording
  <2>6. Orders(Tail(tw), l, NoRecording)
    BY <1>2 DEF Orders
  <2>7. Append(tp, m) \in Seq(ToSet(Append(tp, m)))
    BY <1>2, Queues
  <2> QED BY <1>2, <2>1, <2>4, <2>5, <2>6, <2>7 DEF InStep, Sound
<1> QED BY <1>4, <1>5

\* The worker reads a file: it has none, and says that it begins.
LEMMA Begins ==
  ASSUME NEW r, NEW w, NEW tw, NEW l, NEW tp, InStep(r, w, tw, l, tp), tw # <<>>,
         Head(tw).name = "open"
  PROVE  InStep(r, Cleared(w), Tail(tw), l \cup {Head(tw).file},
                Append(tp \o ClearedMessage(w), [name |-> "progress", elapsed |-> 0]))
<1> DEFINE m == [name |-> "progress", elapsed |-> 0]
           f == Head(tw).file
           V == ToSet(tp)
<1>1. PICK h : Keeps(h, r, tp, w, Opening(tw, l))
  BY DEF InStep
<1>2. /\ Recorded(w) /\ tp \in Seq(V) /\ l = {} /\ Tail(tw) = <<>> /\ f \in Recordings /\ Opening(tw, l)
  BY Taken DEF InStep, Sound
<1> HIDE DEF V
<1>3. IsReplay(h[Len(tp)]) /\ ~h[Len(tp)].done /\ h[Len(tp)].idx = NoReplayIdx /\ w = NoRecording
  <2>1. Len(tp) \in Nat
    BY <1>2
  <2> QED BY <1>1, <1>2, <2>1 DEF Keeps, HearsOut, Agree
<1>4. Cleared(w) = w /\ ClearedMessage(w) = <<>> /\ tp \o <<>> = tp
  BY <1>2, <1>3 DEF Cleared, ClearedMessage, NoRecording, NoCurrent, NoIdx
<1> DEFINE e1 == After(h[Len(tp)], m)
<1>5. e1 = [h[Len(tp)] EXCEPT !.progress = 0, !.done = @ \/ FALSE]
  <2>1. m.name = "progress" /\ m.elapsed = 0
    OBVIOUS
  <2> HIDE DEF m
  <2> QED BY <2>1 DEF After
<1>6. IsReplay(e1) /\ ~e1.done /\ e1.idx = NoReplayIdx
  BY <1>3, <1>5 DEF IsReplay
<1> HIDE DEF e1, m
<1>7. Agree(e1, w)
  BY <1>3, <1>6 DEF Agree
<1>8. Opening(<<>>, {f})
  BY DEF Opening
<1>9. \E h2 : Keeps(h2, r, Append(tp, m), w, Opening(<<>>, {f}))
  <2>1. Opening(tw, l) \in BOOLEAN /\ Opening(<<>>, {f}) \in BOOLEAN
    BY DEF Opening
  <2> QED BY <1>1, <1>2, <1>3, <1>6, <1>7, <2>1, Says DEF e1
<1>10. Orders(<<>>, {f}, w) /\ <<>> \in Seq(ToSet(<<>>))
  BY <1>2 DEF Orders
<1>11. Append(tp, m) \in Seq(ToSet(Append(tp, m)))
  BY <1>2, Queues DEF V
<1>12. l \cup {f} = {f}
  BY <1>2
<1> QED BY <1>2, <1>4, <1>9, <1>10, <1>11, <1>12 DEF InStep, Sound, m

\* The file that was being read is there: what the page hears of it ends where the worker is.
LEMMA Loads ==
  ASSUME NEW r, NEW w, NEW tw, NEW l, NEW tp, InStep(r, w, tw, l, tp),
         NEW file \in Recordings, file \in l, NEW w2, NEW dl,
         \/ /\ InRange(ReadFile(w, file), NextIdx(ReadFile(w, file)))
            /\ w2 = BuildDelta(ReadFile(w, file), NextIdx(ReadFile(w, file))).worker
         \/ /\ ~InRange(ReadFile(w, file), NextIdx(ReadFile(w, file)))
            /\ w2 = ReadFile(w, file)
  PROVE  InStep(r, w2, tw, l \ {file},
                tp \o << [name |-> "progress", elapsed |-> 50], [name |-> "progress", elapsed |-> 100],
                         [name |-> "opened", ats |-> AtsOf(file), delta |-> dl, idx |-> w2.current.idx] >>)
<1> DEFINE V == ToSet(tp)
           a == [name |-> "progress", elapsed |-> 50]
           b == [name |-> "progress", elapsed |-> 100]
           c == [name |-> "opened", ats |-> AtsOf(file), delta |-> dl, idx |-> w2.current.idx]
           n == Len(tp)
           S == V \cup {a, b, c}
           q == Append(Append(Append(tp, a), b), c)
<1>1. PICK h : Keeps(h, r, tp, w, Opening(tw, l))
  BY DEF InStep
<1>2. /\ Orders(tw, l, w) /\ tp \in Seq(V) /\ l = {file} /\ tw = <<>> /\ Opening(tw, l) /\ n \in Nat
  BY DEF InStep, Sound, Orders, Opening
<1> HIDE DEF V
<1>3. /\ \A i \in 0 .. n : ~h[i].done /\ h[i].idx = NoReplayIdx /\ IsReplay(h[i])
      /\ Agree(h[n], w) /\ HearsOut(h, r, tp)
  BY <1>1, <1>2 DEF Keeps, HearsOut
<1>4. w = NoRecording
  BY <1>2, <1>3 DEF Agree
<1> DEFINE read == ReadFile(NoRecording, file)
<1>5. /\ IsRecord(read) /\ read.current = NoCurrent /\ Ats(read) = AtsOf(file)
      /\ read.values = <<>> => read = NoRecording
  BY FileRead
<1> HIDE DEF read
<1>6. NextIdx(read) = 1
  BY <1>5 DEF NextIdx, NoCurrent, NoIdx
<1>7. Recorded(w2) /\ Ats(w2) = AtsOf(file)
  <2>1. CASE InRange(read, 1)
    <3>1. w2 = BuildDelta(read, 1).worker /\ 1 \in DOMAIN read.values
      BY <1>4, <1>6, <2>1 DEF read, InRange
    <3> QED BY <1>5, <3>1, BuiltKeeps
  <2>2. CASE ~InRange(read, 1)
    <3>1. w2 = read
      BY <1>4, <1>6, <2>2 DEF read
    <3>2. read.values \in Seq(ToSet(read.values)) /\ 1 \notin DOMAIN read.values
      BY <1>5, <2>2 DEF IsRecord, InRange
    <3>3. read.values = <<>>
      BY <3>2
    <3> QED BY <1>5, <3>1, <3>3 DEF Recorded
  <2> QED BY <2>1, <2>2
<1> DEFINE e1 == After(h[n], a)
           e2 == After(e1, b)
           e3 == After(e2, c)
<1>8. IsReplay(h[n]) /\ ~h[n].done /\ h[n].idx = NoReplayIdx
  BY <1>2, <1>3
<1>9. e1 = [h[n] EXCEPT !.progress = 50, !.done = @ \/ FALSE]
  <2>1. a.name = "progress" /\ a.elapsed = 50
    OBVIOUS
  <2> HIDE DEF a
  <2> QED BY <2>1 DEF After
<1>10. IsReplay(e1) /\ e1.idx = NoReplayIdx
  BY <1>8, <1>9 DEF IsReplay
<1> HIDE DEF e1
<1>11. e2 = [e1 EXCEPT !.progress = 100, !.done = @ \/ TRUE]
  <2>1. b.name = "progress" /\ b.elapsed = 100
    OBVIOUS
  <2> HIDE DEF b
  <2> QED BY <2>1 DEF After
<1>12. IsReplay(e2) /\ e2.done /\ e2.idx = NoReplayIdx
  BY <1>10, <1>11 DEF IsReplay
<1> HIDE DEF e2
<1>13. e3 = [e2 EXCEPT !.ats = AtsOf(file), !.idx = w2.current.idx]
  <2>1. c.name = "opened" /\ c.ats = AtsOf(file) /\ c.idx = w2.current.idx
    OBVIOUS
  <2> HIDE DEF c
  <2> QED BY <2>1 DEF After
<1>14. IsReplay(e3) /\ e3.done /\ e3.idx = w2.current.idx /\ e3.ats = AtsOf(file)
  BY <1>12, <1>13 DEF IsReplay
<1> HIDE DEF e3, a, b, c
<1>15. tp \in Seq(S) /\ a \in S /\ b \in S /\ c \in S
  BY <1>2
<1> HIDE DEF S
<1>16. /\ Append(tp, a) \in Seq(S) /\ Append(Append(tp, a), b) \in Seq(S) /\ q \in Seq(S)
       /\ Len(Append(tp, a)) = n + 1 /\ Len(Append(Append(tp, a), b)) = n + 2 /\ Len(q) = n + 3
       /\ q = tp \o <<a, b, c>>
  BY <1>15
<1>17. PICK h1 : HearsOut(h1, r, Append(tp, a)) /\ h1[n + 1] = e1 /\ \A i \in 0 .. n : h1[i] = h[i]
  BY <1>3, <1>10, <1>15, HearsOneMore DEF e1
<1>18. PICK h2 : /\ HearsOut(h2, r, Append(Append(tp, a), b)) /\ h2[n + 2] = e2
                 /\ \A i \in 0 .. n + 1 : h2[i] = h1[i]
  <2>1. h1[Len(Append(tp, a))] = e1
    BY <1>16, <1>17
  <2>2. After(h1[Len(Append(tp, a))], b) = e2
    BY <2>1 DEF e2
  <2>3. (n + 1) + 1 = n + 2
    BY <1>2
  <2>4. \E h2 : /\ HearsOut(h2, r, Append(Append(tp, a), b)) /\ h2[(n + 1) + 1] = e2
                /\ \A i \in 0 .. n + 1 : h2[i] = h1[i]
    <3> DEFINE p == Append(tp, a)
    <3> HIDE DEF p, n
    <3>1. p \in Seq(S) /\ HearsOut(h1, r, p) /\ IsReplay(After(h1[Len(p)], b)) /\ Len(p) = n + 1
          /\ After(h1[Len(p)], b) = e2
      BY <1>12, <1>16, <1>17, <2>2 DEF p
    <3>2. \E h2 : /\ HearsOut(h2, r, Append(p, b)) /\ h2[Len(p) + 1] = After(h1[Len(p)], b)
                  /\ \A i \in 0 .. Len(p) : h2[i] = h1[i]
      BY <3>1, HearsOneMore
    <3> QED BY <3>1, <3>2 DEF p
  <2> QED BY <2>3, <2>4
<1>19. PICK h3 : HearsOut(h3, r, q) /\ h3[n + 3] = e3 /\ \A i \in 0 .. n + 2 : h3[i] = h2[i]
  <2> DEFINE p == Append(Append(tp, a), b)
  <2> HIDE DEF p, n
  <2>1. Len(p) = n + 2 /\ n \in Nat /\ p \in Seq(S) /\ HearsOut(h2, r, p) /\ h2[Len(p)] = e2
    BY <1>2, <1>16, <1>18 DEF p
  <2>2. After(h2[Len(p)], c) = e3
    BY <2>1 DEF e3
  <2>3. \E h3 : /\ HearsOut(h3, r, Append(p, c)) /\ h3[Len(p) + 1] = After(h2[Len(p)], c)
                /\ \A i \in 0 .. Len(p) : h3[i] = h2[i]
    BY <1>14, <2>1, <2>2, HearsOneMore
  <2>4. Len(p) + 1 = n + 3
    BY <2>1
  <2> QED BY <2>1, <2>2, <2>3, <2>4 DEF p
<1> HIDE DEF q, n
<1>20. \A i \in 0 .. n + 3 : i = n + 3 \/ h3[i].idx = NoReplayIdx
  <2> TAKE i \in 0 .. n + 3
  <2>1. i \in 0 .. n \/ i = n + 1 \/ i = n + 2 \/ i = n + 3
    BY <1>2
  <2>2. CASE i \in 0 .. n
    <3>1. i \in 0 .. n + 1 /\ i \in 0 .. n + 2
      BY <1>2, <2>2
    <3> QED BY <1>3, <1>17, <1>18, <1>19, <2>2, <3>1
  <2>3. CASE i = n + 1
    <3>1. i \in 0 .. n + 1 /\ i \in 0 .. n + 2
      BY <1>2, <2>3
    <3> QED BY <1>10, <1>17, <1>18, <1>19, <2>3, <3>1
  <2>4. CASE i = n + 2
    <3>1. i \in 0 .. n + 2
      BY <1>2, <2>4
    <3> QED BY <1>12, <1>18, <1>19, <2>4, <3>1
  <2> QED BY <2>1, <2>2, <2>3, <2>4
<1>21. ~Opening(tw, l \ {file})
  BY <1>2 DEF Opening
<1>22. Agree(e3, w2)
  BY <1>7, <1>14 DEF Agree
<1>23. Keeps(h3, r, q, w2, Opening(tw, l \ {file}))
  BY <1>7, <1>14, <1>16, <1>19, <1>20, <1>21, <1>22 DEF Keeps
<1>24. Orders(tw, l \ {file}, w2) /\ tw \in Seq(ToSet(tw))
  BY <1>2 DEF Orders
<1>25. q \in Seq(ToSet(q))
  <2>1. tp \in Seq(ToSet(tp))
    BY <1>2 DEF V
  <2>2. Append(tp, a) \in Seq(ToSet(Append(tp, a)))
    BY <2>1, Queues
  <2>3. Append(Append(tp, a), b) \in Seq(ToSet(Append(Append(tp, a), b)))
    BY <2>2, Queues
  <2> QED BY <2>3, Queues DEF q
<1> QED BY <1>7, <1>16, <1>23, <1>24, <1>25 DEF InStep, Sound, a, b, c

---------------------------------------------------------------------------

\* Whatever the worker does, it keeps in step with the page.
LEMMA WorkerKeeps ==
  ASSUME InStep(replay, worker, toWorker, loading, toPage), WorkerStep, UNCHANGED replay
  PROVE  InStep(replay, worker, toWorker, loading, toPage)'
<1>1. CASE WorkerClear
  <2>1. toWorker # <<>> /\ Head(toWorker).name # "open"
    BY <1>1 DEF WorkerClear, Receives
  <2> QED BY <1>1, <2>1, Forgets DEF WorkerClear, Receives
<1>2. CASE WorkerOpen
  BY <1>2, Begins DEF WorkerOpen, Receives
<1>3. CASE WorkerNext
  <2>1. toWorker # <<>> /\ Head(toWorker).name # "open"
    BY <1>3 DEF WorkerNext, Receives
  <2> DEFINE idx == NextIdx(worker)
             w1 == worker
  <2>3. \/ w1 = worker
        \/ w1 = [worker EXCEPT !.current = NoCurrent] /\ (worker = NoRecording \/ idx \in DOMAIN worker.values)
    OBVIOUS
  <2>4. /\ IF InRange(w1, idx)
           THEN worker' = BuildDelta(w1, idx).worker /\ toPage' = Append(toPage, DeltaMessage(w1, idx, FALSE))
           ELSE worker' = w1 /\ toPage' = toPage
        /\ toWorker' = Tail(toWorker) /\ loading' = loading
    BY <1>3 DEF WorkerNext, Receives, GoTo
  <2> HIDE DEF idx, w1
  <2>5. IF InRange(w1, idx)
        THEN InStep(replay, BuildDelta(w1, idx).worker, Tail(toWorker), loading, Append(toPage, DeltaMessage(w1, idx, FALSE)))
        ELSE InStep(replay, w1, Tail(toWorker), loading, toPage)
    BY <2>1, <2>3, Goes
  <2> QED BY <2>4, <2>5
<1>4. CASE WorkerPrevious
  <2>1. toWorker # <<>> /\ Head(toWorker).name # "open"
    BY <1>4 DEF WorkerPrevious, Receives
  <2> DEFINE idx == PreviousIdx(worker)
             w1 == worker
  <2>3. \/ w1 = worker
        \/ w1 = [worker EXCEPT !.current = NoCurrent] /\ (worker = NoRecording \/ idx \in DOMAIN worker.values)
    OBVIOUS
  <2>4. /\ IF InRange(w1, idx)
           THEN worker' = BuildDelta(w1, idx).worker /\ toPage' = Append(toPage, DeltaMessage(w1, idx, FALSE))
           ELSE worker' = w1 /\ toPage' = toPage
        /\ toWorker' = Tail(toWorker) /\ loading' = loading
    BY <1>4 DEF WorkerPrevious, Receives, GoTo
  <2> HIDE DEF idx, w1
  <2>5. IF InRange(w1, idx)
        THEN InStep(replay, BuildDelta(w1, idx).worker, Tail(toWorker), loading, Append(toPage, DeltaMessage(w1, idx, FALSE)))
        ELSE InStep(replay, w1, Tail(toWorker), loading, toPage)
    BY <2>1, <2>3, Goes
  <2> QED BY <2>4, <2>5
<1>5. CASE WorkerSeek
  <2>1. toWorker # <<>> /\ Head(toWorker).name = "seek" /\ Head(toWorker).name # "open"
    BY <1>5 DEF WorkerSeek, Receives
  <2>2. worker = NoRecording \/ Head(toWorker).idx \in DOMAIN worker.values
    BY <2>1, Taken
  <2> DEFINE idx == Head(toWorker).idx
             w1 == [worker EXCEPT !.current = NoCurrent]
  <2>3. \/ w1 = worker
        \/ w1 = [worker EXCEPT !.current = NoCurrent] /\ (worker = NoRecording \/ idx \in DOMAIN worker.values)
    BY <2>2
  <2>4. /\ IF InRange(w1, idx)
           THEN worker' = BuildDelta(w1, idx).worker /\ toPage' = Append(toPage, DeltaMessage(w1, idx, TRUE))
           ELSE worker' = w1 /\ toPage' = toPage
        /\ toWorker' = Tail(toWorker) /\ loading' = loading
    BY <1>5 DEF WorkerSeek, Receives, GoTo
  <2> HIDE DEF idx, w1
  <2>5. IF InRange(w1, idx)
        THEN InStep(replay, BuildDelta(w1, idx).worker, Tail(toWorker), loading, Append(toPage, DeltaMessage(w1, idx, TRUE)))
        ELSE InStep(replay, w1, Tail(toWorker), loading, toPage)
    BY <2>1, <2>3, Goes
  <2> QED BY <2>4, <2>5
<1>6. CASE \E file \in Recordings : WorkerLoad(file)
  <2>1. PICK file \in Recordings : WorkerLoad(file)
    BY <1>6
  <2> DEFINE w == ReadFile(worker, file)
             next == NextIdx(w)
             built == IF InRange(w, next) THEN BuildDelta(w, next) ELSE [delta |-> NoDelta, worker |-> w]
  <2>2. /\ file \in loading /\ loading' = loading \ {file} /\ worker' = built.worker
        /\ toPage' = toPage \o
             << [name |-> "progress", elapsed |-> 50], [name |-> "progress", elapsed |-> 100],
                [name |-> "opened", ats |-> AtsOf(file), delta |-> built.delta,
                 idx |-> worker'.current.idx] >>
        /\ UNCHANGED toWorker
    BY <2>1 DEF WorkerLoad
  <2>3. \/ InRange(w, next) /\ worker' = BuildDelta(w, next).worker
        \/ ~InRange(w, next) /\ worker' = w
    BY <2>2
  <2> HIDE DEF built
  <2> QED BY <2>2, <2>3, Loads
<1> QED BY <1>1, <1>2, <1>3, <1>4, <1>5, <1>6 DEF WorkerStep, WorkerHandles

\* Whatever the page hears, it keeps in step with the worker.
LEMMA PageKeeps ==
  ASSUME InStep(replay, worker, toWorker, loading, toPage), PageHears
  PROVE  InStep(replay, worker, toWorker, loading, toPage)'
<1>1. toPage # <<>> /\ toPage' = Tail(toPage) /\ UNCHANGED <<worker, toWorker, loading>>
  BY DEF PageHears, OnWorkerCleared, OnWorkerDelta, OnWorkerOpened, OnWorkerProgress, Hears, HeardUnchanged
<1>2. replay' = After(replay, Head(toPage))
  BY DEF PageHears, OnWorkerCleared, OnWorkerDelta, OnWorkerOpened, OnWorkerProgress, Hears, After
<1> QED BY <1>1, <1>2, Listens

\* A line the bar points at is one the worker has, while it has any.
LEMMA LineOfTheBar ==
  ASSUME NEW r, NEW w, NEW tw, NEW l, NEW tp, InStep(r, w, tw, l, tp), r.idx # NoReplayIdx,
         NEW at \in ToSet(r.ats)
  PROVE  w = NoRecording \/ Hovered(r.ats, at) \in DOMAIN w.values
<1> SUFFICES ASSUME w # NoRecording PROVE Hovered(r.ats, at) \in DOMAIN w.values
  OBVIOUS
<1>1. PICK h : Keeps(h, r, tp, w, Opening(tw, l))
  BY DEF InStep
<1>2. h[0] = r /\ Len(tp) \in Nat
  BY <1>1 DEF Keeps, HearsOut, InStep, Sound
<1>3. r.ats = Ats(w)
  BY <1>1, <1>2 DEF Keeps
<1> DEFINE V == ToSet(w.values)
           I == {i \in DOMAIN r.ats : r.ats[i] = at}
<1>4. w.values \in Seq(V)
  BY DEF InStep, Sound, Recorded, IsRecord
<1>5. DOMAIN r.ats = DOMAIN w.values /\ DOMAIN w.values \subseteq Nat
  <2>1. DOMAIN w.values \subseteq Nat
    <3> HIDE DEF V
    <3> QED BY <1>4
  <2> QED BY <1>3, <2>1 DEF Ats
<1>6. I # {} /\ I \in SUBSET Nat
  BY <1>5 DEF ToSet
<1>7. Min(I) \in I
  <2> HIDE DEF I
  <2> QED BY <1>6, Least
<1> QED BY <1>5, <1>7 DEF Hovered

\* Whatever the user asks for.
LEMMA UserKeeps ==
  ASSUME InStep(replay, worker, toWorker, loading, toPage), User, "merged" \notin trouble'
  PROVE  InStep(replay, worker, toWorker, loading, toPage)'
<1>1. CASE OpenFile
  <2>1. PICK file \in Recordings :
           /\ ~replay.done
           /\ toWorker' = Append(toWorker, [name |-> "open", file |-> file])
           /\ UNCHANGED <<worker, loading, toPage, replay>>
           /\ trouble' = trouble \cup
                (IF loading # {} \/ toWorker # <<>> \/ toPage # <<>> \/ worker.values # <<>> THEN {"merged"} ELSE {})
    BY <1>1 DEF OpenFile, UserSends, Send
  <2>2. loading = {} /\ toWorker = <<>> /\ toPage = <<>>
    BY <2>1
  <2> DEFINE m == [name |-> "open", file |-> file]
  <2>3. toWorker' = <<m>>
    <3> HIDE DEF m
    <3>1. Append(<<>>, m) = <<m>>
      OBVIOUS
    <3> QED BY <2>1, <2>2, <3>1 DEF m
  <2> QED BY <2>1, <2>2, <2>3, AskedToOpen
<1>2. CASE ClearReplay
  <2>1. PICK m : /\ m.name = "clear" /\ replay.done
                 /\ toWorker' = Append(toWorker, m) /\ UNCHANGED <<worker, loading, toPage, replay>>
    BY <1>2 DEF ClearReplay, UserSends, Send
  <2> QED BY <2>1, Asked
<1>3. CASE Keys
  <2>1. PICK m : /\ m.name \in {"next", "previous"} /\ replay.done
                 /\ toWorker' = Append(toWorker, m) /\ UNCHANGED <<worker, loading, toPage, replay>>
    BY <1>3 DEF Keys, UserSends, Send
  <2> QED BY <2>1, Asked
<1>4. CASE SeekByBar
  <2>1. PICK at \in ToSet(replay.ats) :
           /\ replay.idx # NoReplayIdx /\ replay.done
           /\ toWorker' = Append(toWorker, [name |-> "seek", idx |-> Hovered(replay.ats, at)])
           /\ UNCHANGED <<worker, loading, toPage, replay>>
    BY <1>4 DEF SeekByBar, UserSends, Send
  <2>2. worker = NoRecording \/ Hovered(replay.ats, at) \in DOMAIN worker.values
    BY <2>1, LineOfTheBar
  <2> DEFINE m == [name |-> "seek", idx |-> Hovered(replay.ats, at)]
  <2>3. m.name = "seek" /\ m.idx = Hovered(replay.ats, at)
    OBVIOUS
  <2> HIDE DEF m
  <2>4. toWorker' = Append(toWorker, m)
    BY <2>1 DEF m
  <2> QED BY <2>1, <2>2, <2>3, <2>4, Asked
<1> QED BY <1>1, <1>2, <1>3, <1>4 DEF User

\* An empty page, and a worker without a recording.
LEMMA InitInStep == Init => AgreeInv
<1> SUFFICES ASSUME Init PROVE InStep(replay, worker, toWorker, loading, toPage)
  BY DEF AgreeInv
<1>1. worker = NoRecording /\ toWorker = <<>> /\ loading = {} /\ toPage = <<>> /\ replay = NoReplay
  BY DEF Init, WorkerInit
<1>2. ToSet(<<>>) = {} /\ Len(<<>>) = 0
  BY DEF ToSet
<1>3. Recorded(NoRecording)
  BY <1>2 DEF Recorded, IsRecord, NoRecording
<1>4. Sound(NoRecording, <<>>, {}, <<>>)
  BY <1>2, <1>3 DEF Sound, Orders
<1> DEFINE h == [i \in 0 .. 0 |-> NoReplay]
<1>5. IsReplay(NoReplay) /\ ~NoReplay.done /\ NoReplay.idx = NoReplayIdx
  BY DEF IsReplay, NoReplay
<1>6. h[0] = NoReplay /\ h = [i \in 0 .. 0 |-> h[i]] /\ \A i \in 0 .. 0 : i = 0
  OBVIOUS
<1> HIDE DEF h
<1>7. HearsOut(h, NoReplay, <<>>)
  BY <1>2, <1>5, <1>6 DEF HearsOut
<1>8. Keeps(h, NoReplay, <<>>, NoRecording, Opening(<<>>, {}))
  BY <1>2, <1>5, <1>6, <1>7 DEF Keeps, Agree, Opening
<1> QED BY <1>1, <1>4, <1>8 DEF InStep

\* No step of the page, the worker or the monitorer brings them out of step.
LEMMA NextInStep == AgreeInv /\ [Next]_vars => AgreeInv'
<1> SUFFICES ASSUME AgreeInv, [Next]_vars, "merged" \notin trouble'
             PROVE  InStep(replay, worker, toWorker, loading, toPage)'
  BY DEF AgreeInv
<1>1. CASE Mount \/ Answer \/ ReceiveAnswer \/ RequestRefused \/ RequestFails
  BY <1>1 DEF AgreeInv, Mount, Asks, Remains, Answer, ReceiveAnswer, RequestRefused, RequestFails, workerVars
<1>2. CASE PusherIsMade \/ SocketOpens \/ SocketCloses \/ ReceivePush
  BY <1>2 DEF AgreeInv, PusherIsMade, SocketOpens, SocketCloses, ReceivePush, workerVars
<1>3. CASE FlowMoves
  BY <1>3 DEF AgreeInv, FlowMoves, workerVars, pageVars
<1>4. CASE Push
  BY <1>4 DEF AgreeInv, Push, workerVars
<1>5. CASE User
  <2>1. "merged" \notin trouble
    BY <1>5 DEF User, OpenFile, ClearReplay, Keys, SeekByBar
  <2> QED BY <1>5, <2>1, UserKeeps DEF AgreeInv
<1>6. CASE WorkerMoves
  BY <1>6, WorkerKeeps DEF WorkerMoves, AgreeInv, pageVars
<1>7. CASE PageHears
  <2>1. "merged" \notin trouble
    BY <1>7 DEF PageHears, OnWorkerCleared, OnWorkerDelta, OnWorkerOpened, OnWorkerProgress, Asks, Remains
  <2> QED BY <1>7, <2>1, PageKeeps DEF AgreeInv
<1>8. CASE UNCHANGED vars
  BY <1>8 DEF AgreeInv, vars, workerVars, pageVars
<1> QED BY <1>1, <1>2, <1>3, <1>4, <1>5, <1>6, <1>7, <1>8 DEF Next

\* Whatever is recorded, however the user steps, seeks and clears, and in whatever order
\* messages cross between ReplayService.ts and replay.js: once neither has anything to
\* tell, they count the same lines and stand on the same one, unless a file was opened
\* while another one was on its way.
THEOREM PageAndWorkerAgreeHolds == Spec => []PageAndWorkerAgree
<1>1. AgreeInv => PageAndWorkerAgree
  <2> SUFFICES ASSUME AgreeInv, WorkerQuiet, "merged" \notin trouble
               PROVE  IF replay.done
                      THEN /\ replay.idx = worker.current.idx
                           /\ replay.ats = [i \in DOMAIN worker.values |-> worker.values[i].at]
                      ELSE worker = NoRecording /\ replay.idx = NoReplayIdx
    BY DEF PageAndWorkerAgree
  <2>1. PICK h : Keeps(h, replay, <<>>, worker, Opening(toWorker, loading))
    BY DEF AgreeInv, InStep, WorkerQuiet
  <2>2. Agree(replay, worker)
    BY <2>1 DEF Keeps, HearsOut
  <2> QED BY <2>2 DEF Agree, Ats
<1> QED BY <1>1, InitInStep, NextInStep, PTL DEF Spec
=============================================================================
