---------------------------- MODULE SequenceLemmas ----------------------------
(***************************************************************************)
(* What the operators on sequences that the models are built from return:   *)
(* those that are defined by recursion over the positions of a sequence are  *)
(* reasoned about by induction over the naturals, stated of sets.           *)
(***************************************************************************)
EXTENDS Integers, Sequences, SequencesExt, Selection, WellFoundedInduction, TLAPS

(* A set of naturals that holds zero and the successors of what it holds holds  *)
(* them all.                                                                  *)
LEMMA Induction ==
  ASSUME NEW T, 0 \in T, \A n \in Nat : n \in T => n + 1 \in T
  PROVE  Nat \subseteq T
<1> DEFINE Missing == Nat \ T
<1> SUFFICES ASSUME Missing # {} PROVE FALSE
  OBVIOUS
<1>1. PICK x \in Missing : \A y \in Missing : ~(<<y, x>> \in OpToRel(<, Nat))
  BY WFMin, NatLessThanWellFounded
<1>2. \A y \in Missing : ~(y < x)
  BY <1>1 DEF OpToRel
<1>3. x # 0 /\ x - 1 \in Nat
  OBVIOUS
<1> QED BY <1>2, <1>3

(* A set of naturals has its least element.                                   *)
LEMMA Least ==
  ASSUME NEW S \in SUBSET Nat, S # {}
  PROVE  Min(S) \in S /\ \A x \in S : Min(S) <= x
<1>1. PICK x \in S : \A y \in S : ~(<<y, x>> \in OpToRel(<, Nat))
  BY WFMin, NatLessThanWellFounded
<1>2. S \subseteq Nat /\ x \in Nat
  OBVIOUS
<1>3. \A y \in S : ~(y < x)
  BY <1>1, <1>2 DEF OpToRel
<1>4. \A y \in S : x <= y
  BY <1>2, <1>3
<1> QED BY <1>4 DEF Min

(* What is built from a base by as many steps as there are positions exists.   *)
Builds(g, V, base, n, step) ==
  g \in [0 .. n -> V] /\ g[0] = base /\ \A i \in 1 .. n : g[i] = step[i][g[i - 1]]

LEMMA Recursion ==
  ASSUME NEW V, NEW base \in V, NEW n \in Nat, NEW step \in [1 .. n -> [V -> V]]
  PROVE  \E g : Builds(g, V, base, n, step)
<1> DEFINE Built(g, m) == g[0] = base /\ \A i \in 1 .. m : g[i] = step[i][g[i - 1]]
           Fine(m) == m <= n => \E g \in [0 .. m -> V] : Built(g, m)
           T == {m \in Nat : Fine(m)}
<1>1. Fine(0)
  <2>1. Built([i \in 0 .. 0 |-> base], 0)
    OBVIOUS
  <2>2. [i \in 0 .. 0 |-> base] \in [0 .. 0 -> V]
    OBVIOUS
  <2> QED BY <2>1, <2>2
<1>2. ASSUME NEW m \in Nat, Fine(m), m + 1 <= n PROVE Fine(m + 1)
  <2>0. m <= n
    BY <1>2
  <2>1. PICK g \in [0 .. m -> V] : Built(g, m)
    BY <1>2, <2>0
  <2> DEFINE h == [i \in 0 .. m + 1 |-> IF i = m + 1 THEN step[m + 1][g[m]] ELSE g[i]]
  <2>2. step[m + 1][g[m]] \in V
    BY <1>2
  <2>3. h \in [0 .. m + 1 -> V]
    BY <2>2
  <2>4. Built(h, m + 1)
    <3>1. h[0] = base
      BY <2>1
    <3>2. \A i \in 1 .. m : h[i] = step[i][h[i - 1]]
      BY <2>1
    <3>3. h[m + 1] = step[m + 1][h[m]]
      OBVIOUS
    <3> HIDE DEF h
    <3> QED BY <3>1, <3>2, <3>3
  <2> QED BY <2>3, <2>4
<1>3. \A m \in Nat : m \in T => m + 1 \in T
  <2>1. ASSUME NEW m \in Nat, Fine(m) PROVE Fine(m + 1)
    <3>1. CASE m + 1 <= n
      <4> HIDE DEF Fine
      <4> QED BY <1>2, <2>1, <3>1
    <3> QED BY <3>1
  <2> HIDE DEF Fine
  <2> QED BY <2>1
<1>4. n \in T
  <2> HIDE DEF Fine
  <2>1. 0 \in T
    BY <1>1
  <2> HIDE DEF T
  <2> QED BY <1>3, <2>1, Induction
<1> QED BY <1>4 DEF Builds

LEMMA AppendSet ==
  ASSUME NEW S, NEW s \in Seq(S), NEW e
  PROVE  ToSet(Append(s, e)) = ToSet(s) \cup {e}
<1>1. /\ DOMAIN Append(s, e) = 1 .. Len(s) + 1 /\ DOMAIN s = 1 .. Len(s) /\ Len(s) \in Nat
      /\ \A i \in 1 .. Len(s) : Append(s, e)[i] = s[i]
      /\ Append(s, e)[Len(s) + 1] = e
  OBVIOUS
<1> QED BY <1>1 DEF ToSet

LEMMA ConcatSet ==
  ASSUME NEW V, NEW s \in Seq(V), NEW t \in Seq(V)
  PROVE  ToSet(s \o t) = ToSet(s) \cup ToSet(t)
<1>1. /\ DOMAIN (s \o t) = 1 .. Len(s) + Len(t) /\ DOMAIN s = 1 .. Len(s) /\ DOMAIN t = 1 .. Len(t)
      /\ Len(s) \in Nat /\ Len(t) \in Nat
      /\ \A i \in 1 .. Len(s) : (s \o t)[i] = s[i]
      /\ \A i \in 1 .. Len(t) : (s \o t)[Len(s) + i] = t[i]
      /\ \A i \in 1 .. Len(s) + Len(t) : i > Len(s) => (s \o t)[i] = t[i - Len(s)]
  OBVIOUS
<1>2. \A i \in 1 .. Len(s) + Len(t) : (s \o t)[i] \in ToSet(s) \cup ToSet(t)
  <2> TAKE i \in 1 .. Len(s) + Len(t)
  <2>1. CASE i <= Len(s)
    BY <1>1, <2>1 DEF ToSet
  <2>2. CASE i > Len(s)
    <3>1. i - Len(s) \in 1 .. Len(t)
      BY <1>1, <2>2
    <3> QED BY <1>1, <2>2, <3>1 DEF ToSet
  <2> QED BY <1>1, <2>1, <2>2
<1>3. \A i \in 1 .. Len(s) : s[i] \in ToSet(s \o t)
  BY <1>1 DEF ToSet
<1>4. \A i \in 1 .. Len(t) : t[i] \in ToSet(s \o t)
  <2> TAKE i \in 1 .. Len(t)
  <2>1. Len(s) + i \in 1 .. Len(s) + Len(t)
    BY <1>1
  <2> QED BY <1>1, <2>1 DEF ToSet
<1> QED BY <1>1, <1>2, <1>3, <1>4 DEF ToSet

(* Selected goes through the positions, and appends what belongs to the set.    *)
Selects(kept, V, S, s) ==
  /\ kept \in [0 .. Len(s) -> Seq(V)]
  /\ kept[0] = <<>>
  /\ \A i \in 1 .. Len(s) : kept[i] = IF s[i] \in S THEN Append(kept[i - 1], s[i]) ELSE kept[i - 1]
  /\ Selected(s, S) = kept[Len(s)]

LEMMA SelectedSteps ==
  ASSUME NEW V, NEW S, NEW s \in Seq(V)
  PROVE  \E kept : Selects(kept, V, S, s)
<1> DEFINE n == Len(s)
           W == Seq(V)
           Step(v, i) == IF s[i] \in S THEN Append(v, s[i]) ELSE v
           step == [i \in 1 .. n |-> [v \in W |-> Step(v, i)]]
           Body(g, i) == IF i = 0 THEN <<>> ELSE IF s[i] \in S THEN Append(g[i - 1], s[i]) ELSE g[i - 1]
           kept == CHOOSE g : g = [i \in 0 .. n |-> Body(g, i)]
<1>1. n \in Nat /\ <<>> \in W /\ \A i \in 1 .. n : s[i] \in V
  OBVIOUS
<1>2. kept = [i \in 0 .. n |-> Body(kept, i)]
  <2>1. step \in [1 .. n -> [W -> W]]
    OBVIOUS
  <2>2. \A i \in 1 .. n, v \in W : step[i][v] = Step(v, i)
    OBVIOUS
  <2>3. PICK g \in [0 .. n -> W] : g[0] = <<>> /\ \A i \in 1 .. n : g[i] = step[i][g[i - 1]]
    <3> HIDE DEF step, n, W
    <3>1. \E g : Builds(g, W, <<>>, n, step)
      BY <1>1, <2>1, Recursion
    <3> QED BY <3>1 DEF Builds
  <2>4. \A i \in 1 .. n : g[i] = Step(g[i - 1], i)
    <3> HIDE DEF step, n, W, Step
    <3>1. \A i \in 1 .. n : g[i - 1] \in W
      BY <1>1
    <3> QED BY <2>2, <2>3, <3>1
  <2>5. \A i \in 0 .. n : g[i] = Body(g, i)
    <3>1. \A i \in 0 .. n : i = 0 \/ i \in 1 .. n
      BY <1>1
    <3> HIDE DEF n, W
    <3> QED BY <2>3, <2>4, <3>1
  <2>6. g = [i \in 0 .. n |-> Body(g, i)]
    BY <2>5
  <2> QED BY <2>6
<1>3. Selected(s, S) = kept[n]
  BY DEF Selected
<1>4. kept[0] = <<>> /\ \A i \in 1 .. n : kept[i] = Step(kept[i - 1], i)
  <2> HIDE DEF kept
  <2>1. \A i \in 0 .. n : kept[i] = Body(kept, i)
    <3> HIDE DEF Body
    <3> QED BY <1>2
  <2> HIDE DEF n
  <2> QED BY <1>1, <2>1
<1>5. \A i \in 0 .. n : kept[i] \in W
  <2> HIDE DEF kept, W, Step
  <2> DEFINE T == {m \in Nat : m <= n => kept[m] \in W}
  <2>1. 0 \in T
    BY <1>1, <1>4
  <2>2. \A v \in W, i \in 1 .. n : Step(v, i) \in W
    BY <1>1 DEF Step, W
  <2>3. \A m \in Nat : m \in T => m + 1 \in T
    <3> SUFFICES ASSUME NEW m \in Nat, m \in T, m + 1 <= n PROVE kept[m + 1] \in W
      OBVIOUS
    <3>1. kept[m] \in W /\ m + 1 \in 1 .. n /\ (m + 1) - 1 = m
      BY <1>1
    <3> HIDE DEF T, n
    <3>2. kept[m + 1] = Step(kept[m], m + 1)
      BY <1>4, <3>1
    <3> QED BY <2>2, <3>1, <3>2
  <2> HIDE DEF T
  <2>4. Nat \subseteq T
    BY <2>1, <2>3, Induction
  <2> QED BY <1>1, <2>4 DEF T
<1>6. kept \in [0 .. n -> W]
  <2> HIDE DEF kept, W, n
  <2>1. DOMAIN kept = 0 .. n /\ kept = [i \in 0 .. n |-> kept[i]]
    BY <1>2
  <2> QED BY <1>5, <2>1
<1> HIDE DEF kept
<1> QED BY <1>3, <1>4, <1>6 DEF Selects

(* The sequence of the selected elements holds these and no others.            *)
LEMMA SelectedProperties ==
  ASSUME NEW V, NEW S, NEW s \in Seq(V)
  PROVE  /\ Selected(s, S) \in Seq(V \cap S)
         /\ ToSet(Selected(s, S)) = ToSet(s) \cap S
<1> DEFINE n == Len(s)
           Step(v, i) == IF s[i] \in S THEN Append(v, s[i]) ELSE v
<1>1. n \in Nat /\ \A i \in 1 .. n : s[i] \in V
  OBVIOUS
<1>2. PICK kept : Selects(kept, V, S, s)
  BY SelectedSteps
<1>3. Selected(s, S) = kept[n]
  BY <1>2 DEF Selects
<1>4. kept[0] = <<>> /\ \A i \in 1 .. n : kept[i] = Step(kept[i - 1], i)
  BY <1>2 DEF Selects
<1> DEFINE Upto(m) == {s[i] : i \in 1 .. m}
           Fine(m) == m <= n => kept[m] \in Seq(V \cap S) /\ ToSet(kept[m]) = Upto(m) \cap S
           T == {m \in Nat : Fine(m)}
<1>5. Fine(0)
  BY <1>4 DEF ToSet
<1>6. ASSUME NEW m \in Nat, Fine(m), m + 1 <= n PROVE Fine(m + 1)
  <2>1. kept[m + 1] = Step(kept[m], m + 1) /\ s[m + 1] \in V
    BY <1>1, <1>4, <1>6
  <2>2. Upto(m + 1) = Upto(m) \cup {s[m + 1]}
    OBVIOUS
  <2>3. kept[m] \in Seq(V \cap S) /\ ToSet(kept[m]) = Upto(m) \cap S
    BY <1>6
  <2>4. CASE s[m + 1] \in S
    <3> DEFINE k == kept[m]
               e == s[m + 1]
    <3>1. k \in Seq(V \cap S) /\ e \in V \cap S
      BY <2>1, <2>3, <2>4
    <3> HIDE DEF k, e
    <3>2. Append(k, e) \in Seq(V \cap S) /\ ToSet(Append(k, e)) = ToSet(k) \cup {e}
      BY <3>1, AppendSet
    <3> QED BY <2>1, <2>2, <2>3, <2>4, <3>1, <3>2 DEF k, e
  <2>5. CASE s[m + 1] \notin S
    BY <2>1, <2>2, <2>3, <2>5
  <2> QED BY <2>4, <2>5
<1>7. \A m \in Nat : m \in T => m + 1 \in T
  <2> SUFFICES ASSUME NEW m \in Nat, m \in T PROVE Fine(m + 1)
    <3> HIDE DEF Fine
    <3> QED OBVIOUS
  <2>1. Fine(m)
    OBVIOUS
  <2>2. m + 1 <= n => Fine(m + 1)
    <3> HIDE DEF Fine, T, n
    <3> QED BY <1>6, <2>1
  <2> QED BY <2>2
<1>8. n \in T
  <2> HIDE DEF Fine
  <2>1. 0 \in T
    BY <1>5
  <2> HIDE DEF T
  <2> QED BY <1>1, <1>7, <2>1, Induction
<1>9. Upto(n) = ToSet(s)
  BY DEF ToSet
<1> QED BY <1>1, <1>3, <1>8, <1>9

(* Sequences of a kind that is closed under concatenation flatten to one of it, *)
(* with the elements of each.                                                 *)
LEMMA FlattenProperties ==
  ASSUME NEW V, NEW C \in SUBSET Seq(V), <<>> \in C, \A a, b \in C : a \o b \in C,
         NEW seqs \in Seq(C)
  PROVE  /\ FlattenSeq(seqs) \in C
         /\ ToSet(FlattenSeq(seqs)) = UNION {ToSet(seqs[i]) : i \in DOMAIN seqs}
<1> DEFINE n == Len(seqs)
           step == [i \in 1 .. n |-> [v \in C |-> v \o seqs[i]]]
           Body(g, i) == IF i = 1 THEN seqs[i] ELSE g[i - 1] \o seqs[i]
           flat == CHOOSE g : g = [i \in 1 .. n |-> Body(g, i)]
<1>1. n \in Nat /\ DOMAIN seqs = 1 .. n /\ \A i \in 1 .. n : seqs[i] \in C /\ seqs[i] \in Seq(V)
  OBVIOUS
<1>2. flat = [i \in 1 .. n |-> Body(flat, i)]
  <2>1. step \in [1 .. n -> [C -> C]]
    BY <1>1
  <2>2. PICK g : Builds(g, C, <<>>, n, step)
    <3> HIDE DEF step, n
    <3> QED BY <1>1, <2>1, Recursion
  <2>3. \A i \in 1 .. n : i - 1 \in 0 .. n /\ g[i - 1] \in C
    <3>1. \A i \in 1 .. n : i - 1 \in 0 .. n
      BY <1>1
    <3> HIDE DEF n, step
    <3> QED BY <2>2, <3>1 DEF Builds
  <2>4. \A i \in 1 .. n : g[i] = g[i - 1] \o seqs[i]
    BY <2>2, <2>3 DEF Builds
  <2>5. n >= 1 => g[1] = seqs[1]
    <3>1. g[0] = <<>>
      BY <2>2 DEF Builds
    <3>2. n >= 1 => seqs[1] \in Seq(V) /\ g[1] = g[0] \o seqs[1]
      BY <1>1, <2>4
    <3>3. n >= 1 => <<>> \o seqs[1] = seqs[1]
      BY <3>2
    <3> QED BY <3>1, <3>2, <3>3
  <2> DEFINE h == [i \in 1 .. n |-> g[i]]
  <2>6. \A i \in 1 .. n : h[i] = Body(h, i)
    <3>1. \A i \in 1 .. n : i = 1 \/ i - 1 \in 1 .. n
      BY <1>1
    <3>2. \A i \in 1 .. n : h[i] = g[i]
      OBVIOUS
    <3> HIDE DEF h, n, step
    <3>3. \A i \in 1 .. n : i # 1 => h[i] = h[i - 1] \o seqs[i]
      BY <2>4, <3>1, <3>2
    <3>4. 1 \in 1 .. n => n >= 1
      BY <1>1
    <3> QED BY <2>5, <3>2, <3>3, <3>4
  <2>7. h = [i \in 1 .. n |-> Body(h, i)]
    <3> HIDE DEF Body
    <3> QED BY <2>6
  <2> QED BY <2>7
<1>3. CASE n = 0
  <2>1. seqs = <<>> /\ FlattenSeq(seqs) = seqs
    BY <1>3 DEF FlattenSeq
  <2> QED BY <2>1 DEF ToSet
<1>4. CASE n # 0
  <2>1. FlattenSeq(seqs) = flat[n]
    BY <1>4 DEF FlattenSeq
  <2>2. \A i \in 1 .. n : flat[i] = Body(flat, i)
    <3> HIDE DEF flat, Body
    <3> QED BY <1>2
  <2>10. \A i \in 1 .. n : i # 1 => flat[i] = flat[i - 1] \o seqs[i]
    <3> HIDE DEF flat
    <3> QED BY <2>2
  <2> HIDE DEF flat
  <2> DEFINE Upto(m) == UNION {ToSet(seqs[i]) : i \in 1 .. m}
             Fine(m) == m + 1 <= n => flat[m + 1] \in C /\ ToSet(flat[m + 1]) = Upto(m + 1)
             T == {m \in Nat : Fine(m)}
  <2>3. Fine(0)
    <3>1. flat[1] = seqs[1] /\ seqs[1] \in C
      BY <1>1, <1>4, <2>2
    <3>2. Upto(1) = ToSet(seqs[1])
      OBVIOUS
    <3> QED BY <3>1, <3>2
  <2>4. ASSUME NEW m \in Nat, Fine(m) PROVE Fine(m + 1)
    <3>1. CASE m + 2 <= n
      <4>1. flat[m + 2] = flat[m + 1] \o seqs[m + 2]
        <5> DEFINE k == m + 2
        <5>1. k \in 1 .. n /\ k # 1 /\ k - 1 = m + 1
          BY <1>1, <3>1
        <5>2. flat[k] = flat[m + 1] \o seqs[k]
          <6> HIDE DEF n, k
          <6> QED BY <2>10, <5>1
        <5> QED BY <5>2
      <4>2. flat[m + 1] \in C /\ ToSet(flat[m + 1]) = Upto(m + 1)
        BY <1>1, <2>4, <3>1
      <4>3. seqs[m + 2] \in C
        BY <1>1, <3>1
      <4>4. ToSet(flat[m + 1] \o seqs[m + 2]) = ToSet(flat[m + 1]) \cup ToSet(seqs[m + 2])
        <5>1. flat[m + 1] \in Seq(V) /\ seqs[m + 2] \in Seq(V)
          BY <4>2, <4>3
        <5> QED BY <5>1, ConcatSet
      <4>5. Upto(m + 2) = Upto(m + 1) \cup ToSet(seqs[m + 2])
        <5>1. 1 .. m + 2 = (1 .. m + 1) \cup {m + 2}
          OBVIOUS
        <5> QED BY <5>1
      <4>6. m + 1 + 1 = m + 2
        OBVIOUS
      <4> HIDE DEF Upto
      <4> QED BY <4>1, <4>2, <4>3, <4>4, <4>5, <4>6
    <3>2. CASE ~(m + 2 <= n)
      BY <1>1, <3>2
    <3> QED BY <3>1, <3>2
  <2>5. \A m \in Nat : m \in T => m + 1 \in T
    <3> HIDE DEF Fine
    <3> QED BY <2>4
  <2>6. Nat \subseteq T
    <3> HIDE DEF Fine
    <3>1. 0 \in T
      BY <2>3
    <3> HIDE DEF T
    <3> QED BY <2>5, <3>1, Induction
  <2>7. n - 1 \in Nat /\ n - 1 + 1 = n
    BY <1>1, <1>4
  <2>8. Fine(n - 1)
    <3> HIDE DEF Fine, n
    <3> QED BY <2>6, <2>7
  <2>9. flat[n] \in C /\ ToSet(flat[n]) = Upto(n)
    BY <2>7, <2>8
  <2> QED BY <1>1, <2>1, <2>9
<1> QED BY <1>3, <1>4

-----------------------------------------------------------------------------
(* How often an element occurs *)

Absent(s, e) == \A i \in DOMAIN s : s[i] # e
OnlyAt(s, i, e) == i \in DOMAIN s /\ \A j \in DOMAIN s : s[j] = e <=> j = i
Single(s, e) == \E i : OnlyAt(s, i, e)

LEMMA AppendOccurs ==
  ASSUME NEW V, NEW s \in Seq(V), NEW x, NEW e
  PROVE  /\ x # e /\ Absent(s, e) => Absent(Append(s, x), e)
         /\ x # e /\ Single(s, e) => Single(Append(s, x), e)
         /\ x = e /\ Absent(s, e) => Single(Append(s, x), e)
<1> DEFINE n == Len(s)
           a == Append(s, x)
<1>1. /\ n \in Nat /\ DOMAIN a = 1 .. n + 1 /\ DOMAIN s = 1 .. n
      /\ \A i \in 1 .. n : a[i] = s[i]
      /\ a[n + 1] = x
  OBVIOUS
<1>2. \A i \in 1 .. n + 1 : i \in 1 .. n \/ i = n + 1
  BY <1>1
<1>3. \A i \in 1 .. n : i \in 1 .. n + 1 /\ i # n + 1
  BY <1>1
<1>4. n + 1 \in 1 .. n + 1
  BY <1>1
<1> HIDE DEF n, a
<1>5. x # e /\ Absent(s, e) => Absent(a, e)
  BY <1>1, <1>2 DEF Absent
<1>6. ASSUME x # e, Single(s, e) PROVE Single(a, e)
  <2>1. PICK i : OnlyAt(s, i, e)
    BY <1>6 DEF Single
  <2>2. \A j \in 1 .. n + 1 : a[j] = e <=> j = i
    BY <1>1, <1>2, <1>3, <1>6, <2>1 DEF OnlyAt
  <2>3. OnlyAt(a, i, e)
    BY <1>1, <1>3, <2>1, <2>2 DEF OnlyAt
  <2> QED BY <2>3 DEF Single
<1>7. ASSUME x = e, Absent(s, e) PROVE Single(a, e)
  <2>1. \A j \in 1 .. n + 1 : a[j] = e <=> j = n + 1
    BY <1>1, <1>2, <1>3, <1>7 DEF Absent
  <2>2. OnlyAt(a, n + 1, e)
    BY <1>1, <1>4, <2>1 DEF OnlyAt
  <2> QED BY <2>2 DEF Single
<1> QED BY <1>5, <1>6, <1>7 DEF a

LEMMA ConcatOccurs ==
  ASSUME NEW V, NEW s \in Seq(V), NEW t \in Seq(V), NEW e
  PROVE  /\ Absent(s, e) /\ Absent(t, e) => Absent(s \o t, e)
         /\ Single(s, e) /\ Absent(t, e) => Single(s \o t, e)
         /\ Absent(s, e) /\ Single(t, e) => Single(s \o t, e)
<1> DEFINE n == Len(s)
           m == Len(t)
           a == s \o t
<1>1. /\ n \in Nat /\ m \in Nat /\ DOMAIN a = 1 .. n + m /\ DOMAIN s = 1 .. n /\ DOMAIN t = 1 .. m
      /\ \A i \in 1 .. n : a[i] = s[i]
      /\ \A i \in 1 .. n + m : i > n => a[i] = t[i - n]
  OBVIOUS
<1>2. \A i \in 1 .. n + m : i \in 1 .. n \/ (i > n /\ i - n \in 1 .. m)
  BY <1>1
<1>3. /\ \A i \in 1 .. n : i \in 1 .. n + m /\ ~(i > n)
      /\ \A i \in 1 .. m : n + i \in 1 .. n + m /\ n + i > n /\ (n + i) - n = i
  BY <1>1
<1>4. \A i \in 1 .. m, j \in 1 .. n + m : j - n = i <=> j = n + i
  BY <1>1
<1> HIDE DEF n, m, a
<1>5. Absent(s, e) /\ Absent(t, e) => Absent(a, e)
  BY <1>1, <1>2 DEF Absent
<1>6. ASSUME Single(s, e), Absent(t, e) PROVE Single(a, e)
  <2>1. PICK i : OnlyAt(s, i, e)
    BY <1>6 DEF Single
  <2>2. \A j \in 1 .. n + m : a[j] = e <=> j = i
    BY <1>1, <1>2, <1>3, <1>6, <2>1 DEF Absent, OnlyAt
  <2>3. OnlyAt(a, i, e)
    BY <1>1, <1>3, <2>1, <2>2 DEF OnlyAt
  <2> QED BY <2>3 DEF Single
<1>7. ASSUME Absent(s, e), Single(t, e) PROVE Single(a, e)
  <2>1. PICK i : OnlyAt(t, i, e)
    BY <1>7 DEF Single
  <2>2. \A j \in 1 .. n + m : a[j] = e <=> j = n + i
    <3> TAKE j \in 1 .. n + m
    <3>1. CASE j \in 1 .. n
      BY <1>1, <1>3, <1>7, <2>1, <3>1 DEF Absent, OnlyAt
    <3>2. CASE j > n /\ j - n \in 1 .. m
      BY <1>1, <1>4, <2>1, <3>2 DEF OnlyAt
    <3> QED BY <1>2, <3>1, <3>2
  <2>3. OnlyAt(a, n + i, e)
    BY <1>1, <1>3, <2>1, <2>2 DEF OnlyAt
  <2> QED BY <2>3 DEF Single
<1> QED BY <1>5, <1>6, <1>7 DEF a

(* What is selected occurs as often as before, and what is not never.          *)
LEMMA SelectedOccurs ==
  ASSUME NEW V, NEW s \in Seq(V), NEW S, NEW e
  PROVE  /\ e \notin S \/ Absent(s, e) => Absent(Selected(s, S), e)
         /\ e \in S /\ Single(s, e) => Single(Selected(s, S), e)
<1>1. ASSUME e \notin S \/ Absent(s, e) PROVE Absent(Selected(s, S), e)
  <2>1. ToSet(Selected(s, S)) = ToSet(s) \cap S
    BY SelectedProperties
  <2>2. e \notin ToSet(Selected(s, S))
    BY <1>1, <2>1 DEF Absent, ToSet
  <2> QED BY <2>2 DEF Absent, ToSet
<1>2. ASSUME e \in S, Single(s, e) PROVE Single(Selected(s, S), e)
  <2> DEFINE n == Len(s)
             NoneUpto(m) == \A j \in 1 .. m : s[j] # e
             OneUpto(m) == \E i \in 1 .. m : \A j \in 1 .. m : s[j] = e <=> j = i
  <2>1. PICK kept : Selects(kept, V, S, s)
    BY SelectedSteps
  <2>2. /\ n \in Nat /\ kept[0] = <<>> /\ Selected(s, S) = kept[n]
        /\ \A i \in 0 .. n : kept[i] \in Seq(V)
        /\ \A i \in 1 .. n : kept[i] = IF s[i] \in S THEN Append(kept[i - 1], s[i]) ELSE kept[i - 1]
    BY <2>1 DEF Selects
  <2> DEFINE Fine(m) == m <= n =>
               (NoneUpto(m) => Absent(kept[m], e)) /\ (OneUpto(m) => Single(kept[m], e))
             T == {m \in Nat : Fine(m)}
  <2>3. Fine(0)
    BY <2>2 DEF Absent
  <2>4. ASSUME NEW m \in Nat, Fine(m), m + 1 <= n PROVE Fine(m + 1)
    <3> DEFINE x == s[m + 1]
    <3>0. m <= n /\ m + 1 \in 1 .. n /\ m \in 0 .. n /\ (m + 1) - 1 = m
      BY <2>2, <2>4
    <3>1. /\ kept[m] \in Seq(V)
          /\ kept[m + 1] = IF x \in S THEN Append(kept[m], x) ELSE kept[m]
      <4> HIDE DEF n
      <4> QED BY <2>2, <3>0
    <3>2. (NoneUpto(m) => Absent(kept[m], e)) /\ (OneUpto(m) => Single(kept[m], e))
      BY <2>4, <3>0
    <3>3. NoneUpto(m + 1) => NoneUpto(m) /\ x # e
      BY <2>4
    <3>4. OneUpto(m + 1) => (NoneUpto(m) /\ x = e) \/ (OneUpto(m) /\ x # e)
      <4> SUFFICES ASSUME OneUpto(m + 1) PROVE (NoneUpto(m) /\ x = e) \/ (OneUpto(m) /\ x # e)
        OBVIOUS
      <4>1. PICK i \in 1 .. m + 1 : \A j \in 1 .. m + 1 : s[j] = e <=> j = i
        OBVIOUS
      <4>2. \A j \in 1 .. m : j \in 1 .. m + 1 /\ j # m + 1
        BY <2>4
      <4>3. i = m + 1 \/ i \in 1 .. m
        BY <2>4
      <4>4. m + 1 \in 1 .. m + 1
        BY <2>4
      <4> QED BY <4>1, <4>2, <4>3, <4>4
    <3> HIDE DEF x, NoneUpto, OneUpto, n
    <3>5. /\ x # e /\ Absent(kept[m], e) => Absent(Append(kept[m], x), e)
          /\ x # e /\ Single(kept[m], e) => Single(Append(kept[m], x), e)
          /\ x = e /\ Absent(kept[m], e) => Single(Append(kept[m], x), e)
      BY <3>1, AppendOccurs
    <3> QED BY <1>2, <3>1, <3>2, <3>3, <3>4, <3>5
  <2>5. \A m \in Nat : m \in T => m + 1 \in T
    <3> SUFFICES ASSUME NEW m \in Nat, Fine(m) PROVE Fine(m + 1)
      <4> HIDE DEF Fine
      <4> QED OBVIOUS
    <3>1. m + 1 <= n => Fine(m + 1)
      <4> HIDE DEF Fine, n
      <4> QED BY <2>4
    <3> QED BY <3>1
  <2>6. n \in T
    <3> HIDE DEF Fine
    <3>1. 0 \in T
      BY <2>3
    <3> HIDE DEF T
    <3> QED BY <2>2, <2>5, <3>1, Induction
  <2>7. OneUpto(n)
    BY <1>2 DEF Single, OnlyAt
  <2>8. n <= n
    BY <2>2
  <2> QED BY <2>2, <2>6, <2>7, <2>8
<1> QED BY <1>1, <1>2

---------------------------------------------------------------------------
(* Lists that name everything once, and lists of records with ids.         *)

\* What is selected from a list that names everything once names everything once.
LEMMA SelectedOnce ==
  ASSUME NEW V, NEW s \in Seq(V), NEW S, IsInjective(s)
  PROVE  IsInjective(Selected(s, S))
<1> DEFINE q == Selected(s, S)
<1>1. q \in Seq(V \cap S) /\ ToSet(q) = ToSet(s) \cap S
  BY SelectedProperties
<1>2. DOMAIN q = 1 .. Len(q) /\ Len(q) \in Nat
  BY <1>1
<1>3. ASSUME NEW i \in DOMAIN q, NEW j \in DOMAIN q, q[i] = q[j] PROVE i = j
  <2> DEFINE e == q[i]
  <2>1. e \in S /\ e \in ToSet(s)
    <3>1. e \in ToSet(q)
      BY DEF ToSet
    <3> QED BY <1>1, <3>1
  <2>2. PICK k \in DOMAIN s : s[k] = e
    BY <2>1 DEF ToSet
  <2>3. OnlyAt(s, k, e)
    BY <2>2 DEF OnlyAt, IsInjective
  <2>4. Single(q, e)
    <3> HIDE DEF e
    <3>1. Single(s, e)
      BY <2>3 DEF Single
    <3> QED BY <2>1, <3>1, SelectedOccurs
  <2> HIDE DEF q
  <2> QED BY <1>3, <2>4 DEF Single, OnlyAt
<1> HIDE DEF q
<1>4. IsInjective(q)
  BY <1>3 DEF IsInjective
<1> QED BY <1>4 DEF q

\* Two lists that have nothing in common, one after the other.
LEMMA ConcatOnce ==
  ASSUME NEW V, NEW s \in Seq(V), NEW t \in Seq(V), IsInjective(s), IsInjective(t),
         ToSet(s) \cap ToSet(t) = {}
  PROVE  IsInjective(s \o t)
<1> DEFINE n == Len(s)
           m == Len(t)
           a == s \o t
<1>1. /\ n \in Nat /\ m \in Nat /\ DOMAIN a = 1 .. n + m /\ DOMAIN s = 1 .. n /\ DOMAIN t = 1 .. m
      /\ \A i \in 1 .. n : a[i] = s[i]
      /\ \A i \in 1 .. n + m : i > n => a[i] = t[i - n]
  OBVIOUS
<1>2. \A i \in 1 .. n + m : i \in 1 .. n \/ (i > n /\ i - n \in 1 .. m)
  BY <1>1
<1>3. \A i, j \in 1 .. n + m : i - n = j - n => i = j
  BY <1>1
<1> HIDE DEF n, m, a
<1>4. \A i \in 1 .. n, j \in 1 .. m : s[i] # t[j]
  BY <1>1 DEF ToSet
<1>5. ASSUME NEW i \in 1 .. n + m, NEW j \in 1 .. n + m, a[i] = a[j] PROVE i = j
  <2>1. CASE i \in 1 .. n /\ j \in 1 .. n
    BY <1>1, <1>5, <2>1 DEF IsInjective
  <2>2. CASE (i > n /\ i - n \in 1 .. m) /\ (j > n /\ j - n \in 1 .. m)
    BY <1>1, <1>3, <1>5, <2>2 DEF IsInjective
  <2>3. CASE i \in 1 .. n /\ (j > n /\ j - n \in 1 .. m)
    BY <1>1, <1>4, <1>5, <2>3
  <2>4. CASE j \in 1 .. n /\ (i > n /\ i - n \in 1 .. m)
    BY <1>1, <1>4, <1>5, <2>4
  <2> QED BY <1>2, <2>1, <2>2, <2>3, <2>4
<1> QED BY <1>1, <1>5 DEF a, IsInjective

\* A new element appended to such a list.
LEMMA AppendOnce ==
  ASSUME NEW V, NEW s \in Seq(V), NEW e \in V, IsInjective(s), e \notin ToSet(s)
  PROVE  IsInjective(Append(s, e))
<1> DEFINE n == Len(s)
           a == Append(s, e)
<1>1. /\ n \in Nat /\ DOMAIN a = 1 .. n + 1 /\ DOMAIN s = 1 .. n
      /\ \A i \in 1 .. n : a[i] = s[i]
      /\ a[n + 1] = e
  OBVIOUS
<1>2. \A i \in 1 .. n + 1 : i \in 1 .. n \/ i = n + 1
  BY <1>1
<1> HIDE DEF n, a
<1>3. \A i \in 1 .. n : s[i] # e
  BY <1>1 DEF ToSet
<1>4. ASSUME NEW i \in 1 .. n + 1, NEW j \in 1 .. n + 1, a[i] = a[j] PROVE i = j
  BY <1>1, <1>2, <1>3, <1>4 DEF IsInjective
<1> QED BY <1>1, <1>4 DEF a, IsInjective

\* The ids of the elements of a list, and that no two have the same.
IdsOf(list)    == {list[i].id : i \in DOMAIN list}
Distinct(list) == \A i, j \in DOMAIN list : list[i].id = list[j].id => i = j

\* The ids of a list are those of its elements.
LEMMA IdsOfSet ==
  ASSUME NEW s
  PROVE  IdsOf(s) = {x.id : x \in ToSet(s)}
BY DEF IdsOf, ToSet

\* Elements that differ by their ids are listed once.
LEMMA DistinctOnce ==
  ASSUME NEW s, Distinct(s)
  PROVE  /\ IsInjective(s)
         /\ \A x, y \in ToSet(s) : x.id = y.id => x = y
BY DEF Distinct, IsInjective, ToSet

\* And elements that are listed once, and that no two ids share, differ by them.
LEMMA OnceDistinct ==
  ASSUME NEW s, IsInjective(s), \A x, y \in ToSet(s) : x.id = y.id => x = y
  PROVE  Distinct(s)
<1> SUFFICES ASSUME NEW i \in DOMAIN s, NEW j \in DOMAIN s, s[i].id = s[j].id PROVE i = j
  BY DEF Distinct
<1>1. s[i] \in ToSet(s) /\ s[j] \in ToSet(s)
  BY DEF ToSet
<1>2. s[i] = s[j]
  BY <1>1
<1> QED BY <1>2 DEF IsInjective

\* What is selected keeps ids apart.
LEMMA SelectedDistinct ==
  ASSUME NEW V, NEW s \in Seq(V), NEW S, Distinct(s)
  PROVE  /\ Selected(s, S) \in Seq(V)
         /\ Distinct(Selected(s, S))
         /\ IdsOf(Selected(s, S)) = {x.id : x \in ToSet(s) \cap S}
<1>1. Selected(s, S) \in Seq(V \cap S) /\ ToSet(Selected(s, S)) = ToSet(s) \cap S
  BY SelectedProperties
<1>2. IsInjective(s) /\ \A x, y \in ToSet(s) : x.id = y.id => x = y
  BY DistinctOnce
<1>3. IsInjective(Selected(s, S))
  BY <1>2, SelectedOnce
<1>4. Selected(s, S) \in Seq(V)
  BY <1>1
<1>5. Distinct(Selected(s, S))
  BY <1>1, <1>2, <1>3, OnceDistinct
<1>6. IdsOf(Selected(s, S)) = {x.id : x \in ToSet(Selected(s, S))}
  BY IdsOfSet
<1> QED BY <1>1, <1>4, <1>5, <1>6

\* Two lists that have no id in common, one after the other.
LEMMA ConcatDistinct ==
  ASSUME NEW V, NEW s \in Seq(V), NEW t \in Seq(V)
  PROVE  /\ s \o t \in Seq(V)
         /\ IdsOf(s \o t) = IdsOf(s) \cup IdsOf(t)
         /\ Distinct(s) /\ Distinct(t) /\ IdsOf(s) \cap IdsOf(t) = {} => Distinct(s \o t)
<1>1. s \o t \in Seq(V)
  OBVIOUS
<1>2. ToSet(s \o t) = ToSet(s) \cup ToSet(t)
  BY ConcatSet
<1>3. IdsOf(s \o t) = IdsOf(s) \cup IdsOf(t)
  <2>1. /\ IdsOf(s \o t) = {x.id : x \in ToSet(s \o t)}
        /\ IdsOf(s) = {x.id : x \in ToSet(s)} /\ IdsOf(t) = {x.id : x \in ToSet(t)}
    BY IdsOfSet
  <2> QED BY <1>2, <2>1
<1>4. ASSUME Distinct(s), Distinct(t), IdsOf(s) \cap IdsOf(t) = {} PROVE Distinct(s \o t)
  <2>1. /\ IsInjective(s) /\ \A x, y \in ToSet(s) : x.id = y.id => x = y
        /\ IsInjective(t) /\ \A x, y \in ToSet(t) : x.id = y.id => x = y
    BY <1>4, DistinctOnce
  <2>2. \A x \in ToSet(s), y \in ToSet(t) : x.id # y.id
    <3>1. IdsOf(s) = {x.id : x \in ToSet(s)} /\ IdsOf(t) = {x.id : x \in ToSet(t)}
      BY IdsOfSet
    <3> QED BY <1>4, <3>1
  <2>3. ToSet(s) \cap ToSet(t) = {}
    BY <2>2
  <2>4. IsInjective(s \o t)
    BY <2>1, <2>3, ConcatOnce
  <2>5. \A x, y \in ToSet(s \o t) : x.id = y.id => x = y
    BY <1>2, <2>1, <2>2
  <2> QED BY <2>4, <2>5, OnceDistinct
<1> QED BY <1>1, <1>3, <1>4

\* A list made of another, element by element, with its ids.
LEMMA SameIds ==
  ASSUME NEW s, NEW t, DOMAIN s = DOMAIN t, \A i \in DOMAIN s : s[i].id = t[i].id
  PROVE  IdsOf(s) = IdsOf(t) /\ (Distinct(s) => Distinct(t))
BY DEF IdsOf, Distinct

\* A record of another id may be added.
LEMMA AppendDistinct ==
  ASSUME NEW V, NEW s \in Seq(V), NEW e \in V, Distinct(s), e.id \notin IdsOf(s)
  PROVE  /\ Append(s, e) \in Seq(V) /\ Distinct(Append(s, e))
         /\ IdsOf(Append(s, e)) = IdsOf(s) \cup {e.id}
<1>1. /\ Len(s) \in Nat /\ DOMAIN s = 1 .. Len(s) /\ DOMAIN Append(s, e) = 1 .. Len(s) + 1
      /\ Append(s, e)[Len(s) + 1] = e /\ \A i \in 1 .. Len(s) : Append(s, e)[i] = s[i]
      /\ Append(s, e) \in Seq(V)
  OBVIOUS
<1> DEFINE a == Append(s, e)
           n == Len(s)
<1> HIDE DEF a, n
<1>2. \A i \in DOMAIN a : (i \in DOMAIN s /\ a[i] = s[i]) \/ (i = n + 1 /\ a[i] = e)
  BY <1>1 DEF a, n
<1>3. n + 1 \in DOMAIN a /\ a[n + 1] = e /\ \A i \in DOMAIN s : i \in DOMAIN a /\ a[i] = s[i]
  BY <1>1 DEF a, n
<1>4. Distinct(a)
  BY <1>2 DEF Distinct, IdsOf
<1>5. IdsOf(a) = IdsOf(s) \cup {e.id}
  BY <1>2, <1>3 DEF IdsOf
<1> QED BY <1>1, <1>4, <1>5 DEF a
=============================================================================
