--------------------------- MODULE CircListProofs ---------------------------
(***************************************************************************)
(* The pointers of the lists form rings with one head each, every ring is  *)
(* the sequence that Lists tells, and a loop visits what it should, for    *)
(* any number of heads and elements.  Rings of pointers alone are not      *)
(* inductive: joining two heads of a same ring would break it, and cutting *)
(* a ring at an element of another one would mix them.  What is inductive  *)
(* gives each node its place in a list, and spells the lists.              *)
(***************************************************************************)
EXTENDS CircListRefinement, CircListRingLemmas, WellFoundedInduction,
        FiniteSetTheorems, SequenceTheorems

(* q[h] spells the elements of the head h, by their places.                *)
Spells(q, S, own, pos, len) ==
  /\ q \in [Heads -> Seq(Elts)]
  /\ \A h \in Heads : Len(q[h]) = len[h]
  /\ \A h \in Heads : \A i \in 1 .. len[h] :
       q[h][i] \in S /\ own[q[h][i]] = h /\ pos[q[h][i]] = i

Ordered(l, S, q) ==
  \E own, pos, len : Placed(l, S, own, pos, len) /\ Spells(q, S, own, pos, len)

(* A set of numbers that is not empty has a least one.                     *)
LEMMA Smallest ==
  ASSUME NEW T \in SUBSET Nat, T # {}
  PROVE  \E x \in T : \A y \in T : x <= y
<1>1. PICK x \in T : \A y \in T : ~ (<<y, x>> \in OpToRel(<, Nat))
  BY WFMin, NatLessThanWellFounded
<1>2. \A y \in T : ~ (y < x)
  BY <1>1 DEF OpToRel
<1> QED BY <1>2

-----------------------------------------------------------------------------
(* The elements that a list spells, and their places.                      *)
Letter(q, S, own, pos, len, h, i) ==
  q[h][i] \in Elts \cap S /\ own[q[h][i]] = h /\ pos[q[h][i]] = i

LEMMA SpelledElement ==
  ASSUME NEW S, NEW own, NEW pos, NEW len, NEW q, Spells(q, S, own, pos, len),
         NEW h \in Heads, NEW i \in 1 .. len[h]
  PROVE  Letter(q, S, own, pos, len, h, i)
<1>1. q[h] \in Seq(Elts) /\ Len(q[h]) = len[h]
  BY DEF Spells
<1>2. q[h][i] \in Elts
  BY <1>1, ElementOfSeq
<1> QED BY <1>2 DEF Spells, Letter

(* An element with a head is spelled at its place.                         *)
Spelled(q, own, pos, len, n) == pos[n] \in 1 .. len[own[n]] /\ q[own[n]][pos[n]] = n

LEMMA PlaceIsSpelled ==
  ASSUME NEW S \in SUBSET Nodes, NEW l, Good(l, S), NEW own, NEW pos, NEW len, NEW q,
         Placed(l, S, own, pos, len), Spells(q, S, own, pos, len),
         NEW n \in Elts \cap S, own[n] # NoNode
  PROVE  Spelled(q, own, pos, len, n)
<1>1. own[n] \in Heads \cap S /\ pos[n] > 0
  BY PlacedElement
<1>2. pos[n] \in Nat /\ pos[n] <= len[own[n]] /\ len[own[n]] \in Nat
  BY <1>1 DEF Placed
<1>3. pos[n] \in 1 .. len[own[n]]
  BY <1>1, <1>2
<1>4. Letter(q, S, own, pos, len, own[n], pos[n])
  BY <1>1, <1>3, SpelledElement
<1>5. q[own[n]][pos[n]] = n
  BY <1>1, <1>4 DEF Placed, Letter
<1> QED BY <1>3, <1>5 DEF Spelled

(* A walk along next from a node.                                          *)
Walks(l, h, m) == {f \in [0 .. m -> Nodes] : f[0] = h /\ \A i \in 1 .. m : f[i] = l.next[f[i - 1]]}

LEMMA WalkExists ==
  ASSUME NEW l, l \in Links, NEW h \in Nodes, NEW m \in Nat
  PROVE  Walks(l, h, m) # {}
<1> DEFINE T == {k \in Nat : Walks(l, h, k) = {}}
<1>1. SUFFICES ASSUME T # {} PROVE FALSE
  OBVIOUS
<1>2. PICK x \in T : \A y \in T : x <= y
  BY <1>1, Smallest
<1>3. \A n \in Nodes : l.next[n] \in Nodes
  BY DEF Links
<1>4. CASE x = 0
  <2>1. [i \in 0 .. 0 |-> h] \in Walks(l, h, 0)
    BY DEF Walks
  <2> QED BY <1>4, <2>1
<1>5. CASE x # 0
  <2>1. x - 1 \in Nat /\ x - 1 \notin T
    BY <1>2, <1>5
  <2>2. PICK f : f \in Walks(l, h, x - 1)
    BY <2>1
  <2> DEFINE g == [i \in 0 .. x |-> IF i = x THEN l.next[f[x - 1]] ELSE f[i]]
  <2>3. f \in [0 .. x - 1 -> Nodes] /\ f[0] = h /\ \A i \in 1 .. x - 1 : f[i] = l.next[f[i - 1]]
    BY <2>2 DEF Walks
  <2>4. g \in [0 .. x -> Nodes] /\ g[0] = h
    BY <1>3, <1>5, <2>1, <2>3
  <2>5. \A i \in 1 .. x : g[i] = l.next[g[i - 1]]
    BY <1>5, <2>1, <2>3
  <2>6. g \in Walks(l, h, x)
    BY <2>4, <2>5 DEF Walks
  <2> QED BY <2>6
<1> QED BY <1>4, <1>5
(* The places of a list along next: the head, its elements, the head.      *)
At(q, len, h, i) == IF i \in 1 .. len[h] THEN q[h][i] ELSE h
NextInList(l, q, len, h, i) == l.next[At(q, len, h, i)] = At(q, len, h, i + 1)

LEMMA NextPlace ==
  ASSUME NEW S \in SUBSET Nodes, NEW l, Good(l, S), NEW own, NEW pos, NEW len, NEW q,
         Placed(l, S, own, pos, len), Spells(q, S, own, pos, len),
         NEW h \in Heads \cap S, NEW i \in 0 .. len[h]
  PROVE  NextInList(l, q, len, h, i)
<1> USE NodesAssumption
<1> DEFINE n == At(q, len, h, i)
<1>1. len[h] \in Nat /\ h # NoNode /\ own[h] = h /\ pos[h] = 0
  BY DEF Placed, Nodes
<1>2. n \in S /\ own[n] = h /\ pos[n] = i
  <2>1. CASE i = 0
    BY <1>1, <2>1 DEF At
  <2>2. CASE i # 0
    <3>1. i \in 1 .. len[h]
      BY <1>1, <2>2
    <3>2. Letter(q, S, own, pos, len, h, i)
      BY <3>1, SpelledElement
    <3> QED BY <3>1, <3>2 DEF At, Letter
  <2> QED BY <2>1, <2>2
<1> HIDE DEF n
<1>3. /\ own[l.next[n]] = h /\ l.next[n] \in S
      /\ pos[l.next[n]] = IF i = len[h] THEN 0 ELSE i + 1
  BY <1>1, <1>2 DEF Placed, Good, Ring
<1>4. CASE i = len[h]
  <2>1. l.next[n] = h
    BY <1>1, <1>3, <1>4 DEF Placed
  <2>2. At(q, len, h, i + 1) = h
    BY <1>1, <1>4 DEF At
  <2> QED BY <2>1, <2>2 DEF NextInList, n
<1>5. CASE i # len[h]
  <2>1. i + 1 \in 1 .. len[h]
    BY <1>1, <1>5
  <2>2. Letter(q, S, own, pos, len, h, i + 1)
    BY <2>1, SpelledElement
  <2>3. l.next[n] = q[h][i + 1]
    BY <1>1, <1>3, <1>5, <2>2 DEF Placed, Letter
  <2> QED BY <2>1, <2>3 DEF NextInList, n, At
<1> QED BY <1>4, <1>5

(* A list has no more elements than there are.                             *)
LEMMA ListIsBounded ==
  ASSUME NEW S \in SUBSET Nodes, NEW l, NEW own, NEW pos, NEW len, NEW q,
         Placed(l, S, own, pos, len), Spells(q, S, own, pos, len), NEW h \in Heads
  PROVE  len[h] \in Nat /\ len[h] <= N
<1>1. len[h] \in Nat /\ q[h] \in Seq(Elts) /\ Len(q[h]) = len[h]
  BY DEF Placed, Spells
<1>2. \A i \in 1 .. len[h] : Letter(q, S, own, pos, len, h, i)
  BY SpelledElement
<1>3. q[h] \in [1 .. len[h] -> Elts]
  BY <1>1
<1>4. \A i, j \in 1 .. len[h] : q[h][i] = q[h][j] => i = j
  BY <1>2 DEF Letter
<1>5. q[h] \in Injection(1 .. len[h], Elts)
  BY <1>3, <1>4 DEF Injection, IsInjective
<1>6. Cardinality(1 .. len[h]) <= Cardinality(Elts)
  BY <1>5, FS_Injection, BoundAssumption
<1>7. Cardinality(1 .. len[h]) = len[h]
  BY <1>1, FS_Interval
<1>8. Cardinality(Elts) \in Nat
  BY BoundAssumption, FS_CardinalityType
<1> QED BY <1>1, <1>6, <1>7, <1>8, BoundAssumption

(* A walk from a head follows its list.                                    *)
LEMMA WalkFollowsList ==
  ASSUME NEW S \in SUBSET Nodes, NEW l, Good(l, S), NEW own, NEW pos, NEW len, NEW q,
         Placed(l, S, own, pos, len), Spells(q, S, own, pos, len),
         NEW h \in Heads \cap S, NEW m \in Nat, NEW f, f \in Walks(l, h, m),
         NEW i \in 0 .. m, i <= len[h] + 1
  PROVE  f[i] = At(q, len, h, i)
<1> DEFINE T == {k \in 0 .. m : k <= len[h] + 1 /\ f[k] # At(q, len, h, k)}
<1>1. SUFFICES ASSUME T # {} PROVE FALSE
  OBVIOUS
<1>2. PICK x \in T : \A y \in T : x <= y
  <2>1. T \in SUBSET Nat
    OBVIOUS
  <2> HIDE DEF T
  <2> QED BY <1>1, <2>1, Smallest
<1>3. len[h] \in Nat /\ f[0] = h /\ \A k \in 1 .. m : f[k] = l.next[f[k - 1]]
  BY DEF Placed, Walks
<1>4. x # 0
  BY <1>3 DEF At
<1>5. x - 1 \in 0 .. m /\ x - 1 \in 0 .. len[h] /\ x \in 1 .. m
  BY <1>3, <1>4
<1>6. x - 1 \notin T
  BY <1>2
<1>7. f[x - 1] = At(q, len, h, x - 1)
  BY <1>3, <1>5, <1>6
<1>8. NextInList(l, q, len, h, x - 1)
  BY <1>5, NextPlace
<1>9. x - 1 + 1 = x
  BY <1>5
<1>10. f[x] = At(q, len, h, x)
  BY <1>3, <1>5, <1>7, <1>8, <1>9 DEF NextInList
<1> QED BY <1>10

(* The list read along next is the one spelled.                            *)
LEMMA ListIsSpelled ==
  ASSUME NEW S \in SUBSET Nodes, NEW l, Good(l, S), NEW own, NEW pos, NEW len, NEW q,
         Placed(l, S, own, pos, len), Spells(q, S, own, pos, len), NEW h \in Heads \cap S
  PROVE  ListOf(l, h) = q[h]
<1> DEFINE node == CHOOSE f : f = [i \in 0 .. N |-> IF i = 0 THEN h ELSE l.next[f[i - 1]]]
           back == {i \in 1 .. N : node[i] = h}
           size == IF back = {} THEN N ELSE (CHOOSE i \in back : \A j \in back : i <= j) - 1
<1>1. ListOf(l, h) = [i \in 1 .. size |-> node[i]]
  BY DEF ListOf
<1>2. N \in Nat /\ len[h] \in Nat /\ len[h] <= N
  BY ListIsBounded, BoundAssumption
<1>3. PICK f : f \in Walks(l, h, N)
  <2>1. h \in Nodes /\ l \in Links
    BY DEF Nodes, Good
  <2> QED BY <1>2, <2>1, WalkExists
<1>4. f = [i \in 0 .. N |-> IF i = 0 THEN h ELSE l.next[f[i - 1]]]
  <2>1. f \in [0 .. N -> Nodes] /\ f[0] = h /\ \A i \in 1 .. N : f[i] = l.next[f[i - 1]]
    BY <1>3 DEF Walks
  <2>2. f = [i \in 0 .. N |-> f[i]]
    BY <2>1
  <2>3. \A i \in 0 .. N : f[i] = IF i = 0 THEN h ELSE l.next[f[i - 1]]
    BY <1>2, <2>1
  <2> QED BY <2>2, <2>3, Zenon
<1>5. node = [i \in 0 .. N |-> IF i = 0 THEN h ELSE l.next[node[i - 1]]]
  BY <1>4
<1> HIDE DEF node
<1>6. node \in Walks(l, h, N)
  <2> DEFINE T == {k \in 0 .. N : node[k] # f[k]}
  <2>1. T = {}
    <3> SUFFICES ASSUME T # {} PROVE FALSE
      OBVIOUS
    <3>1. T \in SUBSET Nat
      BY <1>2
    <3>2. PICK x \in T : \A y \in T : x <= y
      BY <3>1, Smallest
    <3> HIDE DEF T
    <3>3. x \in 0 .. N /\ node[x] # f[x] /\ \A y \in 0 .. N : node[y] # f[y] => x <= y
      BY <3>2 DEF T
    <3>4. x # 0
      BY <1>4, <1>5, <3>3
    <3>5. x - 1 \in 0 .. N /\ node[x - 1] = f[x - 1]
      BY <1>2, <3>3, <3>4
    <3> QED BY <1>4, <1>5, <3>3, <3>4, <3>5
  <2>2. f \in [0 .. N -> Nodes] /\ DOMAIN node = 0 .. N /\ DOMAIN f = 0 .. N
    BY <1>3, <1>5 DEF Walks
  <2>3. node = f
    BY <1>4, <1>5, <2>1, <2>2
  <2> QED BY <1>3, <2>3
<1>7. \A i \in 0 .. N : i <= len[h] + 1 => node[i] = At(q, len, h, i)
  BY <1>2, <1>6, WalkFollowsList
<1>8. \A i \in 1 .. len[h] : node[i] = q[h][i] /\ node[i] # h
  <2> SUFFICES ASSUME NEW i \in 1 .. len[h] PROVE node[i] = q[h][i] /\ node[i] # h
    OBVIOUS
  <2>1. node[i] = q[h][i]
    BY <1>2, <1>7 DEF At
  <2>2. Letter(q, S, own, pos, len, h, i)
    BY SpelledElement
  <2> QED BY <2>1, <2>2, NodesAssumption DEF Letter
<1>9. size = len[h]
  <2>1. CASE len[h] = N
    <3>1. back = {}
      BY <1>8, <2>1
    <3> QED BY <2>1, <3>1
  <2>2. CASE len[h] < N
    <3>1. len[h] + 1 \in 1 .. N /\ node[len[h] + 1] = h
      BY <1>2, <1>7, <2>2 DEF At
    <3>2. \A i \in 1 .. N : node[i] = h => len[h] + 1 <= i
      BY <1>2, <1>8
    <3>3. len[h] + 1 \in back /\ \A j \in back : len[h] + 1 <= j
      BY <3>1, <3>2
    <3> HIDE DEF back
    <3>4. back \in SUBSET Nat
      BY DEF back
    <3> DEFINE i == CHOOSE i \in back : \A j \in back : i <= j
    <3>5. i \in back /\ \A j \in back : i <= j
      BY <3>3
    <3>6. size = i - 1
      BY <3>3
    <3> HIDE DEF i, size
    <3>7. i = len[h] + 1
      BY <1>2, <3>3, <3>4, <3>5
    <3> QED BY <1>2, <3>6, <3>7
  <2> QED BY <1>2, <2>1, <2>2
<1> HIDE DEF size
<1>10. q[h] \in Seq(Elts) /\ Len(q[h]) = len[h]
  BY DEF Spells
<1>11. q[h] = [i \in 1 .. len[h] |-> q[h][i]]
  BY <1>10
<1> QED BY <1>1, <1>8, <1>9, <1>11

(* The lists of all the heads; those that are stale have none.             *)
Read(l, s) == [h \in Heads |-> IF h \in s THEN <<>> ELSE ListOf(l, h)]

LEMMA ReadIsSpelled ==
  ASSUME NEW s \in SUBSET Heads, NEW S, S = Nodes \ s, NEW l, Good(l, S), NEW q, Ordered(l, S, q)
  PROVE  q = Read(l, s)
<1>1. PICK own, pos, len : Placed(l, S, own, pos, len) /\ Spells(q, S, own, pos, len)
  BY DEF Ordered
<1>2. S \in SUBSET Nodes
  OBVIOUS
<1>3. \A h \in Heads : h \notin s => ListOf(l, h) = q[h]
  <2> SUFFICES ASSUME NEW h \in Heads, h \notin s PROVE ListOf(l, h) = q[h]
    OBVIOUS
  <2>1. h \in Heads \cap S
    BY DEF Nodes
  <2> QED BY <1>1, <1>2, <2>1, ListIsSpelled
<1>4. \A h \in s : q[h] = <<>>
  <2> SUFFICES ASSUME NEW h \in s PROVE q[h] = <<>>
    OBVIOUS
  <2>1. q[h] \in Seq(Elts) /\ Len(q[h]) = 0
    BY <1>1 DEF Placed, Spells
  <2> QED BY <2>1
<1>5. q = [h \in Heads |-> q[h]]
  BY <1>1 DEF Spells
<1> QED BY <1>3, <1>4, <1>5 DEF Read

(* A walk from a head meets its own nodes, and no others.                  *)
LEMMA RingIsOwned ==
  ASSUME NEW S \in SUBSET Nodes, NEW l, Good(l, S), NEW own, NEW pos, NEW len, NEW q,
         Placed(l, S, own, pos, len), Spells(q, S, own, pos, len),
         NEW h \in Heads \cap S, NEW n \in S
  PROVE  InRing(l, S, h, n) <=> own[n] = h
<1> USE NodesAssumption
<1>0. h # NoNode
  BY DEF Nodes
<1>1. ASSUME InRing(l, S, h, n) PROVE own[n] = h
  <2> DEFINE R == {m \in S : own[m] = h}
  <2>1. h \in R /\ \A m \in R : l.next[m] \in R
    BY <1>0 DEF Good, Ring, Placed
  <2>2. n \in R
    BY <1>1, <2>1 DEF InRing
  <2> QED BY <2>2
<1>2. ASSUME own[n] = h, NEW R \in SUBSET S, h \in R, \A m \in R : l.next[m] \in R
      PROVE  n \in R
  <2> DEFINE T == {k \in 0 .. len[h] : At(q, len, h, k) \notin R}
  <2>1. len[h] \in Nat /\ pos[n] \in 0 .. len[h] /\ own[h] = h /\ pos[h] = 0
    BY <1>0, <1>2 DEF Placed
  <2>2. T = {}
    <3> SUFFICES ASSUME T # {} PROVE FALSE
      OBVIOUS
    <3>1. T \in SUBSET Nat
      BY <2>1
    <3>2. PICK x \in T : \A y \in T : x <= y
      BY <3>1, Smallest
    <3>3. x # 0
      BY <1>2, <3>2 DEF At
    <3>4. x - 1 \in 0 .. len[h] /\ x - 1 + 1 = x /\ x - 1 \notin T
      BY <2>1, <3>2, <3>3
    <3>5. NextInList(l, q, len, h, x - 1)
      BY <3>4, NextPlace
    <3>6. At(q, len, h, x) \in R
      BY <1>2, <3>4, <3>5 DEF NextInList
    <3> QED BY <3>2, <3>6
  <2>3. At(q, len, h, pos[n]) \in R
    BY <2>1, <2>2
  <2>4. n \in Heads => n = h
    BY <1>2 DEF Placed
  <2>5. n \notin Heads => Spelled(q, own, pos, len, n)
    <3> SUFFICES ASSUME n \notin Heads PROVE Spelled(q, own, pos, len, n)
      OBVIOUS
    <3>1. n \in Elts \cap S /\ own[n] # NoNode
      BY <1>0, <1>2 DEF Nodes
    <3> QED BY <3>1, PlaceIsSpelled
  <2> QED BY <1>2, <2>3, <2>4, <2>5 DEF Spelled, At
<1> QED BY <1>1, <1>2 DEF InRing

-----------------------------------------------------------------------------
(* Sequences of elements that are changed at one place.                    *)
Widened(s, i, e, t) ==
  /\ t \in Seq(Elts) /\ Len(t) = Len(s) + 1
  /\ \A j \in 1 .. Len(s) + 1 : t[j] = IF j < i THEN s[j] ELSE IF j = i THEN e ELSE s[j - 1]
Narrowed(s, i, t) ==
  /\ t \in Seq(Elts) /\ Len(t) = Len(s) - 1
  /\ \A j \in 1 .. Len(s) - 1 : t[j] = IF j < i THEN s[j] ELSE s[j + 1]

LEMMA InsertAtWidens ==
  ASSUME NEW s \in Seq(Elts), NEW i \in 1 .. Len(s) + 1, NEW e \in Elts
  PROVE  Widened(s, i, e, L!InsertAt(s, i, e))
<1> DEFINE a == SubSeq(s, 1, i - 1)
           b == SubSeq(s, i, Len(s))
<1>1. /\ a \in Seq(Elts) /\ Len(a) = i - 1
      /\ \A j \in 1 .. i - 1 : a[j] = s[j]
  BY SubSeqProperties
<1>2. /\ b \in Seq(Elts) /\ Len(b) = Len(s) + 1 - i
      /\ \A j \in 1 .. Len(s) + 1 - i : b[j] = s[i + j - 1]
  BY SubSeqProperties
<1>3. L!InsertAt(s, i, e) = a \o <<e>> \o b
  BY DEF L!InsertAt
<1> HIDE DEF a, b
<1>4. /\ a \o <<e>> \in Seq(Elts) /\ Len(a \o <<e>>) = i
      /\ \A j \in 1 .. i : (a \o <<e>>)[j] = IF j < i THEN a[j] ELSE e
  BY <1>1
<1> DEFINE c == a \o <<e>>
<1> HIDE DEF c
<1>5. /\ c \in Seq(Elts) /\ Len(c) = i
      /\ \A j \in 1 .. i : c[j] = IF j < i THEN a[j] ELSE e
  BY <1>4 DEF c
<1>6. /\ c \o b \in Seq(Elts) /\ Len(c \o b) = Len(s) + 1
      /\ \A j \in 1 .. Len(s) + 1 : (c \o b)[j] = IF j <= i THEN c[j] ELSE b[j - i]
  <2>1. /\ c \o b \in Seq(Elts) /\ Len(c \o b) = Len(c) + Len(b)
        /\ \A j \in 1 .. Len(c) + Len(b) : (c \o b)[j] = IF j <= Len(c) THEN c[j] ELSE b[j - Len(c)]
    BY <1>2, <1>5, ConcatProperties
  <2>2. Len(c) + Len(b) = Len(s) + 1
    BY <1>2, <1>5
  <2> QED BY <1>5, <2>1, <2>2
<1>7. \A j \in 1 .. Len(s) + 1 :
        (c \o b)[j] = IF j < i THEN s[j] ELSE IF j = i THEN e ELSE s[j - 1]
  BY <1>1, <1>2, <1>5, <1>6
<1> QED BY <1>3, <1>6, <1>7 DEF c, Widened

(* A part of a sequence.                                                   *)
IsPart(t, s, m, n) ==
  /\ t \in Seq(Elts) /\ Len(t) = n - m + 1
  /\ \A i \in 1 .. n - m + 1 : t[i] = s[m + i - 1]

LEMMA SubSeqIsPart ==
  ASSUME NEW s \in Seq(Elts), NEW m \in 1 .. Len(s) + 1, NEW n \in m - 1 .. Len(s)
  PROVE  IsPart(SubSeq(s, m, n), s, m, n)
<1>1. Len(s) \in Nat /\ m \in Int /\ n \in Int
  OBVIOUS
<1>2. \A i \in m .. n : s[i] \in Elts
  BY <1>1, ElementOfSeq
<1>3. /\ SubSeq(s, m, n) \in Seq(Elts)
      /\ Len(SubSeq(s, m, n)) = IF m <= n THEN n - m + 1 ELSE 0
      /\ \A i \in 1 .. n - m + 1 : SubSeq(s, m, n)[i] = s[m + i - 1]
  BY <1>1, <1>2, SubSeqProperties
<1> QED BY <1>1, <1>3 DEF IsPart

LEMMA RemoveAtNarrows ==
  ASSUME NEW s \in Seq(Elts), NEW i \in 1 .. Len(s)
  PROVE  Narrowed(s, i, L!RemoveAt(s, i))
<1> DEFINE a == SubSeq(s, 1, i - 1)
           b == SubSeq(s, i + 1, Len(s))
<1>1. /\ a \in Seq(Elts) /\ Len(a) = i - 1
      /\ \A j \in 1 .. i - 1 : a[j] = s[j]
  BY SubSeqProperties
<1>2. /\ b \in Seq(Elts) /\ Len(b) = Len(s) - i
      /\ \A j \in 1 .. Len(s) - i : b[j] = s[i + j]
  BY SubSeqProperties
<1>3. L!RemoveAt(s, i) = a \o b
  BY DEF L!RemoveAt
<1> HIDE DEF a, b
<1>4. /\ a \o b \in Seq(Elts) /\ Len(a \o b) = Len(s) - 1
      /\ \A j \in 1 .. Len(s) - 1 : (a \o b)[j] = IF j <= i - 1 THEN a[j] ELSE b[j - (i - 1)]
  <2>1. /\ a \o b \in Seq(Elts) /\ Len(a \o b) = Len(a) + Len(b)
        /\ \A j \in 1 .. Len(a) + Len(b) : (a \o b)[j] = IF j <= Len(a) THEN a[j] ELSE b[j - Len(a)]
    BY <1>1, <1>2, ConcatProperties
  <2>2. Len(a) + Len(b) = Len(s) - 1
    BY <1>1, <1>2
  <2> QED BY <1>1, <2>1, <2>2
<1>5. \A j \in 1 .. Len(s) - 1 : (a \o b)[j] = IF j < i THEN s[j] ELSE s[j + 1]
  BY <1>1, <1>2, <1>4
<1> QED BY <1>3, <1>4, <1>5 DEF Narrowed

(* Where an element is in the lists.                                       *)
OwnsOn(q, own, h, n) ==
  /\ L!IsOn(q, h, n) <=> own[n] = h
  /\ n \in Elts => ((\E i \in 1 .. Len(q[h]) : q[h][i] = n) <=> own[n] = h)

LEMMA OnIsOwned ==
  ASSUME NEW S \in SUBSET Nodes, NEW l, Good(l, S), NEW own, NEW pos, NEW len, NEW q,
         Placed(l, S, own, pos, len), Spells(q, S, own, pos, len),
         NEW h \in Heads, NEW n \in S
  PROVE  OwnsOn(q, own, h, n)
<1> USE NodesAssumption
<1>0. h # NoNode /\ Len(q[h]) = len[h] /\ h \notin Elts
  BY DEF Nodes, Spells
<1>1. ASSUME NEW i \in 1 .. Len(q[h]), q[h][i] = n PROVE own[n] = h
  BY <1>0, <1>1, SpelledElement DEF Letter
<1>2. n = h => own[n] = h
  BY DEF Placed
<1>3. ASSUME own[n] = h, n # h PROVE n \in Elts
  BY <1>3 DEF Placed, Nodes
<1>4. ASSUME own[n] = h, n \in Elts PROVE \E i \in 1 .. Len(q[h]) : q[h][i] = n
  <2>1. Spelled(q, own, pos, len, n)
    BY <1>0, <1>4, PlaceIsSpelled
  <2> QED BY <1>0, <1>4, <2>1 DEF Spelled
<1> QED BY <1>0, <1>1, <1>2, <1>3, <1>4 DEF L!IsOn, OwnsOn

LEMMA IndexIsPlace ==
  ASSUME NEW S \in SUBSET Nodes, NEW l, Good(l, S), NEW own, NEW pos, NEW len, NEW q,
         Placed(l, S, own, pos, len), Spells(q, S, own, pos, len),
         NEW n \in Elts \cap S, own[n] # NoNode
  PROVE  L!Index(q[own[n]], n) = pos[n]
<1> DEFINE h == own[n]
           s == q[h]
<1>1. h \in Heads /\ Len(s) = len[h]
  <2>1. h \in Heads \cap S
    BY PlacedElement
  <2> QED BY <2>1 DEF Spells
<1>2. pos[n] \in 1 .. len[h] /\ s[pos[n]] = n
  <2>1. Spelled(q, own, pos, len, n)
    BY PlaceIsSpelled
  <2> QED BY <2>1 DEF Spelled
<1>3. \A i \in 1 .. len[h] : s[i] = n => i = pos[n]
  BY <1>1, SpelledElement DEF Letter
<1> HIDE DEF h, s
<1>4. \E i \in 1 .. Len(s) : s[i] = n
  BY <1>1, <1>2
<1>5. L!Index(s, n) \in 1 .. Len(s) /\ s[L!Index(s, n)] = n
  BY <1>4 DEF L!Index
<1>6. L!Index(s, n) = pos[n]
  BY <1>1, <1>3, <1>5
<1> QED BY <1>6 DEF s, h

-----------------------------------------------------------------------------
(* An element that is taken out leaves its list, and no other.             *)
Out(q, own, pos, e) == [h \in Heads |-> IF h = own[e] THEN L!RemoveAt(q[h], pos[e]) ELSE q[h]]

LEMMA ExtractSpells ==
  ASSUME NEW S \in SUBSET Nodes, NEW l, Good(l, S), NEW own, NEW pos, NEW len, NEW q,
         Placed(l, S, own, pos, len), Spells(q, S, own, pos, len),
         NEW e \in Elts \cap S
  PROVE  /\ L!Without(q, e) = Out(q, own, pos, e)
         /\ Spells(Out(q, own, pos, e), S, OutOwn(own, e), OutPos(own, pos, e), OutLen(own, len, e))
<1> DEFINE w == Out(q, own, pos, e)
           c == OutOwn(own, e)
           num == OutPos(own, pos, e)
           sz == OutLen(own, len, e)
<1> USE NodesAssumption
<1>1. L!Without(q, e) = w
  <2>1. \A h \in Heads : (\E i \in 1 .. Len(q[h]) : q[h][i] = e) <=> own[e] = h
    <3>1. \A h \in Heads : OwnsOn(q, own, h, e)
      BY OnIsOwned
    <3> QED BY <3>1 DEF OwnsOn
  <2>2. ASSUME NEW h \in Heads, own[e] = h PROVE L!Index(q[h], e) = pos[e]
    <3>1. own[e] # NoNode
      BY <2>2 DEF Nodes
    <3>2. L!Index(q[own[e]], e) = pos[e]
      BY <3>1, IndexIsPlace
    <3> QED BY <2>2, <3>2
  <2> QED BY <2>1, <2>2 DEF L!Without, Out
<1>2. /\ \A n \in Nodes : c[n] = IF n = e THEN NoNode ELSE own[n]
      /\ \A n \in Nodes : num[n] = IF own[n] = own[e] /\ pos[n] > pos[e] THEN pos[n] - 1 ELSE pos[n]
      /\ \A h \in Heads : sz[h] = IF h = own[e] THEN len[h] - 1 ELSE len[h]
  BY DEF OutOwn, OutPos, OutLen, Placed
<1>3. \A h \in Heads : /\ w[h] = IF h = own[e] THEN L!RemoveAt(q[h], pos[e]) ELSE q[h]
                       /\ q[h] \in Seq(Elts) /\ Len(q[h]) = len[h] /\ len[h] \in Nat
  BY DEF Out, Spells, Placed
<1>4. \A h \in Heads : \A i \in 1 .. len[h] : Letter(q, S, own, pos, len, h, i)
  BY SpelledElement
<1>5. ASSUME NEW h \in Heads
      PROVE  /\ w[h] \in Seq(Elts) /\ Len(w[h]) = sz[h]
             /\ \A i \in 1 .. sz[h] : w[h][i] \in S /\ c[w[h][i]] = h /\ num[w[h][i]] = i
  <2>1. CASE h = own[e]
    <3>1. own[e] # NoNode
      BY <2>1 DEF Nodes
    <3>2. Spelled(q, own, pos, len, e)
      BY <3>1, PlaceIsSpelled
    <3>3. pos[e] \in 1 .. len[h] /\ q[h][pos[e]] = e
      BY <2>1, <3>2 DEF Spelled
    <3>4. Narrowed(q[h], pos[e], w[h])
      BY <1>3, <2>1, <3>3, RemoveAtNarrows
    <3>5. /\ w[h] \in Seq(Elts) /\ Len(w[h]) = sz[h] /\ sz[h] = len[h] - 1
          /\ \A i \in 1 .. len[h] - 1 : w[h][i] = IF i < pos[e] THEN q[h][i] ELSE q[h][i + 1]
      BY <1>2, <1>3, <2>1, <3>4 DEF Narrowed
    <3>6. ASSUME NEW i \in 1 .. len[h], i # pos[e]
          PROVE  /\ q[h][i] \in S /\ c[q[h][i]] = h
                 /\ num[q[h][i]] = IF i < pos[e] THEN i ELSE i - 1
      <4>1. q[h][i] \in Nodes /\ q[h][i] \in S /\ own[q[h][i]] = h /\ pos[q[h][i]] = i
        BY <1>4 DEF Letter
      <4> QED BY <1>2, <2>1, <3>3, <3>6, <4>1
    <3>7. ASSUME NEW i \in 1 .. len[h] - 1
          PROVE  w[h][i] \in S /\ c[w[h][i]] = h /\ num[w[h][i]] = i
      <4>1. CASE i < pos[e]
        <5>1. i \in 1 .. len[h] /\ i # pos[e]
          BY <1>3, <3>3, <4>1
        <5>2. w[h][i] = q[h][i]
          BY <3>5, <4>1
        <5> QED BY <3>6, <4>1, <5>1, <5>2
      <4>2. CASE i >= pos[e]
        <5>1. i + 1 \in 1 .. len[h] /\ i + 1 # pos[e] /\ ~ (i + 1 < pos[e]) /\ i + 1 - 1 = i
          BY <1>3, <3>3, <4>2
        <5>2. w[h][i] = q[h][i + 1]
          BY <3>3, <3>5, <4>2
        <5> QED BY <3>6, <5>1, <5>2
      <4> QED BY <3>3, <4>1, <4>2
    <3> QED BY <3>5, <3>7
  <2>2. CASE h # own[e]
    <3>1. w[h] = q[h] /\ sz[h] = len[h]
      BY <1>2, <1>3, <2>2
    <3>2. ASSUME NEW i \in 1 .. len[h] PROVE q[h][i] \in S /\ c[q[h][i]] = h /\ num[q[h][i]] = i
      <4>1. q[h][i] \in Nodes /\ q[h][i] \in S /\ own[q[h][i]] = h /\ pos[q[h][i]] = i
        BY <1>4 DEF Letter
      <4> QED BY <1>2, <2>2, <4>1
    <3> QED BY <1>3, <3>1, <3>2
  <2> QED BY <2>1, <2>2
<1>6. w \in [Heads -> Seq(Elts)]
  BY <1>5 DEF Out
<1> HIDE DEF w, c, num, sz
<1>7. Spells(w, S, c, num, sz)
  BY <1>5, <1>6 DEF Spells
<1> QED BY <1>1, <1>7 DEF w, c, num, sz

(* An element that is inserted behind a node is there in its list.         *)
Put(q, own, pos, e, p) ==
  [h \in Heads |-> IF h = own[p] THEN L!InsertAt(q[h], pos[p] + 1, e) ELSE q[h]]

LEMMA InsertSpells ==
  ASSUME NEW S \in SUBSET Nodes, NEW l, Good(l, S), NEW own, NEW pos, NEW len, NEW q,
         Placed(l, S, own, pos, len), Spells(q, S, own, pos, len),
         NEW e \in Elts \cap S, NEW p \in S, empty(l, e), own[p] # NoNode
  PROVE  Spells(Put(q, own, pos, e, p), S,
                InOwn(own, e, p), InPos(own, pos, e, p), InLen(own, len, p))
<1> DEFINE w == Put(q, own, pos, e, p)
           c == InOwn(own, e, p)
           num == InPos(own, pos, e, p)
           sz == InLen(own, len, p)
<1> USE NodesAssumption
<1>1. /\ own[e] = NoNode /\ e \in Nodes
      /\ own[p] \in Heads /\ pos[p] \in Nat /\ pos[p] <= len[own[p]]
  <2>1. own[e] = NoNode
    BY PlacedElement
  <2> QED BY <2>1 DEF Placed, Nodes
<1>2. /\ \A n \in Nodes : c[n] = IF n = e THEN own[p] ELSE own[n]
      /\ \A n \in Nodes : num[n] = IF n = e THEN pos[p] + 1
                                   ELSE IF own[n] = own[p] /\ pos[n] > pos[p] THEN pos[n] + 1
                                   ELSE pos[n]
      /\ \A h \in Heads : sz[h] = IF h = own[p] THEN len[h] + 1 ELSE len[h]
  BY DEF InOwn, InPos, InLen, Placed
<1>3. \A h \in Heads : /\ w[h] = IF h = own[p] THEN L!InsertAt(q[h], pos[p] + 1, e) ELSE q[h]
                       /\ q[h] \in Seq(Elts) /\ Len(q[h]) = len[h] /\ len[h] \in Nat /\ h # NoNode
  BY DEF Put, Spells, Placed, Nodes
<1>4. \A h \in Heads : \A i \in 1 .. len[h] : Letter(q, S, own, pos, len, h, i)
  BY SpelledElement
<1>5. ASSUME NEW h \in Heads
      PROVE  /\ w[h] \in Seq(Elts) /\ Len(w[h]) = sz[h]
             /\ \A i \in 1 .. sz[h] : w[h][i] \in S /\ c[w[h][i]] = h /\ num[w[h][i]] = i
  <2>0. ASSUME NEW i \in 1 .. len[h]
        PROVE  /\ q[h][i] \in S /\ c[q[h][i]] = h
               /\ num[q[h][i]] = IF h = own[p] /\ i > pos[p] THEN i + 1 ELSE i
    <3>1. q[h][i] \in Nodes /\ q[h][i] \in S /\ own[q[h][i]] = h /\ pos[q[h][i]] = i /\ q[h][i] # e
      BY <1>1, <1>3, <1>4 DEF Letter
    <3> QED BY <1>2, <3>1
  <2>1. CASE h = own[p]
    <3>1. pos[p] + 1 \in 1 .. Len(q[h]) + 1
      BY <1>1, <1>3, <2>1
    <3>2. Widened(q[h], pos[p] + 1, e, w[h])
      BY <1>3, <2>1, <3>1, InsertAtWidens
    <3>3. /\ w[h] \in Seq(Elts) /\ Len(w[h]) = sz[h] /\ sz[h] = len[h] + 1
          /\ \A i \in 1 .. len[h] + 1 :
               w[h][i] = IF i < pos[p] + 1 THEN q[h][i] ELSE IF i = pos[p] + 1 THEN e ELSE q[h][i - 1]
      BY <1>2, <1>3, <2>1, <3>2 DEF Widened
    <3>4. ASSUME NEW i \in 1 .. len[h] + 1
          PROVE  w[h][i] \in S /\ c[w[h][i]] = h /\ num[w[h][i]] = i
      <4>1. CASE i < pos[p] + 1
        <5>1. i \in 1 .. len[h] /\ ~ (i > pos[p])
          BY <1>1, <1>3, <2>1, <4>1
        <5>2. w[h][i] = q[h][i]
          BY <3>3, <4>1
        <5> QED BY <2>0, <5>1, <5>2
      <4>2. CASE i = pos[p] + 1
        BY <1>1, <1>2, <2>1, <3>3, <4>2
      <4>3. CASE i > pos[p] + 1
        <5>1. i - 1 \in 1 .. len[h] /\ i - 1 > pos[p] /\ i - 1 + 1 = i
          BY <1>1, <1>3, <2>1, <4>3
        <5>2. w[h][i] = q[h][i - 1]
          BY <1>1, <3>3, <4>3
        <5> QED BY <2>0, <2>1, <5>1, <5>2
      <4> QED BY <1>1, <4>1, <4>2, <4>3
    <3> QED BY <3>3, <3>4
  <2>2. CASE h # own[p]
    <3>1. w[h] = q[h] /\ sz[h] = len[h]
      BY <1>2, <1>3, <2>2
    <3> QED BY <1>3, <2>0, <2>2, <3>1
  <2> QED BY <2>1, <2>2
<1>6. w \in [Heads -> Seq(Elts)]
  BY <1>5 DEF Put
<1> HIDE DEF w, c, num, sz
<1>7. Spells(w, S, c, num, sz)
  BY <1>5, <1>6 DEF Spells
<1> QED BY <1>7 DEF w, c, num, sz

(* An element is told by a neighbour where it goes.                        *)
LEMMA PutIsBehind ==
  ASSUME NEW S \in SUBSET Nodes, NEW l, Good(l, S), NEW own, NEW pos, NEW len, NEW q,
         Placed(l, S, own, pos, len), Spells(q, S, own, pos, len),
         NEW e, NEW n \in S, own[n] # NoNode
  PROVE  /\ L!PutAfter(q, e, n) = Put(q, own, pos, e, n)
         /\ L!PutBefore(q, e, n) = Put(q, own, pos, e, l.prev[n])
<1> DEFINE p == l.prev[n]
<1> USE NodesAssumption
<1>1. \A h \in Heads : L!IsOn(q, h, n) <=> own[n] = h
  <2>1. \A h \in Heads : OwnsOn(q, own, h, n)
    BY OnIsOwned
  <2> QED BY <2>1 DEF OwnsOn
<1>2. ASSUME NEW h \in Heads, own[n] = h, n # h PROVE L!Index(q[h], n) = pos[n]
  <2>1. n \in Elts \cap S
    BY <1>2 DEF Placed, Nodes
  <2>2. L!Index(q[own[n]], n) = pos[n]
    BY <2>1, IndexIsPlace
  <2> QED BY <1>2, <2>2
<1>3. \A h \in Heads : own[h] = own[n] /\ n = h => pos[n] = 0
  BY DEF Placed
<1>4. own[p] = own[n] /\ pos[n] = IF pos[p] = len[own[n]] THEN 0 ELSE pos[p] + 1
  <2>1. p \in S /\ l.next[p] = n
    BY DEF Good, Ring
  <2>2. own[p] # NoNode
    BY <2>1 DEF Placed
  <2> QED BY <2>1, <2>2 DEF Placed
<1>5. /\ own[n] \in Heads \cap S /\ own[own[n]] = own[n] /\ pos[own[n]] = 0
      /\ Len(q[own[n]]) = len[own[n]] /\ len[own[n]] \in Nat /\ pos[p] \in Nat /\ pos[n] \in Nat
      /\ pos[n] = 0 => n = own[n]
  <2>1. own[n] \in Heads \cap S
    BY DEF Placed, Nodes
  <2>2. p \in Nodes
    BY DEF Good, Ring
  <2> QED BY <2>1, <2>2 DEF Placed, Spells
<1> HIDE DEF p
<1>6. ASSUME NEW h \in Heads, h = own[n]
      PROVE  (IF n = h THEN 1 ELSE L!Index(q[h], n) + 1) = pos[n] + 1
  BY <1>2, <1>5, <1>6
<1>7. ASSUME NEW h \in Heads, h = own[n]
      PROVE  (IF n = h THEN Len(q[h]) + 1 ELSE L!Index(q[h], n)) = pos[p] + 1
  <2>1. CASE n = h
    BY <1>4, <1>5, <1>7, <2>1
  <2>2. CASE n # h
    BY <1>2, <1>4, <1>5, <1>7, <2>2
  <2> QED BY <2>1, <2>2
<1>8. L!PutAfter(q, e, n) = Put(q, own, pos, e, n)
  BY <1>1, <1>6 DEF L!PutAfter, Put
<1>9. L!PutBefore(q, e, n) = Put(q, own, pos, e, p)
  BY <1>1, <1>4, <1>7 DEF L!PutBefore, Put
<1> QED BY <1>8, <1>9 DEF p

-----------------------------------------------------------------------------
(* What each operation does to the lists.                                  *)
LEMMA ExtractInOrder ==
  ASSUME NEW S \in SUBSET Nodes, NEW l, Good(l, S), NEW q, Ordered(l, S, q), NEW e \in Elts \cap S
  PROVE  Ordered(extract(l, e), S, L!Without(q, e))
<1>1. PICK own, pos, len : Placed(l, S, own, pos, len) /\ Spells(q, S, own, pos, len)
  BY DEF Ordered
<1>2. Placed(extract(l, e), S, OutOwn(own, e), OutPos(own, pos, e), OutLen(own, len, e))
  BY <1>1, ExtractKeepsPlaces
<1>3. Spells(L!Without(q, e), S, OutOwn(own, e), OutPos(own, pos, e), OutLen(own, len, e))
  <2>1. L!Without(q, e) = Out(q, own, pos, e)
    BY <1>1, ExtractSpells
  <2>2. Spells(Out(q, own, pos, e), S, OutOwn(own, e), OutPos(own, pos, e), OutLen(own, len, e))
    BY <1>1, ExtractSpells
  <2> QED BY <2>1, <2>2
<1> QED BY <1>2, <1>3 DEF Ordered

(* A node that has a place in a list.                                      *)
InAList(l, n) == n \in Heads \/ ~empty(l, n)

LEMMA InAListIsOwned ==
  ASSUME NEW S \in SUBSET Nodes, NEW l, Good(l, S), NEW own, NEW pos, NEW len,
         Placed(l, S, own, pos, len), NEW n \in S, InAList(l, n)
  PROVE  own[n] # NoNode
BY NodesAssumption DEF Placed, InAList, empty, Nodes

LEMMA InsertInOrder ==
  ASSUME NEW S \in SUBSET Nodes, NEW l, Good(l, S), NEW q, Ordered(l, S, q),
         NEW e \in Elts \cap S, NEW n \in S, empty(l, e), InAList(l, n)
  PROVE  /\ Ordered(__insert(l, e, n, l.next[n]), S, L!PutAfter(q, e, n))
         /\ Ordered(__insert(l, e, l.prev[n], n), S, L!PutBefore(q, e, n))
<1>1. PICK own, pos, len : Placed(l, S, own, pos, len) /\ Spells(q, S, own, pos, len)
  BY DEF Ordered
<1>2. own[n] # NoNode
  BY <1>1, InAListIsOwned
<1>3. ASSUME NEW p \in S, own[p] # NoNode
      PROVE  Ordered(__insert(l, e, p, l.next[p]), S, Put(q, own, pos, e, p))
  <2>1. Placed(__insert(l, e, p, l.next[p]), S,
               InOwn(own, e, p), InPos(own, pos, e, p), InLen(own, len, p))
    BY <1>1, <1>3, InsertKeepsPlaces
  <2>2. Spells(Put(q, own, pos, e, p), S,
               InOwn(own, e, p), InPos(own, pos, e, p), InLen(own, len, p))
    BY <1>1, <1>3, InsertSpells
  <2> QED BY <2>1, <2>2 DEF Ordered
<1>4. l.prev[n] \in S /\ l.next[l.prev[n]] = n
  BY DEF Good, Ring
<1>5. own[l.prev[n]] # NoNode
  BY <1>1, <1>2, <1>4 DEF Placed
<1>6. /\ L!PutAfter(q, e, n) = Put(q, own, pos, e, n)
      /\ L!PutBefore(q, e, n) = Put(q, own, pos, e, l.prev[n])
  BY <1>1, <1>2, PutIsBehind
<1>7. Ordered(__insert(l, e, n, l.next[n]), S, L!PutAfter(q, e, n))
  BY <1>2, <1>3, <1>6
<1>8. Ordered(__insert(l, e, l.prev[n], n), S, L!PutBefore(q, e, n))
  <2>1. Ordered(__insert(l, e, l.prev[n], l.next[l.prev[n]]), S, Put(q, own, pos, e, l.prev[n]))
    BY <1>3, <1>4, <1>5
  <2> QED BY <1>4, <1>6, <2>1
<1> QED BY <1>7, <1>8

(* An element that is moved is taken out and inserted.                     *)
LEMMA MoveInOrder ==
  ASSUME NEW S \in SUBSET Nodes, NEW l, Good(l, S), NEW q, Ordered(l, S, q),
         NEW e \in Elts \cap S, NEW n \in S, n # e, InAList(l, n)
  PROVE  /\ Ordered(move_elt(l, e, n), S, L!PutAfter(L!Without(q, e), e, n))
         /\ Ordered(move_elt_tail(l, e, n), S, L!PutBefore(L!Without(q, e), e, n))
<1> DEFINE x == extract(l, e)
<1>1. Good(x, S) /\ empty(x, e)
  BY ExtractKeepsRing
<1>2. Ordered(x, S, L!Without(q, e))
  BY ExtractInOrder
<1>3. InAList(x, n)
  <2>1. PICK own, pos, len : Placed(l, S, own, pos, len) /\ Spells(q, S, own, pos, len)
    BY DEF Ordered
  <2> DEFINE c == OutOwn(own, e)
             num == OutPos(own, pos, e)
             sz == OutLen(own, len, e)
  <2>2. Placed(x, S, c, num, sz)
    BY <2>1, ExtractKeepsPlaces
  <2>3. own[n] # NoNode
    BY <2>1, InAListIsOwned
  <2>4. c[n] = own[n]
    BY <2>1 DEF Placed, OutOwn
  <2> HIDE DEF x, c, num, sz
  <2>5. n \in Elts => ~empty(x, n)
    BY <1>1, <2>2, <2>3, <2>4, PlacedElement
  <2> QED BY <2>5 DEF InAList, Nodes
<1>4. /\ Ordered(insert_after(x, e, n), S, L!PutAfter(L!Without(q, e), e, n))
      /\ Ordered(insert_before(x, e, n), S, L!PutBefore(L!Without(q, e), e, n))
  BY <1>1, <1>2, <1>3, InsertInOrder DEF insert_after, insert_before
<1>5. /\ move_elt(l, e, n) = insert_after(x, e, n)
      /\ move_elt_tail(l, e, n) = insert_before(x, e, n)
  BY MoveIsExtractAndInsert
<1> QED BY <1>4, <1>5

(* Two elements that exchange their names exchange their places.           *)
LEMMA RenameSpells ==
  ASSUME NEW S \in SUBSET Nodes, NEW own, NEW pos, NEW len, NEW q, NEW l,
         Placed(l, S, own, pos, len), Spells(q, S, own, pos, len),
         NEW x \in Elts \cap S, NEW y \in Elts \cap S
  PROVE  Spells(L!Renamed(q, x, y), S, NewOwn(own, x, y), NewPos(pos, x, y), NewLen(len, x, y))
<1> DEFINE s == Exchanged(x, y)
           w == L!Renamed(q, x, y)
           c == NewOwn(own, x, y)
           num == NewPos(pos, x, y)
           sz == NewLen(len, x, y)
<1> USE NodesAssumption
<1>1. /\ \A n \in Nodes : s[n] \in Nodes /\ s[s[n]] = n
      /\ \A n \in Elts \cap S : s[n] \in Elts \cap S
      /\ \A h \in Heads : s[h] = h /\ h # NoNode /\ h \in Nodes
      /\ \A n \in Elts : s[n] = IF n = x THEN y ELSE IF n = y THEN x ELSE n
  BY DEF Exchanged, Nodes
<1>2. /\ \A n \in Nodes : c[n] = IF own[s[n]] = NoNode THEN NoNode ELSE s[own[s[n]]]
      /\ \A n \in Nodes : num[n] = pos[s[n]]
      /\ \A h \in Heads : sz[h] = len[s[h]]
  BY DEF NewOwn, NewPos, NewLen
<1>3. \A h \in Heads : q[h] \in Seq(Elts) /\ Len(q[h]) = len[h] /\ len[h] \in Nat
  BY DEF Spells, Placed
<1>4. ASSUME NEW h \in Heads
      PROVE  /\ w[h] \in Seq(Elts) /\ Len(w[h]) = sz[h]
             /\ \A i \in 1 .. sz[h] : w[h][i] \in S /\ c[w[h][i]] = h /\ num[w[h][i]] = i
  <2>1. sz[h] = len[h]
    BY <1>1, <1>2
  <2>2. \A i \in 1 .. len[h] : Letter(q, S, own, pos, len, h, i)
    BY SpelledElement
  <2>3. w[h] = [i \in 1 .. len[h] |-> IF q[h][i] = x THEN y ELSE IF q[h][i] = y THEN x ELSE q[h][i]]
    BY <1>3 DEF L!Renamed
  <2> HIDE DEF s, w, c, num, sz
  <2>4. ASSUME NEW i \in 1 .. len[h]
        PROVE  w[h][i] \in Elts \cap S /\ c[w[h][i]] = h /\ num[w[h][i]] = i
    <3>1. /\ q[h][i] \in Elts \cap S /\ q[h][i] \in Nodes /\ own[q[h][i]] = h /\ pos[q[h][i]] = i
      BY <2>2 DEF Letter
    <3>2. w[h][i] = s[q[h][i]]
      BY <1>1, <2>3, <3>1
    <3>3. /\ w[h][i] \in Elts \cap S /\ w[h][i] \in Nodes /\ s[w[h][i]] = q[h][i]
      BY <1>1, <3>1, <3>2
    <3> QED BY <1>1, <1>2, <3>1, <3>3
  <2>5. w[h] \in Seq(Elts) /\ Len(w[h]) = len[h]
    <3>1. w[h] \in [1 .. len[h] -> Elts]
      BY <2>3, <2>4
    <3> QED BY <1>3, <2>3, <3>1
  <2> QED BY <2>1, <2>4, <2>5
<1>5. w \in [Heads -> Seq(Elts)]
  BY <1>4 DEF L!Renamed
<1> HIDE DEF w, c, num, sz
<1> QED BY <1>4, <1>5 DEF Spells, w, c, num, sz

(* Two heads exchange their lists.                                         *)
LEMMA TransferSpells ==
  ASSUME NEW S \in SUBSET Nodes, NEW own, NEW pos, NEW len, NEW q, NEW l,
         Placed(l, S, own, pos, len), Spells(q, S, own, pos, len),
         NEW x \in Heads \cap S, NEW y \in Heads \cap S, x # y
  PROVE  Spells([q EXCEPT ![y] = q[x], ![x] = q[y]], S,
                NewOwn(own, x, y), NewPos(pos, x, y), NewLen(len, x, y))
<1> DEFINE s == Exchanged(x, y)
           w == [q EXCEPT ![y] = q[x], ![x] = q[y]]
           c == NewOwn(own, x, y)
           num == NewPos(pos, x, y)
           sz == NewLen(len, x, y)
<1> USE NodesAssumption
<1>1. /\ \A n \in Elts : s[n] = n /\ n \in Nodes
      /\ \A h \in Heads : s[h] \in Heads /\ s[s[h]] = h /\ h # NoNode
      /\ \A h \in Heads : s[h] = IF h = x THEN y ELSE IF h = y THEN x ELSE h
  BY DEF Exchanged, Nodes
<1>2. /\ \A n \in Nodes : c[n] = IF own[s[n]] = NoNode THEN NoNode ELSE s[own[s[n]]]
      /\ \A n \in Nodes : num[n] = pos[s[n]]
      /\ \A h \in Heads : sz[h] = len[s[h]]
  BY DEF NewOwn, NewPos, NewLen
<1>3. \A h \in Heads : q[h] \in Seq(Elts) /\ Len(q[h]) = len[h] /\ len[h] \in Nat
  BY DEF Spells, Placed
<1>4. w \in [Heads -> Seq(Elts)] /\ \A h \in Heads : w[h] = q[s[h]]
  BY <1>1 DEF Spells
<1> HIDE DEF s, w, c, num, sz
<1>5. ASSUME NEW h \in Heads
      PROVE  /\ Len(w[h]) = sz[h]
             /\ \A i \in 1 .. sz[h] : w[h][i] \in S /\ c[w[h][i]] = h /\ num[w[h][i]] = i
  <2>1. s[h] \in Heads /\ s[s[h]] = h /\ s[h] # NoNode /\ sz[h] = len[s[h]] /\ w[h] = q[s[h]]
    BY <1>1, <1>2, <1>4
  <2>2. ASSUME NEW i \in 1 .. sz[h] PROVE w[h][i] \in S /\ c[w[h][i]] = h /\ num[w[h][i]] = i
    <3>1. Letter(q, S, own, pos, len, s[h], i)
      BY <2>1, SpelledElement
    <3>2. w[h][i] \in Elts \cap S /\ own[w[h][i]] = s[h] /\ pos[w[h][i]] = i
      BY <2>1, <3>1 DEF Letter
    <3> QED BY <1>1, <1>2, <2>1, <3>2
  <2> QED BY <1>3, <2>1, <2>2
<1> QED BY <1>4, <1>5 DEF Spells, w, c, num, sz

(* A node that is alone takes the name of the one it replaces.             *)
Renames(r, l, S, x, y) == \A n \in S : r.next[Exchanged(x, y)[n]] = Exchanged(x, y)[l.next[n]]

LEMMA ReplaceRenames ==
  ASSUME NEW S \in SUBSET Nodes, NEW l, Good(l, S),
         NEW e \in S, NEW old \in S, empty(l, e), e # old
  PROVE  Renames(replace(l, e, old), l, S, old, e)
<1> DEFINE r == replace(l, e, old)
           s == Exchanged(old, e)
<1>1. /\ l.next[e] = e /\ l.prev[e] = e /\ e \in Nodes /\ old \in Nodes
      /\ l.next[old] \in S /\ l.prev[old] \in S /\ l.next[old] # e /\ l.prev[old] # e
      /\ l.next[l.prev[old]] = old
      /\ l.next[old] = old <=> l.prev[old] = old
      /\ \A n \in S : /\ l.next[n] \in S /\ n \in Nodes /\ (l.next[n] = e => n = e)
                      /\ (l.next[n] = old => n = l.prev[old])
  BY DEF Good, Ring, empty
<1>2. \A n \in Nodes : s[n] = IF n = old THEN e ELSE IF n = e THEN old ELSE n
  BY DEF Exchanged
<1>3. CASE l.next[old] = old
  <2>1. r = l
    BY <1>1, <1>3 DEF Good, Links, replace, __init
  <2> HIDE DEF s, r
  <2>2. \A n \in S : l.next[s[n]] = s[l.next[n]]
    BY <1>1, <1>2, <1>3
  <2> QED BY <2>1, <2>2 DEF Renames, s, r
<1>4. CASE l.next[old] # old
  <2>1. \A n \in S : r.next[n] = IF n = old THEN old ELSE IF n = e THEN l.next[old]
                                ELSE IF n = l.prev[old] THEN e ELSE l.next[n]
    BY <1>1, <1>4 DEF Good, Links, replace, __init
  <2> HIDE DEF s, r
  <2>2. ASSUME NEW n \in S PROVE r.next[s[n]] = s[l.next[n]]
    <3>1. CASE n = old
      BY <1>1, <1>2, <1>4, <2>1, <3>1
    <3>2. CASE n = e
      BY <1>1, <1>2, <1>4, <2>1, <3>2
    <3>3. CASE n \notin {old, e}
      BY <1>1, <1>2, <1>4, <2>1, <3>3
    <3> QED BY <3>1, <3>2, <3>3
  <2> QED BY <2>2 DEF Renames, s, r
<1> QED BY <1>3, <1>4

(* What an element that is taken out leaves.                               *)
Closes(r, l, S, e) ==
  /\ Good(r, S) /\ empty(r, e)
  /\ \A n \in S \ {e} : /\ r.next[n] = IF l.next[n] = e THEN l.next[e] ELSE l.next[n]
                        /\ r.prev[n] = IF l.prev[n] = e THEN l.prev[e] ELSE l.prev[n]

LEMMA ExtractCloses ==
  ASSUME NEW S \in SUBSET Nodes, NEW l, Good(l, S), NEW e \in S
  PROVE  Closes(extract(l, e), l, S, e)
<1> DEFINE r == extract(l, e)
<1>1. /\ Good(r, S) /\ empty(r, e)
      /\ \A n \in S \ {e} : /\ r.next[n] = IF l.next[n] = e THEN l.next[e] ELSE l.next[n]
                            /\ r.prev[n] = IF l.prev[n] = e THEN l.prev[e] ELSE l.prev[n]
  BY ExtractKeepsRing
<1> QED BY <1>1 DEF Closes

(* Two elements of lists exchange their places, neighbours or not.         *)
LEMMA SwapRenames ==
  ASSUME NEW S \in SUBSET Nodes, NEW l, Good(l, S), NEW q, Ordered(l, S, q),
         NEW a \in Elts \cap S, NEW b \in Elts \cap S, a # b, ~empty(l, a), ~empty(l, b)
  PROVE  Good(swap(l, a, b), S) /\ Renames(swap(l, a, b), l, S, a, b)
<1> DEFINE r == swap(l, a, b)
           s == Exchanged(a, b)
           out == extract(l, a)
<1>1. PICK own, pos, len : Placed(l, S, own, pos, len)
  BY DEF Ordered
<1>2. ~ (l.next[a] = b /\ l.next[b] = a)
  <2>1. own[a] # NoNode /\ own[b] # NoNode /\ pos[a] > 0 /\ pos[b] > 0
    BY <1>1, PlacedElement
  <2>2. pos[a] \in Nat /\ pos[b] \in Nat
    BY <1>1 DEF Placed
  <2>3. pos[l.next[a]] = (IF pos[a] = len[own[a]] THEN 0 ELSE pos[a] + 1)
        /\ pos[l.next[b]] = (IF pos[b] = len[own[b]] THEN 0 ELSE pos[b] + 1)
    BY <1>1, <2>1 DEF Placed
  <2> QED BY <2>1, <2>2, <2>3
<1>3. /\ \A n \in S : /\ l.next[n] \in S /\ l.prev[n] \in S /\ n \in Nodes
                      /\ l.next[l.prev[n]] = n /\ l.prev[l.next[n]] = n
      /\ l.next[a] # a /\ l.next[b] # b /\ l.prev[a] # a /\ l.prev[b] # b
  BY DEF Good, Ring, empty
<1>4. \A n \in Nodes : s[n] = IF n = a THEN b ELSE IF n = b THEN a ELSE n
  BY DEF Exchanged
<1>5. /\ Good(out, S) /\ empty(out, a) /\ out.next[a] = a
      /\ \A n \in S \ {a} : /\ out.next[n] = IF l.next[n] = a THEN l.next[a] ELSE l.next[n]
                            /\ out.prev[n] = IF l.prev[n] = a THEN l.prev[a] ELSE l.prev[n]
  <2>1. Closes(out, l, S, a)
    BY ExtractCloses
  <2> QED BY <2>1 DEF Closes, empty
<1> HIDE DEF s, out
<1>6. ASSUME l.next[a] = b PROVE Good(r, S) /\ Renames(r, l, S, a, b)
  <2>1. r = __insert(out, a, b, out.next[b])
    BY <1>6 DEF swap, insert_after, out
  <2>2. Good(r, S)
    BY <1>5, <2>1, InsertKeepsRing
  <2>3. \A n \in S : r.next[n] = IF n = b THEN a ELSE IF n = a THEN out.next[b] ELSE out.next[n]
    BY <1>3, <1>5, <2>1 DEF __insert, Good, Links
  <2> HIDE DEF r
  <2>4. ASSUME NEW n \in S PROVE r.next[s[n]] = s[l.next[n]]
    <3>1. CASE n = a
      BY <1>2, <1>3, <1>4, <1>5, <1>6, <2>3, <3>1
    <3>2. CASE n = b
      BY <1>2, <1>3, <1>4, <1>5, <1>6, <2>3, <3>2
    <3>3. CASE n \notin {a, b}
      BY <1>2, <1>3, <1>4, <1>5, <1>6, <2>3, <3>3
    <3> QED BY <3>1, <3>2, <3>3
  <2> QED BY <2>2, <2>4 DEF Renames, s
<1>7. ASSUME l.next[a] # b, l.prev[a] = b PROVE Good(r, S) /\ Renames(r, l, S, a, b)
  <2>1. r = __insert(out, a, out.prev[b], b)
    BY <1>7 DEF swap, insert_before, out
  <2>2. Good(r, S)
    BY <1>5, <2>1, InsertBeforeKeepsRing
  <2>3. out.prev[b] = l.prev[b] /\ l.prev[b] \notin {a, b}
    BY <1>2, <1>3, <1>5, <1>7
  <2>4. \A n \in S : r.next[n] = IF n = l.prev[b] THEN a ELSE IF n = a THEN b ELSE out.next[n]
    BY <1>3, <1>5, <2>1, <2>3 DEF __insert, Good, Links
  <2> HIDE DEF r
  <2>5. ASSUME NEW n \in S PROVE r.next[s[n]] = s[l.next[n]]
    <3>1. CASE n = a
      BY <1>2, <1>3, <1>4, <1>5, <1>7, <2>3, <2>4, <3>1
    <3>2. CASE n = b
      BY <1>2, <1>3, <1>4, <1>5, <1>7, <2>3, <2>4, <3>2
    <3>3. CASE n \notin {a, b}
      BY <1>2, <1>3, <1>4, <1>5, <1>7, <2>3, <2>4, <3>3
    <3> QED BY <3>1, <3>2, <3>3
  <2> QED BY <2>2, <2>5 DEF Renames, s
<1>8. ASSUME l.next[a] # b, l.prev[a] # b PROVE Good(r, S) /\ Renames(r, l, S, a, b)
  <2> DEFINE out2 == extract(out, b)
             mid == __insert(out2, a, l.prev[b], out2.next[l.prev[b]])
  <2>1. r = __insert(mid, b, l.prev[a], mid.next[l.prev[a]])
    BY <1>8 DEF swap, insert_after, out
  <2>2. l.prev[a] \notin {a, b} /\ l.prev[b] \notin {a, b} /\ l.prev[a] # l.prev[b]
    BY <1>3, <1>8
  <2>3. /\ Good(out2, S) /\ empty(out2, b) /\ out2.next[b] = b
        /\ \A n \in S \ {b} : out2.next[n] = IF out.next[n] = b THEN out.next[b] ELSE out.next[n]
    <3>1. Closes(out2, out, S, b)
      BY <1>5, ExtractCloses
    <3> QED BY <3>1 DEF Closes, empty
  <2> HIDE DEF out2
  <2>4. out2.next[a] = a /\ empty(out2, a)
    BY <1>5, <2>3 DEF empty
  <2>5. Good(mid, S)
    BY <1>3, <2>2, <2>3, <2>4, InsertKeepsRing
  <2>6. \A n \in S : mid.next[n] = IF n = l.prev[b] THEN a ELSE IF n = a THEN out2.next[l.prev[b]]
                                  ELSE out2.next[n]
    BY <1>3, <2>2, <2>3 DEF __insert, Good, Links
  <2> HIDE DEF mid
  <2>7. empty(mid, b)
    BY <2>2, <2>3, <2>6 DEF empty
  <2>8. Good(r, S)
    BY <1>3, <2>1, <2>2, <2>5, <2>7, InsertKeepsRing
  <2>9. \A n \in S : r.next[n] = IF n = l.prev[a] THEN b ELSE IF n = b THEN mid.next[l.prev[a]]
                                ELSE mid.next[n]
    BY <1>3, <2>1, <2>2, <2>5 DEF __insert, Good, Links
  <2> HIDE DEF r
  <2>10. ASSUME NEW n \in S \ {a, b} PROVE out2.next[n] = IF n = l.prev[a] THEN l.next[a]
                                                        ELSE IF n = l.prev[b] THEN l.next[b]
                                                        ELSE l.next[n]
    BY <1>3, <1>5, <1>8, <2>2, <2>3
  <2>11. ASSUME NEW n \in S PROVE r.next[s[n]] = s[l.next[n]]
    <3>1. CASE n = a
      BY <1>3, <1>4, <1>8, <2>2, <2>6, <2>9, <2>10, <3>1
    <3>2. CASE n = b
      BY <1>3, <1>4, <1>8, <2>2, <2>6, <2>9, <2>10, <3>2
    <3>3. CASE n \notin {a, b}
      BY <1>3, <1>4, <1>8, <2>2, <2>6, <2>9, <2>10, <3>3
    <3> QED BY <3>1, <3>2, <3>3
  <2> QED BY <2>8, <2>11 DEF Renames, s
<1> QED BY <1>6, <1>7, <1>8

LEMMA SwapInOrder ==
  ASSUME NEW S \in SUBSET Nodes, NEW l, Good(l, S), NEW q, Ordered(l, S, q),
         NEW a \in Elts \cap S, NEW b \in Elts \cap S, a # b, ~empty(l, a), ~empty(l, b)
  PROVE  Ordered(swap(l, a, b), S, L!Renamed(q, a, b))
<1>1. PICK own, pos, len : Placed(l, S, own, pos, len) /\ Spells(q, S, own, pos, len)
  BY DEF Ordered
<1>2. Renames(swap(l, a, b), l, S, a, b)
  BY SwapRenames
<1>3. a \in Heads <=> b \in Heads
  BY NodesAssumption
<1>4. Placed(swap(l, a, b), S, NewOwn(own, a, b), NewPos(pos, a, b), NewLen(len, a, b))
  BY <1>1, <1>2, <1>3, ExchangeKeepsPlaces DEF Renames
<1>5. Spells(L!Renamed(q, a, b), S, NewOwn(own, a, b), NewPos(pos, a, b), NewLen(len, a, b))
  BY <1>1, RenameSpells
<1> QED BY <1>4, <1>5 DEF Ordered

LEMMA ReplaceInOrder ==
  ASSUME NEW S \in SUBSET Nodes, NEW l, Good(l, S), NEW q, Ordered(l, S, q),
         NEW e \in Elts \cap S, NEW old \in Elts \cap S, e # old, empty(l, e)
  PROVE  Ordered(replace(l, e, old), S, L!Renamed(q, old, e))
<1> DEFINE r == replace(l, e, old)
<1>1. PICK own, pos, len : Placed(l, S, own, pos, len) /\ Spells(q, S, own, pos, len)
  BY DEF Ordered
<1>2. Renames(r, l, S, old, e)
  BY ReplaceRenames
<1>3. old \in Heads <=> e \in Heads
  BY NodesAssumption
<1> HIDE DEF r
<1>4. Placed(r, S, NewOwn(own, old, e), NewPos(pos, old, e), NewLen(len, old, e))
  BY <1>1, <1>2, <1>3, ExchangeKeepsPlaces DEF Renames
<1>5. Spells(L!Renamed(q, old, e), S, NewOwn(own, old, e), NewPos(pos, old, e), NewLen(len, old, e))
  BY <1>1, RenameSpells
<1> QED BY <1>4, <1>5 DEF Ordered, r

(* The elements of a head go to another one, which was empty.              *)
LEMMA ReplaceByInOrder ==
  ASSUME NEW S \in SUBSET Nodes, NEW l, Good(l, S), NEW q, Ordered(l, S, q),
         NEW h \in Heads \cap S, NEW to \in Heads \cap S, h # to, empty(l, to)
  PROVE  /\ Good(replace_by(l, h, to), S)
         /\ Ordered(replace_by(l, h, to), S, [q EXCEPT ![to] = q[h], ![h] = q[to]])
<1>1. PICK own, pos, len : Placed(l, S, own, pos, len) /\ Spells(q, S, own, pos, len)
  BY DEF Ordered
<1>2. CASE empty(l, h)
  <2>1. replace_by(l, h, to) = l
    BY <1>2 DEF replace_by
  <2>2. FirstInPlace(l, own, pos, len, h) /\ FirstInPlace(l, own, pos, len, to)
    BY <1>1, PlacedFirst
  <2>3. /\ q \in [Heads -> Seq(Elts)]
        /\ q[h] \in Seq(Elts) /\ Len(q[h]) = 0 /\ q[to] \in Seq(Elts) /\ Len(q[to]) = 0
    BY <1>1, <1>2, <2>2 DEF FirstInPlace, Spells, empty
  <2>4. q[h] = <<>> /\ q[to] = <<>>
    BY <2>3
  <2>5. [q EXCEPT ![to] = q[h], ![h] = q[to]] = q
    BY <2>3, <2>4
  <2> QED BY <2>1, <2>5
<1>3. CASE ~empty(l, h)
  <2> DEFINE r == replace(l, to, h)
             w == [q EXCEPT ![to] = q[h], ![h] = q[to]]
  <2>1. replace_by(l, h, to) = r
    BY <1>3 DEF replace_by
  <2>2. Good(r, S)
    BY ReplaceKeepsRing
  <2>3. Renames(r, l, S, h, to)
    BY ReplaceRenames
  <2> HIDE DEF r
  <2>4. Placed(r, S, NewOwn(own, h, to), NewPos(pos, h, to), NewLen(len, h, to))
    BY <1>1, <2>3, ExchangeKeepsPlaces DEF Renames
  <2>5. Spells(w, S, NewOwn(own, h, to), NewPos(pos, h, to), NewLen(len, h, to))
    BY <1>1, TransferSpells
  <2> HIDE DEF w
  <2>6. Ordered(r, S, w)
    BY <2>4, <2>5 DEF Ordered
  <2> QED BY <2>1, <2>2, <2>6 DEF w
<1> QED BY <1>2, <1>3

(* A head gives the elements up to one of its own to an empty head.        *)
LEMMA TruncateInOrder ==
  ASSUME NEW S \in SUBSET Nodes, NEW l, Good(l, S), NEW q, Ordered(l, S, q),
         NEW h \in Heads \cap S, NEW e \in Elts \cap S, NEW to \in Heads \cap S,
         h # to, empty(l, to), InRing(l, S, h, e)
  PROVE  /\ q[to] = <<>> /\ \E i \in 1 .. Len(q[h]) : q[h][i] = e
         /\ Ordered(truncate(l, h, e, to), S,
                    [q EXCEPT ![to] = SubSeq(q[h], 1, L!Index(q[h], e)),
                              ![h] = SubSeq(@, L!Index(@, e) + 1, Len(@))])
<1> DEFINE w == [q EXCEPT ![to] = SubSeq(q[h], 1, L!Index(q[h], e)),
                          ![h] = SubSeq(@, L!Index(@, e) + 1, Len(@))]
<1> USE NodesAssumption
<1>1. PICK own, pos, len : Placed(l, S, own, pos, len) /\ Spells(q, S, own, pos, len)
  BY DEF Ordered
<1> DEFINE c == CutOwn(own, pos, h, e, to)
           num == CutPos(own, pos, h, e)
           sz == CutLen(len, pos, h, e, to)
<1>2. own[e] = h /\ h # NoNode
  <2>1. own[e] = h
    BY <1>1, RingIsOwned
  <2> QED BY <2>1 DEF Nodes
<1>3. Placed(truncate(l, h, e, to), S, c, num, sz)
  BY <1>1, <1>2, TruncateKeepsPlaces
<1>4. pos[e] \in 1 .. len[h] /\ q[h][pos[e]] = e /\ L!Index(q[h], e) = pos[e]
  <2>1. Spelled(q, own, pos, len, e)
    BY <1>1, <1>2, PlaceIsSpelled
  <2>2. L!Index(q[own[e]], e) = pos[e]
    BY <1>1, <1>2, IndexIsPlace
  <2> QED BY <1>2, <2>1, <2>2 DEF Spelled
<1>5. /\ q \in [Heads -> Seq(Elts)]
      /\ \A g \in Heads : q[g] \in Seq(Elts) /\ Len(q[g]) = len[g] /\ len[g] \in Nat /\ g # NoNode
  BY <1>1 DEF Spells, Placed, Nodes
<1>6. len[to] = 0 /\ q[to] = <<>>
  <2>1. FirstInPlace(l, own, pos, len, to)
    BY <1>1, PlacedFirst
  <2>2. len[to] = 0
    BY <2>1 DEF FirstInPlace, empty
  <2> QED BY <1>5, <2>2
<1>7. /\ w[to] = SubSeq(q[h], 1, pos[e])
      /\ w[h] = SubSeq(q[h], pos[e] + 1, len[h])
      /\ \A g \in Heads : g \notin {h, to} => w[g] = q[g]
      /\ DOMAIN w = Heads
  BY <1>4, <1>5
<1>0. q[h] \in Seq(Elts) /\ Len(q[h]) = len[h] /\ len[h] \in Nat /\ pos[e] \in 1 .. len[h]
  BY <1>4, <1>5
<1>8. /\ w[to] \in Seq(Elts) /\ Len(w[to]) = pos[e]
      /\ \A i \in 1 .. pos[e] : w[to][i] = q[h][i]
  <2>1. IsPart(SubSeq(q[h], 1, pos[e]), q[h], 1, pos[e])
    <3>1. 1 \in 1 .. Len(q[h]) + 1 /\ pos[e] \in 1 - 1 .. Len(q[h])
      BY <1>0
    <3> QED BY <1>0, <3>1, SubSeqIsPart
  <2> HIDE DEF w
  <2>2. IsPart(w[to], q[h], 1, pos[e])
    BY <1>7, <2>1
  <2> QED BY <1>0, <2>2 DEF IsPart
<1>9. /\ w[h] \in Seq(Elts) /\ Len(w[h]) = len[h] - pos[e]
      /\ \A i \in 1 .. len[h] - pos[e] : w[h][i] = q[h][pos[e] + i]
  <2>1. IsPart(SubSeq(q[h], pos[e] + 1, len[h]), q[h], pos[e] + 1, len[h])
    <3>1. pos[e] + 1 \in 1 .. Len(q[h]) + 1 /\ len[h] \in pos[e] + 1 - 1 .. Len(q[h])
      BY <1>0
    <3> QED BY <1>0, <3>1, SubSeqIsPart
  <2> HIDE DEF w
  <2>2. IsPart(w[h], q[h], pos[e] + 1, len[h])
    BY <1>7, <2>1
  <2>3. len[h] - (pos[e] + 1) + 1 = len[h] - pos[e]
    BY <1>0
  <2>4. ASSUME NEW i \in 1 .. len[h] - pos[e] PROVE w[h][i] = q[h][pos[e] + i]
    <3>1. pos[e] + 1 + i - 1 = pos[e] + i
      BY <1>0
    <3> QED BY <2>2, <2>3, <3>1 DEF IsPart
  <2> QED BY <2>2, <2>3, <2>4 DEF IsPart
<1>10. w \in [Heads -> Seq(Elts)]
  <2>1. \A g \in Heads : w[g] \in Seq(Elts)
    BY <1>5, <1>7, <1>8, <1>9
  <2>2. w = [g \in Heads |-> w[g]]
    BY <1>5
  <2> HIDE DEF w
  <2> QED BY <2>1, <2>2
<1>11. /\ \A n \in Nodes : c[n] = IF own[n] = h /\ n # h /\ pos[n] <= pos[e] THEN to ELSE own[n]
       /\ \A n \in Nodes : num[n] = IF own[n] = h /\ pos[n] > pos[e] THEN pos[n] - pos[e] ELSE pos[n]
       /\ \A g \in Heads : sz[g] = IF g = h THEN len[h] - pos[e] ELSE IF g = to THEN pos[e] ELSE len[g]
  BY DEF CutOwn, CutPos, CutLen
<1> HIDE DEF w, c, num, sz
<1>12. ASSUME NEW g \in Heads, NEW i \in 1 .. len[g]
       PROVE  /\ q[g][i] \in S /\ q[g][i] \in Nodes /\ q[g][i] \notin Heads
              /\ own[q[g][i]] = g /\ pos[q[g][i]] = i
  <2>1. Letter(q, S, own, pos, len, g, i)
    BY <1>1, SpelledElement
  <2> QED BY <2>1 DEF Letter
<1>13. ASSUME NEW g \in Heads
       PROVE  /\ Len(w[g]) = sz[g]
              /\ \A i \in 1 .. sz[g] : w[g][i] \in S /\ c[w[g][i]] = g /\ num[w[g][i]] = i
  <2>1. CASE g = to
    <3>1. sz[to] = pos[e]
      BY <1>11
    <3>2. ASSUME NEW i \in 1 .. pos[e]
          PROVE  w[to][i] \in S /\ c[w[to][i]] = to /\ num[w[to][i]] = i
      <4>1. i \in 1 .. len[h] /\ i <= pos[e]
        BY <1>0
      <4>2. w[to][i] = q[h][i]
        BY <1>8
      <4> QED BY <1>4, <1>11, <1>12, <4>1, <4>2
    <3> QED BY <1>8, <2>1, <3>1, <3>2
  <2>2. CASE g = h
    <3>1. sz[h] = len[h] - pos[e]
      BY <1>11
    <3>2. ASSUME NEW i \in 1 .. len[h] - pos[e]
          PROVE  w[h][i] \in S /\ c[w[h][i]] = h /\ num[w[h][i]] = i
      <4>0. pos[e] + i \in 1 .. len[h] /\ pos[e] + i > pos[e] /\ pos[e] + i - pos[e] = i
        BY <1>0
      <4>1. pos[e] + i \in 1 .. len[h] /\ w[h][i] = q[h][pos[e] + i] /\ pos[e] + i > pos[e]
            /\ pos[e] + i - pos[e] = i
        BY <1>9, <4>0
      <4> DEFINE n == q[h][pos[e] + i]
      <4>2. n \in S /\ n \in Nodes /\ own[n] = h /\ pos[n] = pos[e] + i
        BY <1>12, <4>1
      <4> HIDE DEF n
      <4>3. c[n] = h /\ num[n] = i
        BY <1>4, <1>11, <4>1, <4>2
      <4> QED BY <4>1, <4>2, <4>3 DEF n
    <3> QED BY <1>9, <2>2, <3>1, <3>2
  <2>3. CASE g \notin {h, to}
    <3>1. w[g] = q[g] /\ sz[g] = len[g] /\ Len(q[g]) = len[g]
      BY <1>5, <1>7, <1>11, <2>3
    <3>2. ASSUME NEW i \in 1 .. len[g] PROVE q[g][i] \in S /\ c[q[g][i]] = g /\ num[q[g][i]] = i
      BY <1>11, <1>12, <2>3
    <3> QED BY <3>1, <3>2
  <2> QED BY <2>1, <2>2, <2>3
<1>14. Spells(w, S, c, num, sz)
  BY <1>10, <1>13 DEF Spells
<1> QED BY <1>3, <1>4, <1>5, <1>6, <1>14 DEF Ordered, w

(* The list of a head goes before or behind that of another one.           *)
JoinedAt(pos, len, h, from, p, a, b) ==
  \/ a = h /\ b = from /\ pos[p] = len[h]
  \/ a = from /\ b = h /\ pos[p] = 0

IsConcat(r, s, t) ==
  /\ r \in Seq(Elts) /\ Len(r) = Len(s) + Len(t)
  /\ \A i \in 1 .. Len(s) + Len(t) : r[i] = IF i <= Len(s) THEN s[i] ELSE t[i - Len(s)]

LEMMA ConcatIsConcat ==
  ASSUME NEW s \in Seq(Elts), NEW t \in Seq(Elts)
  PROVE  IsConcat(s \o t, s, t)
BY ConcatProperties DEF IsConcat

LEMMA JoinSpells ==
  ASSUME NEW S \in SUBSET Nodes, NEW l, NEW own, NEW pos, NEW len, NEW q,
         Placed(l, S, own, pos, len), Spells(q, S, own, pos, len),
         NEW p \in S, NEW h \in Heads \cap S, own[p] = h, NEW from \in Heads \cap S, h # from,
         NEW a, NEW b, JoinedAt(pos, len, h, from, p, a, b)
  PROVE  Spells([q EXCEPT ![h] = q[a] \o q[b], ![from] = <<>>], S \ {from}, JoinOwn(own, p, from),
                JoinPos(own, pos, len, p, from), JoinLen(own, len, p, from))
<1> DEFINE w == [q EXCEPT ![h] = q[a] \o q[b], ![from] = <<>>]
           c == JoinOwn(own, p, from)
           num == JoinPos(own, pos, len, p, from)
           sz == JoinLen(own, len, p, from)
           T == S \ {from}
<1> USE NodesAssumption
<1>1. /\ q \in [Heads -> Seq(Elts)]
      /\ \A g \in Heads : q[g] \in Seq(Elts) /\ Len(q[g]) = len[g] /\ len[g] \in Nat
  BY DEF Spells, Placed
<1>2. a \in Heads /\ b \in Heads /\ len[a] \in Nat /\ len[b] \in Nat /\ len[h] \in Nat /\ len[from] \in Nat
      /\ q[a] \in Seq(Elts) /\ q[b] \in Seq(Elts) /\ Len(q[a]) = len[a] /\ Len(q[b]) = len[b]
      /\ len[a] + len[b] = len[h] + len[from]
  <2>1. a \in Heads /\ b \in Heads
    BY DEF JoinedAt
  <2>2. (a = h /\ b = from) \/ (a = from /\ b = h)
    BY DEF JoinedAt
  <2> QED BY <1>1, <2>1, <2>2
<1>3. /\ \A n \in Nodes : c[n] = IF own[n] = from THEN h ELSE own[n]
      /\ \A n \in Nodes : num[n] = IF own[n] = from THEN pos[n] + pos[p]
                                   ELSE IF own[n] = h /\ pos[n] > pos[p] THEN pos[n] + len[from]
                                   ELSE pos[n]
      /\ \A g \in Heads : sz[g] = IF g = from THEN 0 ELSE IF g = h THEN len[g] + len[from] ELSE len[g]
  BY DEF JoinOwn, JoinPos, JoinLen
<1>4. ASSUME NEW g \in Heads, NEW i \in 1 .. len[g]
      PROVE  /\ q[g][i] \in T /\ q[g][i] \in Nodes /\ own[q[g][i]] = g /\ pos[q[g][i]] = i
  <2>1. Letter(q, S, own, pos, len, g, i)
    BY SpelledElement
  <2> QED BY <2>1 DEF Letter
<1>5. /\ q[a] \o q[b] \in Seq(Elts) /\ Len(q[a] \o q[b]) = len[a] + len[b]
      /\ \A i \in 1 .. len[a] + len[b] :
           (q[a] \o q[b])[i] = IF i <= len[a] THEN q[a][i] ELSE q[b][i - len[a]]
  <2>1. IsConcat(q[a] \o q[b], q[a], q[b])
    BY <1>2, ConcatIsConcat
  <2>2. IsConcat(q[a] \o q[b], q[a], q[b]) =>
          /\ q[a] \o q[b] \in Seq(Elts) /\ Len(q[a] \o q[b]) = Len(q[a]) + Len(q[b])
          /\ \A i \in 1 .. Len(q[a]) + Len(q[b]) :
               (q[a] \o q[b])[i] = IF i <= Len(q[a]) THEN q[a][i] ELSE q[b][i - Len(q[a])]
    BY DEF IsConcat
  <2> QED BY <1>2, <2>1, <2>2
<1>6. /\ w[h] = q[a] \o q[b] /\ w[from] = <<>>
      /\ \A g \in Heads : g \notin {h, from} => w[g] = q[g]
  BY <1>1
<1>7. w \in [Heads -> Seq(Elts)]
  <2>1. w = [g \in Heads |-> w[g]]
    BY <1>1
  <2> HIDE DEF w
  <2>2. w[h] \in Seq(Elts)
    BY <1>5, <1>6
  <2>3. w[from] \in Seq(Elts)
    BY <1>6, EmptySeq
  <2>4. \A g \in Heads : w[g] \in Seq(Elts)
    BY <1>1, <1>6, <2>2, <2>3
  <2> QED BY <2>1, <2>4
<1> HIDE DEF w, c, num, sz
<1>8. ASSUME NEW i \in 1 .. len[a] PROVE q[a][i] \in T /\ c[q[a][i]] = h /\ num[q[a][i]] = i
  <2>1. q[a][i] \in T /\ q[a][i] \in Nodes /\ own[q[a][i]] = a /\ pos[q[a][i]] = i
    BY <1>2, <1>4
  <2>2. CASE a = h /\ pos[p] = len[h]
    <3>1. ~ (i > pos[p])
      BY <1>2, <2>2
    <3> QED BY <1>3, <2>1, <2>2, <3>1
  <2>3. CASE a = from /\ pos[p] = 0
    <3>1. i + pos[p] = i
      BY <2>3
    <3> QED BY <1>3, <2>1, <2>3, <3>1
  <2> QED BY <2>2, <2>3 DEF JoinedAt
<1>9. ASSUME NEW i \in 1 .. len[b] PROVE q[b][i] \in T /\ c[q[b][i]] = h /\ num[q[b][i]] = i + len[a]
  <2>1. q[b][i] \in T /\ q[b][i] \in Nodes /\ own[q[b][i]] = b /\ pos[q[b][i]] = i
    BY <1>2, <1>4
  <2>2. CASE a = h /\ b = from /\ pos[p] = len[h]
    BY <1>3, <2>1, <2>2
  <2>3. CASE a = from /\ b = h /\ pos[p] = 0
    <3>1. i > pos[p]
      BY <2>3
    <3> QED BY <1>3, <2>1, <2>3, <3>1
  <2> QED BY <2>2, <2>3 DEF JoinedAt
<1>10. ASSUME NEW g \in Heads
       PROVE  /\ Len(w[g]) = sz[g]
              /\ \A i \in 1 .. sz[g] : w[g][i] \in T /\ c[w[g][i]] = g /\ num[w[g][i]] = i
  <2>1. CASE g = h
    <3>1. sz[h] = len[a] + len[b]
      BY <1>2, <1>3
    <3>2. ASSUME NEW i \in 1 .. len[a] + len[b]
          PROVE  w[h][i] \in T /\ c[w[h][i]] = h /\ num[w[h][i]] = i
      <4>1. CASE i <= len[a]
        <5>1. i \in 1 .. len[a]
          BY <1>2, <4>1
        <5>2. w[h][i] = q[a][i]
          BY <1>5, <1>6, <4>1
        <5> QED BY <1>8, <5>1, <5>2
      <4>2. CASE ~ (i <= len[a])
        <5>1. i - len[a] \in 1 .. len[b] /\ i - len[a] + len[a] = i
          BY <1>2, <4>2
        <5>2. w[h][i] = q[b][i - len[a]]
          BY <1>5, <1>6, <4>2
        <5> QED BY <1>9, <5>1, <5>2
      <4> QED BY <4>1, <4>2
    <3> QED BY <1>5, <1>6, <2>1, <3>1, <3>2
  <2>2. CASE g = from
    <3>1. Len(w[g]) = 0 /\ sz[g] = 0
      BY <1>3, <1>6, <2>2
    <3> QED BY <3>1
  <2>3. CASE g \notin {h, from}
    <3>1. w[g] = q[g] /\ sz[g] = len[g] /\ Len(q[g]) = len[g]
      BY <1>1, <1>3, <1>6, <2>3
    <3>2. ASSUME NEW i \in 1 .. len[g] PROVE q[g][i] \in T /\ c[q[g][i]] = g /\ num[q[g][i]] = i
      BY <1>3, <1>4, <2>3
    <3> QED BY <3>1, <3>2
  <2> QED BY <2>1, <2>2, <2>3
<1> QED BY <1>7, <1>10 DEF Spells, w, c, num, sz

LEMMA AppendInOrder ==
  ASSUME NEW S \in SUBSET Nodes, NEW l, Good(l, S), NEW q, Ordered(l, S, q),
         NEW h \in Heads \cap S, NEW from \in Heads \cap S, h # from, ~empty(l, from)
  PROVE  /\ Good(append(l, h, from), S \ {from})
         /\ Ordered(append(l, h, from), S \ {from}, [q EXCEPT ![h] = q[from] \o q[h], ![from] = <<>>])
         /\ Good(append_back(l, h, from), S \ {from})
         /\ Ordered(append_back(l, h, from), S \ {from},
                    [q EXCEPT ![h] = q[h] \o q[from], ![from] = <<>>])
<1> DEFINE p == l.prev[h]
           r == __concat(l, from, h, l.next[h])
           u == __concat(l, from, p, l.next[p])
           T == S \ {from}
<1>1. PICK own, pos, len : Placed(l, S, own, pos, len) /\ Spells(q, S, own, pos, len)
  BY DEF Ordered
<1>2. /\ own[h] = h /\ pos[h] = 0 /\ own[from] = from /\ h # NoNode
  BY <1>1, NodesAssumption DEF Placed, Nodes
<1>3. p \in S /\ l.next[p] = h /\ own[p] = h /\ pos[p] = len[h]
  <2>1. LastInPlace(l, own, pos, len, h)
    BY <1>1, PlacedLast
  <2> QED BY <2>1 DEF LastInPlace, Good, Ring
<1>4. own[l.next[h]] = h
  BY <1>1, <1>2 DEF Placed
<1>5. append(l, h, from) = r /\ append_back(l, h, from) = u
  BY <1>3 DEF append, append_back
<1>6. h # from /\ l.next[h] # from /\ p # from /\ l.next[p] # from
  BY <1>2, <1>3, <1>4
<1> HIDE DEF p
<1>7. Good(r, T) /\ Good(u, T)
  BY <1>3, <1>6, ConcatKeepsRing
<1>8. /\ Placed(r, T, JoinOwn(own, h, from), JoinPos(own, pos, len, h, from), JoinLen(own, len, h, from))
      /\ Placed(u, T, JoinOwn(own, p, from), JoinPos(own, pos, len, p, from), JoinLen(own, len, p, from))
  BY <1>1, <1>2, <1>3, ConcatKeepsPlaces
<1>9. JoinedAt(pos, len, h, from, h, from, h) /\ JoinedAt(pos, len, h, from, p, h, from)
  BY <1>2, <1>3 DEF JoinedAt
<1>10. Spells([q EXCEPT ![h] = q[from] \o q[h], ![from] = <<>>], T,
              JoinOwn(own, h, from), JoinPos(own, pos, len, h, from), JoinLen(own, len, h, from))
  BY <1>1, <1>2, <1>9, JoinSpells
<1>11. Spells([q EXCEPT ![h] = q[h] \o q[from], ![from] = <<>>], T,
              JoinOwn(own, p, from), JoinPos(own, pos, len, p, from), JoinLen(own, len, p, from))
  BY <1>1, <1>3, <1>9, JoinSpells
<1> HIDE DEF r, u
<1>12. Ordered(r, T, [q EXCEPT ![h] = q[from] \o q[h], ![from] = <<>>])
  BY <1>8, <1>10 DEF Ordered
<1>13. Ordered(u, T, [q EXCEPT ![h] = q[h] \o q[from], ![from] = <<>>])
  BY <1>8, <1>11 DEF Ordered
<1> QED BY <1>5, <1>7, <1>12, <1>13

(* A head that is empty adds nothing.                                      *)
LEMMA EmptyIsSpelled ==
  ASSUME NEW S \in SUBSET Nodes, NEW l, Good(l, S), NEW q, Ordered(l, S, q), NEW h \in Heads \cap S
  PROVE  empty(l, h) <=> q[h] = <<>>
<1>1. PICK own, pos, len : Placed(l, S, own, pos, len) /\ Spells(q, S, own, pos, len)
  BY DEF Ordered
<1>2. FirstInPlace(l, own, pos, len, h)
  BY <1>1, PlacedFirst
<1>3. q[h] \in Seq(Elts) /\ Len(q[h]) = len[h] /\ len[h] \in Nat
  BY <1>1 DEF Spells, Placed
<1>4. q[h] = <<>> <=> len[h] = 0
  BY <1>3
<1> QED BY <1>2, <1>4 DEF FirstInPlace, empty

LEMMA InitInOrder ==
  ASSUME NEW S \in SUBSET Nodes, NEW l, Good(l, S), NEW q, Ordered(l, S, q),
         NEW h \in Heads, h \notin S
  PROVE  Ordered(__init(l, h), S \cup {h}, q)
<1>1. PICK own, pos, len : Placed(l, S, own, pos, len) /\ Spells(q, S, own, pos, len)
  BY DEF Ordered
<1> DEFINE c == [own EXCEPT ![h] = h]
           num == [pos EXCEPT ![h] = 0]
<1>2. Placed(__init(l, h), S \cup {h}, c, num, len)
  BY <1>1, InitKeepsPlaces
<1>3. \A n \in S : c[n] = own[n] /\ num[n] = pos[n]
  BY <1>1 DEF Placed
<1> HIDE DEF c, num
<1>4. Spells(q, S \cup {h}, c, num, len)
  BY <1>1, <1>3 DEF Spells
<1> QED BY <1>2, <1>4 DEF Ordered

(* The ends of a list.                                                     *)
EndsSpelled(l, S, q, h) ==
  /\ Len(q[h]) \in Nat /\ Len(q[h]) > 0
  /\ l.next[h] = q[h][1] /\ l.next[h] \in Elts \cap S
  /\ l.prev[h] = q[h][Len(q[h])] /\ l.prev[h] \in Elts \cap S

LEMMA EndsAreSpelled ==
  ASSUME NEW S \in SUBSET Nodes, NEW l, Good(l, S), NEW q, Ordered(l, S, q),
         NEW h \in Heads \cap S, ~empty(l, h)
  PROVE  EndsSpelled(l, S, q, h)
<1>1. PICK own, pos, len : Placed(l, S, own, pos, len) /\ Spells(q, S, own, pos, len)
  BY DEF Ordered
<1>2. q[h] \in Seq(Elts) /\ Len(q[h]) = len[h] /\ len[h] \in Nat /\ len[h] > 0
  <2>1. FirstInPlace(l, own, pos, len, h)
    BY <1>1, PlacedFirst
  <2> QED BY <1>1, <2>1 DEF Spells, Placed, FirstInPlace, empty
<1>3. l.next[h] = q[h][1]
  <2>1. 0 \in 0 .. len[h] /\ 0 + 1 \in 1 .. len[h] /\ 0 \notin 1 .. len[h]
    BY <1>2
  <2>2. NextInList(l, q, len, h, 0)
    BY <1>1, <2>1, NextPlace
  <2> QED BY <2>1, <2>2 DEF NextInList, At
<1>4. 1 \in 1 .. len[h] /\ len[h] \in 1 .. len[h]
  BY <1>2
<1>5. Letter(q, S, own, pos, len, h, 1) /\ Letter(q, S, own, pos, len, h, len[h])
  BY <1>1, <1>4, SpelledElement
<1>6. l.prev[h] = q[h][len[h]]
  <2>1. LastInPlace(l, own, pos, len, h)
    BY <1>1, PlacedLast
  <2>2. own[l.prev[h]] = h /\ pos[l.prev[h]] = len[h] /\ l.prev[h] \in S /\ h # NoNode
    BY <2>1, NodesAssumption DEF LastInPlace, Good, Ring, Nodes
  <2>3. q[h][len[h]] \in S /\ own[q[h][len[h]]] = h /\ pos[q[h][len[h]]] = len[h]
    BY <1>5 DEF Letter
  <2> QED BY <1>1, <2>2, <2>3 DEF Placed
<1> QED BY <1>2, <1>3, <1>5, <1>6 DEF Letter, EndsSpelled

LEMMA EndsOfSequence ==
  ASSUME NEW s \in Seq(Elts), Len(s) > 0
  PROVE  /\ L!RemoveAt(s, 1) = Tail(s)
         /\ L!RemoveAt(s, Len(s)) = L!Front(s)
<1>1. Len(s) \in Nat /\ s # <<>>
  BY EmptySeq
<1>2. /\ SubSeq(s, 1, 1 - 1) = <<>> /\ SubSeq(s, Len(s) + 1, Len(s)) = <<>>
  <2>1. SubSeq(s, 1, 0) = <<>>
    BY SubSeqEmpty
  <2>2. SubSeq(s, Len(s) + 1, Len(s)) = <<>>
    <3>1. Len(s) + 1 \in Int /\ Len(s) \in Int /\ Len(s) < Len(s) + 1
      BY <1>1
    <3> QED BY <3>1, SubSeqEmpty
  <2> QED BY <2>1, <2>2
<1>3. /\ SubSeq(s, 1 + 1, Len(s)) = Tail(s) /\ Tail(s) \in Seq(Elts)
  BY <1>1, TailIsSubSeq, HeadTailProperties
<1>4. SubSeq(s, 1, Len(s) - 1) \in Seq(Elts)
  <2>1. \A i \in 1 .. Len(s) - 1 : s[i] \in Elts
    BY <1>1, ElementOfSeq
  <2> QED BY <1>1, <2>1, SubSeqProperties
<1>5. L!RemoveAt(s, 1) = <<>> \o Tail(s)
  BY <1>2, <1>3 DEF L!RemoveAt
<1>6. L!RemoveAt(s, Len(s)) = SubSeq(s, 1, Len(s) - 1) \o <<>>
  BY <1>2 DEF L!RemoveAt
<1> QED BY <1>3, <1>4, <1>5, <1>6, ConcatEmptySeq DEF L!Front

LEMMA InsertAtEnd ==
  ASSUME NEW s \in Seq(Elts), NEW e \in Elts
  PROVE  L!InsertAt(s, Len(s) + 1, e) = Append(s, e)
<1>1. Len(s) \in Nat
  OBVIOUS
<1>2. SubSeq(s, 1, Len(s) + 1 - 1) = s
  <2>1. Len(s) + 1 - 1 = Len(s)
    BY <1>1
  <2> QED BY <2>1, SubSeqFull
<1>3. SubSeq(s, Len(s) + 1, Len(s)) = <<>>
  <2>1. Len(s) + 1 \in Int /\ Len(s) \in Int /\ Len(s) < Len(s) + 1
    BY <1>1
  <2> QED BY <2>1, SubSeqEmpty
<1>4. s \o <<e>> = Append(s, e) /\ s \o <<e>> \in Seq(Elts)
  BY AppendIsConcat, AppendProperties
<1>5. L!InsertAt(s, Len(s) + 1, e) = s \o <<e>> \o <<>>
  <2>1. L!InsertAt(s, Len(s) + 1, e)
          = SubSeq(s, 1, Len(s) + 1 - 1) \o <<e>> \o SubSeq(s, Len(s) + 1, Len(s))
    BY DEF L!InsertAt
  <2> QED BY <1>2, <1>3, <2>1, Zenon
<1> QED BY <1>4, <1>5, ConcatEmptySeq

EndsTaken(l, q, h) ==
  /\ L!Without(q, l.next[h]) = [q EXCEPT ![h] = Tail(q[h])]
  /\ L!Without(q, l.prev[h]) = [q EXCEPT ![h] = L!Front(q[h])]
  /\ L!PutBefore([q EXCEPT ![h] = Tail(q[h])], l.next[h], h)
       = [q EXCEPT ![h] = Append(Tail(q[h]), Head(q[h]))]

LEMMA WithoutAnEnd ==
  ASSUME NEW S \in SUBSET Nodes, NEW l, Good(l, S), NEW q, Ordered(l, S, q),
         NEW h \in Heads \cap S, ~empty(l, h)
  PROVE  EndsTaken(l, q, h)
<1>1. PICK own, pos, len : Placed(l, S, own, pos, len) /\ Spells(q, S, own, pos, len)
  BY DEF Ordered
<1> DEFINE s == q[h]
           first == l.next[h]
           last == l.prev[h]
<1>2. /\ Len(s) \in Nat /\ Len(s) > 0 /\ s \in Seq(Elts) /\ Len(s) = len[h]
      /\ first = s[1] /\ last = s[Len(s)] /\ first \in Elts \cap S /\ last \in Elts \cap S
      /\ q \in [Heads -> Seq(Elts)] /\ s # <<>>
  <2>1. /\ Len(s) \in Nat /\ Len(s) > 0
        /\ first = s[1] /\ last = s[Len(s)] /\ first \in Elts \cap S /\ last \in Elts \cap S
    <3>1. EndsSpelled(l, S, q, h)
      BY EndsAreSpelled
    <3> QED BY <3>1 DEF EndsSpelled
  <2>2. s \in Seq(Elts) /\ Len(s) = len[h] /\ q \in [Heads -> Seq(Elts)]
    BY <1>1 DEF Spells
  <2> QED BY <2>1, <2>2, EmptySeq
<1> HIDE DEF first, last
<1>3. ASSUME NEW e \in Elts \cap S, NEW i \in 1 .. Len(s), e = s[i]
      PROVE  L!Without(q, e) = [q EXCEPT ![h] = L!RemoveAt(s, i)]
  <2>1. Letter(q, S, own, pos, len, h, i)
    BY <1>1, <1>2, SpelledElement
  <2>2. own[e] = h /\ pos[e] = i
    BY <1>3, <2>1 DEF Letter
  <2>3. L!Without(q, e) = Out(q, own, pos, e)
    BY <1>1, ExtractSpells
  <2> QED BY <1>2, <2>2, <2>3 DEF Out
<1>4. L!RemoveAt(s, 1) = Tail(s) /\ L!RemoveAt(s, Len(s)) = L!Front(s)
  BY <1>2, EndsOfSequence
<1>5. /\ L!Without(q, first) = [q EXCEPT ![h] = Tail(s)]
      /\ L!Without(q, last) = [q EXCEPT ![h] = L!Front(s)]
  <2>1. 1 \in 1 .. Len(s) /\ Len(s) \in 1 .. Len(s)
    BY <1>2
  <2> HIDE DEF s
  <2>2. /\ L!Without(q, first) = [q EXCEPT ![h] = L!RemoveAt(s, 1)]
        /\ L!Without(q, last) = [q EXCEPT ![h] = L!RemoveAt(s, Len(s))]
    BY <1>2, <1>3, <2>1
  <2> QED BY <1>4, <2>2
<1> DEFINE w == [q EXCEPT ![h] = Tail(s)]
<1>6. Tail(s) \in Seq(Elts) /\ Head(s) = first
  BY <1>2, HeadTailProperties
<1>7. /\ \A g \in Heads : w[g] = IF g = h THEN Tail(s) ELSE q[g]
      /\ \A g \in Heads : w[g] \in Seq(Elts)
  BY <1>2, <1>6
<1> HIDE DEF w
<1>8. \A g \in Heads : L!IsOn(w, g, h) <=> g = h
  <2> SUFFICES ASSUME NEW g \in Heads, NEW i \in 1 .. Len(w[g]), w[g][i] = h PROVE FALSE
    BY DEF L!IsOn
  <2>1. w[g][i] \in Elts
    BY <1>7, ElementOfSeq
  <2> QED BY <2>1, NodesAssumption
<1>9. L!InsertAt(w[h], Len(w[h]) + 1, first) = Append(Tail(s), Head(s))
  BY <1>2, <1>6, <1>7, InsertAtEnd
<1>10. L!PutBefore(w, first, h)
         = [g \in Heads |-> IF g = h THEN Append(Tail(s), Head(s)) ELSE q[g]]
  BY <1>7, <1>8, <1>9 DEF L!PutBefore
<1>11. L!PutBefore(w, first, h) = [q EXCEPT ![h] = Append(Tail(s), Head(s))]
  BY <1>2, <1>10
<1> QED BY <1>5, <1>11 DEF w, first, last, EndsTaken

LEMMA PopsInOrder ==
  ASSUME NEW S \in SUBSET Nodes, NEW l, Good(l, S), NEW q, Ordered(l, S, q), NEW h \in Heads \cap S
  PROVE  /\ Good(pop(l, h), S) /\ Good(pop_back(l, h), S) /\ Good(rotate_left(l, h), S)
         /\ Ordered(pop(l, h), S, [q EXCEPT ![h] = IF @ = <<>> THEN @ ELSE Tail(@)])
         /\ Ordered(pop_back(l, h), S, [q EXCEPT ![h] = IF @ = <<>> THEN @ ELSE L!Front(@)])
         /\ Ordered(rotate_left(l, h), S,
                    [q EXCEPT ![h] = IF @ = <<>> THEN @ ELSE Append(Tail(@), Head(@))])
<1>1. q \in [Heads -> Seq(Elts)]
  BY DEF Ordered, Spells
<1>2. CASE empty(l, h)
  <2>1. q[h] = <<>>
    BY <1>2, EmptyIsSpelled
  <2>2. pop(l, h) = l /\ pop_back(l, h) = l /\ rotate_left(l, h) = l
    BY <1>2 DEF pop, pop_back, rotate_left
  <2>3. /\ [q EXCEPT ![h] = IF @ = <<>> THEN @ ELSE Tail(@)] = q
        /\ [q EXCEPT ![h] = IF @ = <<>> THEN @ ELSE L!Front(@)] = q
        /\ [q EXCEPT ![h] = IF @ = <<>> THEN @ ELSE Append(Tail(@), Head(@))] = q
    BY <1>1, <2>1
  <2> QED BY <2>2, <2>3
<1>3. CASE ~empty(l, h)
  <2> DEFINE first == l.next[h]
             last == l.prev[h]
  <2>1. first \in Elts \cap S /\ last \in Elts \cap S /\ Len(q[h]) > 0
    <3>1. EndsSpelled(l, S, q, h)
      BY <1>3, EndsAreSpelled
    <3> QED BY <3>1 DEF EndsSpelled
  <2>2. q[h] # <<>>
    BY <2>1, EmptySeq
  <2>3. /\ pop(l, h) = extract(l, first) /\ pop_back(l, h) = extract(l, last)
        /\ rotate_left(l, h) = move_elt_tail(l, first, h)
    BY <1>3 DEF pop, pop_back, rotate_left
  <2>4. /\ L!Without(q, first) = [q EXCEPT ![h] = Tail(q[h])]
        /\ L!Without(q, last) = [q EXCEPT ![h] = L!Front(q[h])]
        /\ L!PutBefore([q EXCEPT ![h] = Tail(q[h])], first, h)
             = [q EXCEPT ![h] = Append(Tail(q[h]), Head(q[h]))]
    <3>1. EndsTaken(l, q, h)
      BY <1>3, WithoutAnEnd
    <3> QED BY <3>1 DEF EndsTaken
  <2> HIDE DEF first, last
  <2>5. h # first /\ InAList(l, h)
    BY <2>1, NodesAssumption DEF InAList
  <2>6. /\ Good(extract(l, first), S) /\ Good(extract(l, last), S)
        /\ Good(move_elt_tail(l, first, h), S)
    BY <2>1, <2>5, ExtractKeepsRing, MoveKeepsRing
  <2>7. /\ Ordered(extract(l, first), S, L!Without(q, first))
        /\ Ordered(extract(l, last), S, L!Without(q, last))
        /\ Ordered(move_elt_tail(l, first, h), S, L!PutBefore(L!Without(q, first), first, h))
    BY <2>1, <2>5, ExtractInOrder, MoveInOrder
  <2>8. /\ [q EXCEPT ![h] = IF @ = <<>> THEN @ ELSE Tail(@)] = [q EXCEPT ![h] = Tail(q[h])]
        /\ [q EXCEPT ![h] = IF @ = <<>> THEN @ ELSE L!Front(@)] = [q EXCEPT ![h] = L!Front(q[h])]
        /\ [q EXCEPT ![h] = IF @ = <<>> THEN @ ELSE Append(Tail(@), Head(@))]
             = [q EXCEPT ![h] = Append(Tail(q[h]), Head(q[h]))]
    BY <2>2
  <2> QED BY <2>3, <2>4, <2>6, <2>7, <2>8
<1> QED BY <1>2, <1>3
-----------------------------------------------------------------------------
(* An element is linked to others exactly when it is in a sequence.        *)
IsQueued(q, e) == \E h \in Heads : \E i \in 1 .. Len(q[h]) : q[h][i] = e

LEMMA LinkedIsQueued ==
  ASSUME NEW S \in SUBSET Nodes, NEW l, Good(l, S), NEW q, Ordered(l, S, q), NEW e \in Elts \cap S
  PROVE  IsQueued(q, e) <=> ~empty(l, e)
<1>1. PICK own, pos, len : Placed(l, S, own, pos, len) /\ Spells(q, S, own, pos, len)
  BY DEF Ordered
<1>2. \A h \in Heads : OwnsOn(q, own, h, e)
  BY <1>1, OnIsOwned
<1>3. \A h \in Heads : (\E i \in 1 .. Len(q[h]) : q[h][i] = e) <=> own[e] = h
  BY <1>2 DEF OwnsOn
<1>4. IsQueued(q, e) <=> \E h \in Heads : own[e] = h
  BY <1>3 DEF IsQueued
<1>5. own[e] = NoNode <=> empty(l, e)
  BY <1>1, PlacedElement
<1>6. own[e] # NoNode => own[e] \in Heads
  BY <1>1, PlacedElement
<1> QED BY <1>4, <1>5, <1>6, NodesAssumption DEF Nodes

(* A list that is there is read back from the pointers.                    *)
LEMMA QueuedIsInSeq ==
  ASSUME NEW S \in SUBSET Nodes, NEW l, Good(l, S), NEW q, Ordered(l, S, q)
  PROVE  q \in [Heads -> Seq(Elts)]
BY DEF Ordered, Spells

-----------------------------------------------------------------------------
(* The inductive invariant: the live nodes form rings, and every node of a *)
(* ring has the place that the sequence of its head gives it.              *)
IInv ==
  /\ stale \subseteq Heads
  /\ Good(links, Live)
  /\ Ordered(links, Live, list)

(* What a step leaves: rings that spell these sequences.                   *)
Become(q) ==
  /\ stale' \subseteq Heads
  /\ Good(links', Live') /\ Ordered(links', Live', q)

LEMMA BecomesList == ASSUME NEW q, Become(q) PROVE IInv' /\ list' = q
<1>1. Live' = Nodes \ stale' /\ stale' \in SUBSET Heads
  BY DEF Become, Live
<1>2. q = Read(links', stale')
  BY <1>1, ReadIsSpelled DEF Become
<1>3. list' = Read(links', stale')
  BY DEF list, Read
<1> QED BY <1>2, <1>3 DEF IInv, Become

(* An operation that leaves the stale heads as they are has the pointers   *)
(* to keep.                                                                *)
LEMMA SameHeads ==
  ASSUME IInv, NEW l, Good(l, Live), NEW q, Ordered(l, Live, q), links' = l, stale' = stale
  PROVE  IInv' /\ list' = q
<1>1. Live' = Live
  BY DEF Live
<1>2. Become(q)
  BY <1>1 DEF Become, IInv
<1> QED BY <1>2, BecomesList

LEMMA SameLinks ==
  ASSUME IInv, links' = links, stale' = stale
  PROVE  IInv' /\ list' = list
<1>1. Good(links, Live) /\ Ordered(links, Live, list)
  BY DEF IInv
<1>2. \A q : q = list => (Ordered(links, Live, q) => IInv' /\ list' = q)
  BY <1>1, SameHeads
<1> QED BY <1>1, <1>2

(* At the beginning every node is alone, and every sequence is empty.      *)
LEMMA InitSound == Init => IInv /\ L!Init
<1> SUFFICES ASSUME Init PROVE IInv /\ L!Init
  OBVIOUS
<1> DEFINE own == [n \in Nodes |-> IF n \in Heads THEN n ELSE NoNode]
           pos == [n \in Nodes |-> 0]
           len == [h \in Heads |-> 0]
           q == [h \in Heads |-> <<>>]
<1>1. /\ Live = Nodes /\ stale = {}
      /\ links \in Links /\ \A n \in Nodes : links.next[n] = n /\ links.prev[n] = n
  BY DEF Init, Live, Links
<1>2. Good(links, Nodes)
  BY <1>1 DEF Good, Ring
<1>3. /\ \A n \in Nodes : own[n] = (IF n \in Heads THEN n ELSE NoNode) /\ pos[n] = 0
      /\ own \in [Nodes -> Heads \cup {NoNode}] /\ pos \in [Nodes -> Nat]
      /\ len \in [Heads -> Nat] /\ \A h \in Heads : len[h] = 0
  OBVIOUS
<1>4. /\ q \in [Heads -> Seq(Elts)]
      /\ \A h \in Heads : q[h] = <<>> /\ Len(q[h]) = 0
  OBVIOUS
<1> HIDE DEF own, pos, len
<1>5. Placed(links, Nodes, own, pos, len)
  BY <1>1, <1>3, NodesAssumption DEF Placed, Nodes
<1>6. Spells(q, Nodes, own, pos, len)
  BY <1>3, <1>4 DEF Spells
<1>7. Ordered(links, Nodes, q)
  BY <1>5, <1>6 DEF Ordered
<1>8. q = Read(links, stale)
  BY <1>1, <1>2, <1>7, ReadIsSpelled
<1>9. list = q
  BY <1>8 DEF list, Read
<1> QED BY <1>1, <1>2, <1>7, <1>9 DEF IInv, L!Init

-----------------------------------------------------------------------------
(* Each operation keeps the invariant, and does to the sequences what its  *)
(* comment says.                                                           *)
LEMMA LiveNodes ==
  ASSUME IInv
  PROVE  /\ Live \in SUBSET Nodes /\ Elts = Elts \cap Live
         /\ Good(links, Live) /\ Ordered(links, Live, list)
         /\ list \in [Heads -> Seq(Elts)]
<1>1. Good(links, Live) /\ Ordered(links, Live, list) /\ stale \subseteq Heads /\ Live \in SUBSET Nodes
  BY DEF IInv, Live
<1>2. Elts = Elts \cap Live
  BY <1>1, NodesAssumption DEF Live, Nodes
<1> QED BY <1>1, <1>2, QueuedIsInSeq

LEMMA UnlinkedIsNotQueued ==
  ASSUME IInv, NEW e \in Elts, empty(links, e)
  PROVE  e \notin L!Queued
<1>1. ~IsQueued(list, e)
  BY LiveNodes, LinkedIsQueued
<1> QED BY <1>1 DEF IsQueued, L!Queued, L!Members

LEMMA LinkedIsInQueued ==
  ASSUME IInv, NEW e \in Elts, ~empty(links, e)
  PROVE  e \in L!Queued
<1>1. IsQueued(list, e)
  BY LiveNodes, LinkedIsQueued
<1> QED BY <1>1 DEF IsQueued, L!Queued, L!Members

LEMMA InsertStep ==
  ASSUME IInv, NEW e \in Elts, NEW n \in Live, empty(links, e), InAList(links, n),
         stale' = stale
  PROVE  /\ links' = __insert(links, e, n, links.next[n]) => IInv' /\ L!InsertAfter(e, n)
         /\ links' = __insert(links, e, links.prev[n], n) => IInv' /\ L!InsertBefore(e, n)
<1>1. /\ Live \in SUBSET Nodes /\ e \in Elts \cap Live /\ n # e
      /\ Good(links, Live) /\ Ordered(links, Live, list)
  BY LiveNodes, NodesAssumption DEF InAList
<1>2. e \notin L!Queued
  BY UnlinkedIsNotQueued
<1>3. ASSUME links' = __insert(links, e, n, links.next[n])
      PROVE  IInv' /\ L!InsertAfter(e, n)
  <2>1. Good(links', Live)
    BY <1>1, <1>3, InsertKeepsRing
  <2>2. Ordered(links', Live, L!PutAfter(list, e, n))
    BY <1>1, <1>3, InsertInOrder
  <2>3. IInv' /\ list' = L!PutAfter(list, e, n)
    BY <2>1, <2>2, SameHeads
  <2> QED BY <1>2, <2>3 DEF L!InsertAfter
<1>4. ASSUME links' = __insert(links, e, links.prev[n], n)
      PROVE  IInv' /\ L!InsertBefore(e, n)
  <2>1. Good(links', Live)
    BY <1>1, <1>4, InsertBeforeKeepsRing
  <2>2. Ordered(links', Live, L!PutBefore(list, e, n))
    BY <1>1, <1>4, InsertInOrder
  <2>3. IInv' /\ list' = L!PutBefore(list, e, n)
    BY <2>1, <2>2, SameHeads
  <2> QED BY <1>2, <2>3 DEF L!InsertBefore
<1> QED BY <1>3, <1>4

LEMMA MoveStep ==
  ASSUME IInv, NEW e \in Elts, NEW n \in Live, n # e, InAList(links, n), stale' = stale
  PROVE  /\ links' = move_elt(links, e, n) => IInv' /\ L!MoveAfter(e, n)
         /\ links' = move_elt_tail(links, e, n) => IInv' /\ L!MoveBefore(e, n)
<1>1. /\ Live \in SUBSET Nodes /\ e \in Elts \cap Live
      /\ Good(links, Live) /\ Ordered(links, Live, list)
  BY LiveNodes
<1>2. Good(move_elt(links, e, n), Live) /\ Good(move_elt_tail(links, e, n), Live)
  BY <1>1, MoveKeepsRing
<1>3. /\ Ordered(move_elt(links, e, n), Live, L!PutAfter(L!Without(list, e), e, n))
      /\ Ordered(move_elt_tail(links, e, n), Live, L!PutBefore(L!Without(list, e), e, n))
  BY <1>1, MoveInOrder
<1>4. ASSUME links' = move_elt(links, e, n) PROVE IInv' /\ L!MoveAfter(e, n)
  <2>1. IInv' /\ list' = L!PutAfter(L!Without(list, e), e, n)
    BY <1>2, <1>3, <1>4, SameHeads
  <2> QED BY <2>1 DEF L!MoveAfter
<1>5. ASSUME links' = move_elt_tail(links, e, n) PROVE IInv' /\ L!MoveBefore(e, n)
  <2>1. IInv' /\ list' = L!PutBefore(L!Without(list, e), e, n)
    BY <1>2, <1>3, <1>5, SameHeads
  <2> QED BY <2>1 DEF L!MoveBefore
<1> QED BY <1>4, <1>5

LEMMA ExtractStep ==
  ASSUME IInv, NEW e \in Elts, links' = extract(links, e), stale' = stale
  PROVE  IInv' /\ L!TakeOut(e)
<1>1. /\ Live \in SUBSET Nodes /\ e \in Elts \cap Live
      /\ Good(links, Live) /\ Ordered(links, Live, list)
  BY LiveNodes
<1>2. Good(extract(links, e), Live)
  BY <1>1, ExtractKeepsRing
<1>3. Ordered(extract(links, e), Live, L!Without(list, e))
  BY <1>1, ExtractInOrder
<1>4. IInv' /\ list' = L!Without(list, e)
  BY <1>2, <1>3, SameHeads
<1> QED BY <1>4 DEF L!TakeOut

LEMMA InsertKeepsPromise ==
  ASSUME IInv, NEW e \in Elts, NEW n \in Nodes
  PROVE  /\ Insert_after(e, n) => IInv' /\ L!InsertAfter(e, n)
         /\ Insert_before(e, n) => IInv' /\ L!InsertBefore(e, n)
<1>1. Unlinked(e) /\ Linked(n) => n \in Live /\ empty(links, e) /\ InAList(links, n)
  BY DEF Unlinked, Linked, InAList
<1>2. Insert_after(e, n) => /\ Unlinked(e) /\ Linked(n) /\ stale' = stale
                            /\ links' = __insert(links, e, n, links.next[n])
  BY DEF Insert_after, Between, insert_after
<1>3. Insert_before(e, n) => /\ Unlinked(e) /\ Linked(n) /\ stale' = stale
                             /\ links' = __insert(links, e, links.prev[n], n)
  BY DEF Insert_before, Between, insert_before
<1> QED BY <1>1, <1>2, <1>3, InsertStep

LEMMA MoveKeepsPromise ==
  ASSUME IInv, NEW e \in Elts, NEW n \in Nodes
  PROVE  /\ Move_elt(e, n) => IInv' /\ L!MoveAfter(e, n)
         /\ Move_elt_tail(e, n) => IInv' /\ L!MoveBefore(e, n)
<1>1. Linked(n) => n \in Live /\ InAList(links, n)
  BY DEF Linked, InAList
<1>2. Move_elt(e, n) => e # n /\ Linked(n) /\ stale' = stale /\ links' = move_elt(links, e, n)
  BY DEF Move_elt, Between
<1>3. Move_elt_tail(e, n) => /\ e # n /\ Linked(n) /\ stale' = stale
                             /\ links' = move_elt_tail(links, e, n)
  BY DEF Move_elt_tail, Between
<1> QED BY <1>1, <1>2, <1>3, MoveStep

LEMMA ExtractKeepsPromise ==
  ASSUME IInv, NEW e \in Elts, Extract(e) PROVE IInv' /\ L!TakeOut(e)
BY ExtractStep DEF Extract, Between

LEMMA PushKeepsPromise ==
  ASSUME IInv, NEW h \in Heads, NEW e \in Elts
  PROVE  /\ Push(h, e) => IInv' /\ L!InsertAfter(e, h)
         /\ Push_back(h, e) => IInv' /\ L!InsertBefore(e, h)
<1>1. Unlinked(e) => empty(links, e)
  BY DEF Unlinked
<1>2. InAList(links, h)
  BY DEF InAList
<1>3. Push(h, e) => /\ Unlinked(e) /\ h \in Live /\ stale' = stale
                    /\ links' = __insert(links, e, h, links.next[h])
  BY DEF Push, Between
<1>4. Push_back(h, e) => /\ Unlinked(e) /\ h \in Live /\ stale' = stale
                         /\ links' = __insert(links, e, links.prev[h], h)
  BY DEF Push_back, Between
<1> QED BY <1>1, <1>2, <1>3, <1>4, InsertStep

LEMMA PopKeepsPromise ==
  ASSUME IInv, NEW h \in Heads
  PROVE  /\ Pop(h) => IInv' /\ L!TakeFirst(h)
         /\ Pop_back(h) => IInv' /\ L!TakeLast(h)
         /\ Rotate_left(h) => IInv' /\ L!RotateLeft(h)
<1>1. Live \in SUBSET Nodes /\ Good(links, Live) /\ Ordered(links, Live, list)
  BY LiveNodes
<1>2. ASSUME Pop(h) PROVE IInv' /\ L!TakeFirst(h)
  <2>1. h \in Heads \cap Live /\ links' = pop(links, h) /\ stale' = stale
    BY <1>2 DEF Pop, Between
  <2>2. /\ Good(pop(links, h), Live)
        /\ Ordered(pop(links, h), Live, [list EXCEPT ![h] = IF @ = <<>> THEN @ ELSE Tail(@)])
    BY <1>1, <2>1, PopsInOrder
  <2>3. IInv' /\ list' = [list EXCEPT ![h] = IF @ = <<>> THEN @ ELSE Tail(@)]
    BY <2>1, <2>2, SameHeads
  <2> QED BY <2>3 DEF L!TakeFirst
<1>3. ASSUME Pop_back(h) PROVE IInv' /\ L!TakeLast(h)
  <2>1. h \in Heads \cap Live /\ links' = pop_back(links, h) /\ stale' = stale
    BY <1>3 DEF Pop_back, Between
  <2>2. /\ Good(pop_back(links, h), Live)
        /\ Ordered(pop_back(links, h), Live, [list EXCEPT ![h] = IF @ = <<>> THEN @ ELSE L!Front(@)])
    BY <1>1, <2>1, PopsInOrder
  <2>3. IInv' /\ list' = [list EXCEPT ![h] = IF @ = <<>> THEN @ ELSE L!Front(@)]
    BY <2>1, <2>2, SameHeads
  <2> QED BY <2>3 DEF L!TakeLast
<1>4. ASSUME Rotate_left(h) PROVE IInv' /\ L!RotateLeft(h)
  <2>1. h \in Heads \cap Live /\ links' = rotate_left(links, h) /\ stale' = stale
    BY <1>4 DEF Rotate_left, Between
  <2>2. /\ Good(rotate_left(links, h), Live)
        /\ Ordered(rotate_left(links, h), Live,
                   [list EXCEPT ![h] = IF @ = <<>> THEN @ ELSE Append(Tail(@), Head(@))])
    BY <1>1, <2>1, PopsInOrder
  <2>3. IInv' /\ list' = [list EXCEPT ![h] = IF @ = <<>> THEN @ ELSE Append(Tail(@), Head(@))]
    BY <2>1, <2>2, SameHeads
  <2> QED BY <2>3 DEF L!RotateLeft
<1> QED BY <1>2, <1>3, <1>4

LEMMA ReplaceKeepsPromise ==
  ASSUME IInv, NEW e \in Elts, NEW old \in Elts, Replace(e, old)
  PROVE  IInv' /\ L!Substitute(old, e)
<1>1. /\ Live \in SUBSET Nodes /\ e \in Elts \cap Live /\ old \in Elts \cap Live
      /\ Good(links, Live) /\ Ordered(links, Live, list)
  BY LiveNodes
<1>2. e # old /\ empty(links, e) /\ links' = replace(links, e, old) /\ stale' = stale
  BY DEF Replace, Unlinked, Between
<1>3. Good(links', Live)
  BY <1>1, <1>2, ReplaceKeepsRing
<1>4. Ordered(links', Live, L!Renamed(list, old, e))
  BY <1>1, <1>2, ReplaceInOrder
<1>5. IInv' /\ list' = L!Renamed(list, old, e)
  BY <1>2, <1>3, <1>4, SameHeads
<1>6. e \notin L!Queued
  BY <1>2, UnlinkedIsNotQueued
<1> QED BY <1>5, <1>6 DEF L!Substitute

LEMMA SwapKeepsPromise ==
  ASSUME IInv, NEW a \in Elts, NEW b \in Elts, Swap(a, b)
  PROVE  IInv' /\ L!Exchange(a, b)
<1>1. /\ Live \in SUBSET Nodes /\ a \in Elts \cap Live /\ b \in Elts \cap Live
      /\ Good(links, Live) /\ Ordered(links, Live, list)
  BY LiveNodes
<1>2. /\ a # b /\ ~empty(links, a) /\ ~empty(links, b)
      /\ links' = swap(links, a, b) /\ stale' = stale
  BY NodesAssumption DEF Swap, Linked, Between
<1>3. Good(links', Live)
  BY <1>1, <1>2, SwapRenames
<1>4. Ordered(links', Live, L!Renamed(list, a, b))
  BY <1>1, <1>2, SwapInOrder
<1>5. IInv' /\ list' = L!Renamed(list, a, b)
  BY <1>2, <1>3, <1>4, SameHeads
<1>6. a \in L!Queued /\ b \in L!Queued
  BY <1>2, LinkedIsInQueued
<1> QED BY <1>5, <1>6 DEF L!Exchange

LEMMA ReplaceByKeepsPromise ==
  ASSUME IInv, NEW h \in Heads, NEW to \in Heads, Replace_by(h, to)
  PROVE  IInv' /\ L!Transfer(h, to)
<1>1. /\ Live \in SUBSET Nodes /\ Good(links, Live) /\ Ordered(links, Live, list)
  BY LiveNodes
<1>2. /\ h # to /\ h \in Heads \cap Live /\ to \in Heads \cap Live /\ empty(links, to)
      /\ links' = replace_by(links, h, to) /\ stale' = stale
  BY DEF Replace_by, Between
<1>3. /\ Good(replace_by(links, h, to), Live)
      /\ Ordered(replace_by(links, h, to), Live, [list EXCEPT ![to] = list[h], ![h] = list[to]])
  BY <1>1, <1>2, ReplaceByInOrder
<1>4. IInv' /\ list' = [list EXCEPT ![to] = list[h], ![h] = list[to]]
  BY <1>2, <1>3, SameHeads
<1>5. list[to] = <<>>
  BY <1>1, <1>2, EmptyIsSpelled
<1> QED BY <1>4, <1>5 DEF L!Transfer

LEMMA TruncateKeepsPromise ==
  ASSUME IInv, NEW h \in Heads, NEW e \in Elts, NEW to \in Heads, Truncate(h, e, to)
  PROVE  IInv' /\ L!Truncate(h, e, to)
<1>1. /\ Live \in SUBSET Nodes /\ Good(links, Live) /\ Ordered(links, Live, list)
      /\ e \in Elts \cap Live
  BY LiveNodes
<1>2. /\ h # to /\ h \in Heads \cap Live /\ to \in Heads \cap Live /\ empty(links, to)
      /\ InRing(links, Live, h, e)
      /\ links' = truncate(links, h, e, to) /\ stale' = stale
  BY DEF Truncate, IsIn, Between
<1>3. Good(links', Live)
  BY <1>1, <1>2, TruncateKeepsRing, NodesAssumption
<1>4. /\ list[to] = <<>> /\ \E i \in 1 .. Len(list[h]) : list[h][i] = e
      /\ Ordered(truncate(links, h, e, to), Live,
                 [list EXCEPT ![to] = SubSeq(list[h], 1, L!Index(list[h], e)),
                              ![h] = SubSeq(@, L!Index(@, e) + 1, Len(@))])
  BY <1>1, <1>2, TruncateInOrder
<1>5. IInv' /\ list' = [list EXCEPT ![to] = SubSeq(list[h], 1, L!Index(list[h], e)),
                                    ![h] = SubSeq(@, L!Index(@, e) + 1, Len(@))]
  BY <1>2, <1>3, <1>4, SameHeads
<1>6. e \in L!Members(h)
  BY <1>4 DEF L!Members
<1> QED BY <1>2, <1>4, <1>5, <1>6 DEF L!Truncate

LEMMA ReinitStep ==
  ASSUME IInv, NEW h \in Heads, Reinit(h) PROVE IInv' /\ list' = list
<1>1. /\ Live \in SUBSET Nodes /\ Good(links, Live) /\ Ordered(links, Live, list)
  BY LiveNodes
<1>2. /\ h \notin Live /\ h \in Nodes /\ stale' \subseteq Heads /\ Live' = Live \cup {h}
      /\ links' = __init(links, h)
  BY DEF Reinit, Live, Nodes, IInv
<1>3. Good(links', Live')
  BY <1>1, <1>2, InitKeepsRing
<1>4. Ordered(links', Live', list)
  BY <1>1, <1>2, InitInOrder
<1> QED BY <1>2, <1>3, <1>4, BecomesList DEF Become

(* Nothing is joined by an empty list.                                     *)
LEMMA NothingJoined ==
  ASSUME NEW q \in [Heads -> Seq(Elts)], NEW h \in Heads, NEW from \in Heads, h # from, q[from] = <<>>
  PROVE  /\ [q EXCEPT ![h] = q[from] \o @, ![from] = <<>>] = q
         /\ [q EXCEPT ![h] = @ \o q[from], ![from] = <<>>] = q
<1>1. q[h] \in Seq(Elts)
  OBVIOUS
<1>2. <<>> \o q[h] = q[h] /\ q[h] \o <<>> = q[h]
  BY <1>1, ConcatEmptySeq
<1> QED BY <1>2

LEMMA AppendKeepsPromise ==
  ASSUME IInv, NEW h \in Heads, NEW from \in Heads
  PROVE  /\ Append_list(h, from) => IInv' /\ L!Prepend(h, from)
         /\ Append_back(h, from) => IInv' /\ L!Join(h, from)
<1>1. /\ Live \in SUBSET Nodes /\ Good(links, Live) /\ Ordered(links, Live, list)
      /\ list \in [Heads -> Seq(Elts)] /\ stale \subseteq Heads
  BY LiveNodes DEF IInv
<1>2. SUFFICES ASSUME h # from, h \in Heads \cap Live, from \in Heads \cap Live,
                      stale' = IF empty(links, from) THEN stale ELSE stale \cup {from}
               PROVE  /\ links' = append(links, h, from) => IInv' /\ L!Prepend(h, from)
                      /\ links' = append_back(links, h, from) => IInv' /\ L!Join(h, from)
  <2>1. Append_list(h, from) =>
          /\ h # from /\ h \in Heads \cap Live /\ from \in Heads \cap Live
          /\ stale' = (IF empty(links, from) THEN stale ELSE stale \cup {from})
          /\ links' = append(links, h, from)
    BY DEF Append_list, Appending
  <2>2. Append_back(h, from) =>
          /\ h # from /\ h \in Heads \cap Live /\ from \in Heads \cap Live
          /\ stale' = (IF empty(links, from) THEN stale ELSE stale \cup {from})
          /\ links' = append_back(links, h, from)
    BY DEF Append_back, Appending
  <2> QED BY <1>2, <2>1, <2>2
<1>3. CASE empty(links, from)
  <2>1. list[from] = <<>>
    BY <1>1, <1>2, <1>3, EmptyIsSpelled
  <2>2. append(links, h, from) = links /\ append_back(links, h, from) = links /\ stale' = stale
    BY <1>2, <1>3 DEF append, append_back
  <2>3. links' = links => IInv' /\ list' = list
    BY <2>2, SameLinks
  <2>4. /\ [list EXCEPT ![h] = list[from] \o @, ![from] = <<>>] = list
        /\ [list EXCEPT ![h] = @ \o list[from], ![from] = <<>>] = list
    BY <1>1, <1>2, <2>1, NothingJoined
  <2>5. list' = list => L!Prepend(h, from) /\ L!Join(h, from)
    BY <1>2, <2>4 DEF L!Prepend, L!Join
  <2> QED BY <2>2, <2>3, <2>5
<1>4. CASE ~empty(links, from)
  <2>1. Live' = Live \ {from} /\ stale' \subseteq Heads
    BY <1>1, <1>2, <1>4 DEF Live
  <2>2. /\ Good(append(links, h, from), Live \ {from})
        /\ Ordered(append(links, h, from), Live \ {from},
                   [list EXCEPT ![h] = list[from] \o list[h], ![from] = <<>>])
        /\ Good(append_back(links, h, from), Live \ {from})
        /\ Ordered(append_back(links, h, from), Live \ {from},
                   [list EXCEPT ![h] = list[h] \o list[from], ![from] = <<>>])
    BY <1>1, <1>2, <1>4, AppendInOrder
  <2>3. ASSUME links' = append(links, h, from) PROVE IInv' /\ L!Prepend(h, from)
    <3>1. Become([list EXCEPT ![h] = list[from] \o list[h], ![from] = <<>>])
      BY <2>1, <2>2, <2>3 DEF Become
    <3>2. IInv' /\ list' = [list EXCEPT ![h] = list[from] \o list[h], ![from] = <<>>]
      BY <3>1, BecomesList
    <3> QED BY <1>2, <3>2 DEF L!Prepend
  <2>4. ASSUME links' = append_back(links, h, from) PROVE IInv' /\ L!Join(h, from)
    <3>1. Become([list EXCEPT ![h] = list[h] \o list[from], ![from] = <<>>])
      BY <2>1, <2>2, <2>4 DEF Become
    <3>2. IInv' /\ list' = [list EXCEPT ![h] = list[h] \o list[from], ![from] = <<>>]
      BY <3>1, BecomesList
    <3> QED BY <1>2, <3>2 DEF L!Join
  <2> QED BY <2>3, <2>4
<1> QED BY <1>3, <1>4

-----------------------------------------------------------------------------
(* The steps of a loop.  What its body may do is an operation on           *)
(* sequences; the iterator alone moves otherwise.                          *)
LEMMA BodyStep ==
  ASSUME IInv
  PROVE  /\ BodyExtract => IInv' /\ L!TakeOut(it.p_elt)
         /\ \A h \in Heads : BodyMove(h) => IInv' /\ L!MoveAfter(it.p_elt, h)
<1>1. BodyExtract => /\ it.p_elt \in Elts /\ links' = extract(links, it.p_elt) /\ stale' = stale
  BY DEF BodyExtract
<1>2. BodyExtract => IInv' /\ L!TakeOut(it.p_elt)
  BY <1>1, ExtractStep
<1>3. ASSUME NEW h \in Heads, BodyMove(h) PROVE IInv' /\ L!MoveAfter(it.p_elt, h)
  <2>1. /\ it.p_elt \in Elts /\ h \in Live /\ links' = move_elt(links, it.p_elt, h) /\ stale' = stale
    BY <1>3 DEF BodyMove
  <2>2. h # it.p_elt /\ InAList(links, h)
    BY <2>1, NodesAssumption DEF InAList
  <2> QED BY <2>1, <2>2, MoveStep
<1> QED BY <1>2, <1>3

LEMMA OtherStep ==
  ASSUME IInv, (\E h \in Heads : begin(h)) \/ Increment \/ EndLoop \/ UNCHANGED vars
  PROVE  IInv' /\ list' = list
<1>1. links' = links /\ stale' = stale
  BY DEF begin, Increment, EndLoop, vars
<1> QED BY <1>1, SameLinks

(* Every step keeps the invariant, and is one operation of the sequences   *)
(* or leaves them alone.                                                   *)
LEMMA StepOnLists == IInv /\ [Next]_vars => IInv' /\ [L!Next]_list
<1> SUFFICES ASSUME IInv, [Next]_vars PROVE IInv' /\ [L!Next]_list
  OBVIOUS
<1>1. ASSUME NEW e \in Elts, NEW n \in Nodes,
             Insert_after(e, n) \/ Insert_before(e, n) \/ Move_elt(e, n) \/ Move_elt_tail(e, n)
      PROVE  IInv' /\ L!Next
  <2>1. /\ IInv'
        /\ L!InsertAfter(e, n) \/ L!InsertBefore(e, n) \/ L!MoveAfter(e, n) \/ L!MoveBefore(e, n)
    BY <1>1, InsertKeepsPromise, MoveKeepsPromise
  <2> QED BY <2>1 DEF L!Next, Nodes
<1>2. ASSUME NEW e \in Elts, NEW f \in Elts, Replace(e, f) \/ Swap(e, f)
      PROVE  IInv' /\ L!Next
  <2>1. IInv' /\ (L!Substitute(f, e) \/ L!Exchange(e, f))
    BY <1>2, ReplaceKeepsPromise, SwapKeepsPromise
  <2> QED BY <2>1 DEF L!Next
<1>3. ASSUME NEW e \in Elts, Extract(e) PROVE IInv' /\ L!Next
  <2>1. IInv' /\ L!TakeOut(e)
    BY <1>3, ExtractKeepsPromise
  <2> QED BY <2>1 DEF L!Next
<1>4. ASSUME NEW h \in Heads, NEW e \in Elts, Push(h, e) \/ Push_back(h, e)
      PROVE  IInv' /\ L!Next
  <2>1. IInv' /\ (L!InsertAfter(e, h) \/ L!InsertBefore(e, h))
    BY <1>4, PushKeepsPromise
  <2> QED BY <2>1 DEF L!Next
<1>5. ASSUME NEW h \in Heads, Pop(h) \/ Pop_back(h) \/ Rotate_left(h) PROVE IInv' /\ L!Next
  <2>1. IInv' /\ (L!TakeFirst(h) \/ L!TakeLast(h) \/ L!RotateLeft(h))
    BY <1>5, PopKeepsPromise
  <2> QED BY <2>1 DEF L!Next
<1>6. ASSUME NEW h \in Heads, NEW g \in Heads,
             Replace_by(h, g) \/ Append_list(h, g) \/ Append_back(h, g)
      PROVE  IInv' /\ L!Next
  <2>1. IInv' /\ (L!Transfer(h, g) \/ L!Prepend(h, g) \/ L!Join(h, g))
    BY <1>6, ReplaceByKeepsPromise, AppendKeepsPromise
  <2> QED BY <2>1 DEF L!Next
<1>7. ASSUME NEW h \in Heads, NEW g \in Heads, NEW e \in Elts, Truncate(h, e, g)
      PROVE  IInv' /\ L!Next
  <2>1. IInv' /\ L!Truncate(h, e, g)
    BY <1>7, TruncateKeepsPromise
  <2> QED BY <2>1 DEF L!Next
<1>8. ASSUME NEW h \in Heads, BodyMove(h) PROVE IInv' /\ L!Next
  <2>1. it.p_elt \in Elts /\ IInv' /\ L!MoveAfter(it.p_elt, h)
    BY <1>8, BodyStep DEF BodyMove
  <2> QED BY <2>1 DEF L!Next
<1>9. ASSUME BodyExtract PROVE IInv' /\ L!Next
  <2>1. it.p_elt \in Elts /\ IInv' /\ L!TakeOut(it.p_elt)
    BY <1>9, BodyStep DEF BodyExtract
  <2> QED BY <2>1 DEF L!Next
<1>10. ASSUME NEW h \in Heads, Reinit(h) PROVE IInv' /\ list' = list
  BY <1>10, ReinitStep
<1>11. ASSUME (\E h \in Heads : begin(h)) \/ Increment \/ EndLoop \/ UNCHANGED vars
       PROVE  IInv' /\ list' = list
  BY <1>11, OtherStep
<1> QED
  BY <1>1, <1>2, <1>3, <1>4, <1>5, <1>6, <1>7, <1>8, <1>9, <1>10, <1>11 DEF Next

-----------------------------------------------------------------------------
(* The loop.  Behind the element under the iterator nothing is linked any  *)
(* more as it was; ahead of the cached p_next everything still is.         *)
AtLoop(E, h, j) == IF j \in 1 .. Len(E) THEN E[j] ELSE h
Once(E) == \A i, j \in 1 .. Len(E) : E[i] = E[j] => i = j
Ahead(l, E, h, k) == \A j \in k + 2 .. Len(E) : l.next[E[j]] = AtLoop(E, h, j + 1)

InLoop ==
  LET E == loop.expected
      k == Len(loop.visited)
  IN  /\ loop.head \in Live /\ Once(E)
      /\ k <= Len(E) /\ \A i \in 1 .. k : loop.visited[i] = E[i]
      /\ it.p_elt = AtLoop(E, loop.head, k + 1)
      /\ k < Len(E) => it.p_next = AtLoop(E, loop.head, k + 2)
      /\ Ahead(links, E, loop.head, k)

LoopInv ==
  /\ it \in [p_elt : Nodes \cup {NoNode}, p_prev : Nodes \cup {NoNode}, p_next : Nodes \cup {NoNode}]
  /\ loop \in [head : Heads \cup {NoNode}, expected : Seq(Elts), visited : Seq(Elts)]
  /\ loop.head # NoNode => {it.p_elt, it.p_prev, it.p_next} \subseteq Nodes /\ InLoop

(* The next element of every element of a list is the next of its sequence. *)
LEMMA ListIsAhead ==
  ASSUME NEW S \in SUBSET Nodes, NEW l, Good(l, S), NEW q, Ordered(l, S, q), NEW h \in Heads \cap S
  PROVE  /\ q[h] \in Seq(Elts) /\ Once(q[h])
         /\ l.next[h] = AtLoop(q[h], h, 1)
         /\ 0 < Len(q[h]) => l.next[l.next[h]] = AtLoop(q[h], h, 2)
         /\ Ahead(l, q[h], h, 0)
<1>1. PICK own, pos, len : Placed(l, S, own, pos, len) /\ Spells(q, S, own, pos, len)
  BY DEF Ordered
<1>2. q[h] \in Seq(Elts) /\ len[h] = Len(q[h]) /\ len[h] \in Nat
  BY <1>1 DEF Spells, Placed
<1>3. ASSUME NEW i \in 1 .. Len(q[h]) PROVE pos[q[h][i]] = i
  <2>1. Letter(q, S, own, pos, len, h, i)
    BY <1>1, <1>2, <1>3, SpelledElement
  <2> QED BY <2>1 DEF Letter
<1>4. Once(q[h])
  BY <1>3 DEF Once
<1>5. ASSUME NEW i \in 0 .. Len(q[h])
      PROVE  l.next[At(q, len, h, i)] = AtLoop(q[h], h, i + 1)
  <2>1. NextInList(l, q, len, h, i)
    BY <1>1, <1>2, <1>5, NextPlace
  <2>2. At(q, len, h, i + 1) = AtLoop(q[h], h, i + 1)
    BY <1>2 DEF At, AtLoop
  <2> QED BY <2>1, <2>2 DEF NextInList
<1>6. At(q, len, h, 0) = h /\ \A i \in 1 .. Len(q[h]) : At(q, len, h, i) = q[h][i]
  BY <1>2 DEF At
<1>7. 0 \in 0 .. Len(q[h]) /\ (0 < Len(q[h]) => 1 \in 0 .. Len(q[h]) /\ 1 \in 1 .. Len(q[h]))
  BY <1>2
<1>8. l.next[h] = AtLoop(q[h], h, 1)
  BY <1>5, <1>6, <1>7
<1>9. 0 < Len(q[h]) => l.next[q[h][1]] = AtLoop(q[h], h, 2)
  <2>1. 0 < Len(q[h]) => l.next[q[h][1]] = AtLoop(q[h], h, 1 + 1)
    BY <1>5, <1>6, <1>7
  <2> QED BY <2>1
<1>10. 0 < Len(q[h]) => AtLoop(q[h], h, 1) = q[h][1]
  BY <1>7 DEF AtLoop
<1>11. Ahead(l, q[h], h, 0)
  <2> SUFFICES ASSUME NEW j \in 0 + 2 .. Len(q[h]) PROVE l.next[q[h][j]] = AtLoop(q[h], h, j + 1)
    BY DEF Ahead
  <2>1. j \in 0 .. Len(q[h]) /\ j \in 1 .. Len(q[h])
    BY <1>2
  <2> QED BY <1>5, <1>6, <2>1
<1> QED BY <1>2, <1>4, <1>8, <1>9, <1>10, <1>11

(* What the body of a loop may do to the other elements: it takes the      *)
(* current one out, which does not disturb what is ahead.                  *)
LinksBut(r, l, e) ==
  \A n \in Elts \ {e} : r.next[n] = IF l.next[n] = e THEN l.next[e] ELSE l.next[n]

LEMMA AheadKept ==
  ASSUME NEW E \in Seq(Elts), Once(E), NEW h \in Heads, NEW k \in Nat, k < Len(E),
         NEW l, Ahead(l, E, h, k), NEW r, LinksBut(r, l, E[k + 1])
  PROVE  Ahead(r, E, h, k)
<1> SUFFICES ASSUME NEW j \in k + 2 .. Len(E) PROVE r.next[E[j]] = AtLoop(E, h, j + 1)
  BY DEF Ahead
<1>1. /\ j \in 1 .. Len(E) /\ k + 1 \in 1 .. Len(E) /\ j # k + 1
      /\ j + 1 # k + 1 /\ (j + 1 \in 1 .. Len(E) \/ j + 1 \notin 1 .. Len(E))
  OBVIOUS
<1>2. E[j] \in Elts /\ E[k + 1] \in Elts /\ E[j] # E[k + 1]
  BY <1>1 DEF Once
<1>3. l.next[E[j]] = AtLoop(E, h, j + 1)
  BY DEF Ahead
<1>4. AtLoop(E, h, j + 1) # E[k + 1]
  BY <1>1, <1>2, NodesAssumption DEF Once, AtLoop
<1> QED BY <1>2, <1>3, <1>4 DEF LinksBut

LEMMA BodyLinks ==
  ASSUME NEW S \in SUBSET Nodes, Elts \subseteq S, NEW l, Good(l, S), NEW e \in Elts
  PROVE  /\ LinksBut(extract(l, e), l, e)
         /\ \A h \in Heads \cap S : LinksBut(move_elt(l, e, h), l, e)
<1>1. LinksBut(extract(l, e), l, e) /\ Good(extract(l, e), S)
  BY ExtractKeepsRing DEF LinksBut
<1>2. ASSUME NEW h \in Heads \cap S PROVE LinksBut(move_elt(l, e, h), l, e)
  <2> DEFINE x == extract(l, e)
  <2>1. h # e /\ e \in S
    BY NodesAssumption
  <2>2. move_elt(l, e, h) = insert_after(x, e, h)
    BY <2>1, MoveIsExtractAndInsert
  <2>3. x \in Links /\ e \in Nodes /\ h \in Nodes
    BY <1>1 DEF Good, Nodes
  <2> HIDE DEF x
  <2>4. insert_after(x, e, h).next = [x.next EXCEPT ![e] = x.next[h], ![h] = e]
    BY DEF insert_after, __insert
  <2>5. ASSUME NEW n \in Elts \ {e} PROVE insert_after(x, e, h).next[n] = x.next[n]
    BY <2>3, <2>4, NodesAssumption DEF Links, Nodes
  <2> QED BY <1>1, <2>2, <2>5 DEF LinksBut, x
<1> QED BY <1>1, <1>2

LEMMA InLoopKept ==
  ASSUME IInv, LoopInv, AtElement, it.p_elt \in Elts, LinksBut(links', links, it.p_elt),
         UNCHANGED <<stale, it, loop>>
  PROVE  LoopInv'
<1> DEFINE E == loop.expected
           k == Len(loop.visited)
<1>1. /\ loop.head # NoNode /\ it.p_elt # loop.head /\ InLoop
      /\ E \in Seq(Elts) /\ k \in Nat /\ loop.head \in Heads
  BY DEF LoopInv, AtElement
<1>2. k < Len(E) /\ it.p_elt = E[k + 1]
  BY <1>1 DEF InLoop, AtLoop
<1>3. Ahead(links, E, loop.head, k) /\ Once(E)
  BY <1>1 DEF InLoop
<1>4. LinksBut(links', links, E[k + 1])
  BY <1>2
<1>5. Ahead(links', E, loop.head, k)
  BY <1>1, <1>2, <1>3, <1>4, AheadKept
<1>6. Live' = Live
  BY DEF Live
<1>7. InLoop'
  BY <1>1, <1>5, <1>6 DEF InLoop
<1> QED BY <1>1, <1>7 DEF LoopInv

LEMMA BeginLoop ==
  ASSUME IInv, NEW h \in Heads, begin(h) PROVE LoopInv'
<1> DEFINE E == list[h]
<1>1. /\ Live \in SUBSET Nodes /\ Good(links, Live) /\ Ordered(links, Live, list)
      /\ h \in Heads \cap Live /\ Live' = Live /\ links' = links
  BY LiveNodes DEF begin, Live
<1>2. /\ E \in Seq(Elts) /\ Once(E)
      /\ links.next[h] = AtLoop(E, h, 1)
      /\ 0 < Len(E) => links.next[links.next[h]] = AtLoop(E, h, 2)
      /\ Ahead(links, E, h, 0)
  BY <1>1, ListIsAhead
<1>3. h \in Nodes /\ links \in Links
  BY <1>1 DEF Good
<1>4. {links.next[h], links.prev[links.next[h]], links.next[links.next[h]]} \subseteq Nodes
  BY <1>3 DEF Links
<1> HIDE DEF E
<1>5. /\ it' = [p_elt |-> links.next[h], p_prev |-> links.prev[links.next[h]],
                p_next |-> links.next[links.next[h]]]
      /\ loop' = [head |-> h, expected |-> E, visited |-> <<>>]
  BY DEF begin, E
<1>6. /\ loop'.head = h /\ loop'.expected = E /\ loop'.visited = <<>> /\ Len(loop'.visited) = 0
      /\ it'.p_elt = links.next[h] /\ it'.p_next = links.next[links.next[h]]
      /\ it'.p_prev = links.prev[links.next[h]]
  BY <1>5
<1>7. Len(E) \in Nat /\ <<>> \in Seq(Elts)
  BY <1>2
<1>8. InLoop'
  BY <1>1, <1>2, <1>6, <1>7 DEF InLoop
<1>9. loop' \in [head : Heads \cup {NoNode}, expected : Seq(Elts), visited : Seq(Elts)]
  BY <1>2, <1>5, <1>7
<1>10. it' \in [p_elt : Nodes \cup {NoNode}, p_prev : Nodes \cup {NoNode}, p_next : Nodes \cup {NoNode}]
  BY <1>4, <1>5
<1> QED BY <1>4, <1>6, <1>8, <1>9, <1>10 DEF LoopInv

LEMMA IncrementLoop ==
  ASSUME IInv, LoopInv, Increment PROVE LoopInv'
<1> DEFINE E == loop.expected
           V == loop.visited
           k == Len(loop.visited)
           h == loop.head
<1>1. /\ h # NoNode /\ it.p_elt # h /\ InLoop
      /\ E \in Seq(Elts) /\ V \in Seq(Elts) /\ k \in Nat /\ Len(E) \in Nat /\ h \in Heads
      /\ {it.p_elt, it.p_prev, it.p_next} \subseteq Nodes
  BY DEF LoopInv, Increment, AtElement
<1>2. /\ Live' = Live /\ links' = links /\ links \in Links
  BY DEF Increment, Live, IInv, Good
<1>3. /\ h \in Live /\ Once(E) /\ k <= Len(E) /\ (\A i \in 1 .. k : V[i] = E[i])
      /\ it.p_elt = AtLoop(E, h, k + 1)
      /\ k < Len(E) => it.p_next = AtLoop(E, h, k + 2)
      /\ Ahead(links, E, h, k)
  BY <1>1 DEF InLoop
<1>4. k < Len(E) /\ it.p_elt = E[k + 1] /\ k + 1 \in 1 .. Len(E)
  BY <1>1, <1>3 DEF AtLoop
<1>5. /\ it' = [p_elt |-> it.p_next, p_prev |-> it.p_elt, p_next |-> links.next[it.p_next]]
      /\ loop' = [head |-> h, expected |-> E, visited |-> Append(V, it.p_elt)]
  BY DEF Increment, NextElement, LoopInv
<1>6. /\ loop'.head = h /\ loop'.expected = E /\ loop'.visited = Append(V, it.p_elt)
      /\ it'.p_elt = it.p_next /\ it'.p_next = links.next[it.p_next] /\ it'.p_prev = it.p_elt
  BY <1>5
<1>7. it.p_elt \in Elts
  BY <1>1, <1>4
<1> DEFINE W == Append(V, it.p_elt)
<1>8. W \in Seq(Elts) /\ Len(W) = k + 1 /\ \A i \in 1 .. k + 1 : W[i] = IF i = k + 1 THEN it.p_elt ELSE V[i]
  BY <1>1, <1>7
<1>9. links.next[it.p_next] \in Nodes
  BY <1>1, <1>2 DEF Links
<1>10. it' \in [p_elt : Nodes \cup {NoNode}, p_prev : Nodes \cup {NoNode}, p_next : Nodes \cup {NoNode}]
  BY <1>1, <1>5, <1>9
<1>11. loop' \in [head : Heads \cup {NoNode}, expected : Seq(Elts), visited : Seq(Elts)]
  BY <1>1, <1>5, <1>8
<1>12. \A i \in 1 .. k + 1 : W[i] = E[i]
  BY <1>1, <1>3, <1>4, <1>8
<1>13. k + 1 < Len(E) => links.next[it.p_next] = AtLoop(E, h, k + 3)
  <2> SUFFICES ASSUME k + 1 < Len(E) PROVE links.next[it.p_next] = AtLoop(E, h, k + 3)
    OBVIOUS
  <2>1. k + 2 \in k + 2 .. Len(E) /\ k + 2 \in 1 .. Len(E)
    BY <1>1
  <2>2. it.p_next = E[k + 2]
    BY <1>3, <1>4, <2>1 DEF AtLoop
  <2>3. links.next[E[k + 2]] = AtLoop(E, h, (k + 2) + 1)
    BY <1>3, <2>1 DEF Ahead
  <2>4. (k + 2) + 1 = k + 3
    BY <1>1
  <2> QED BY <2>2, <2>3, <2>4
<1>14. Ahead(links, E, h, k + 1)
  BY <1>1, <1>3 DEF Ahead
<1>15. k + 1 <= Len(E) /\ (k + 1) + 1 = k + 2 /\ (k + 1) + 2 = k + 3
  BY <1>1, <1>4
<1>16. Len(loop'.visited) = k + 1 /\ \A i \in 1 .. k + 1 : (loop'.visited)[i] = E[i]
  BY <1>6, <1>8, <1>12
<1> HIDE DEF E, V, k, h, W
<1>17. InLoop'
  BY <1>2, <1>3, <1>4, <1>6, <1>13, <1>14, <1>15, <1>16 DEF InLoop
<1> QED BY <1>1, <1>6, <1>9, <1>10, <1>11, <1>17 DEF LoopInv

LEMMA InitLoop == Init => LoopInv
BY DEF Init, LoopInv, NoIter, NoLoop

LEMMA LoopStep == IInv /\ LoopInv /\ [Next]_vars => LoopInv'
<1> SUFFICES ASSUME IInv, LoopInv, [Next]_vars PROVE LoopInv'
  OBVIOUS
<1>1. Live \in SUBSET Nodes /\ Elts \subseteq Live /\ Good(links, Live)
  BY LiveNodes
<1>2. ASSUME Idle, UNCHANGED <<it, loop>> PROVE LoopInv'
  BY <1>2 DEF LoopInv, Idle
<1>3. ASSUME NEW l, Between(l) PROVE LoopInv'
  BY <1>2, <1>3 DEF Between
<1>4. ASSUME NEW e \in Elts, NEW n \in Nodes,
             Insert_after(e, n) \/ Insert_before(e, n) \/ Move_elt(e, n) \/ Move_elt_tail(e, n)
      PROVE  LoopInv'
  BY <1>3, <1>4 DEF Insert_after, Insert_before, Move_elt, Move_elt_tail
<1>5. ASSUME NEW e \in Elts, NEW f \in Elts, Replace(e, f) \/ Swap(e, f) \/ Extract(e)
      PROVE  LoopInv'
  BY <1>3, <1>5 DEF Replace, Swap, Extract
<1>6. ASSUME NEW h \in Heads, NEW e \in Elts, Push(h, e) \/ Push_back(h, e) PROVE LoopInv'
  BY <1>3, <1>6 DEF Push, Push_back
<1>7. ASSUME NEW h \in Heads, Pop(h) \/ Pop_back(h) \/ Rotate_left(h) PROVE LoopInv'
  BY <1>3, <1>7 DEF Pop, Pop_back, Rotate_left
<1>8. ASSUME NEW h \in Heads, NEW g \in Heads, NEW e \in Elts, Replace_by(h, g) \/ Truncate(h, e, g)
      PROVE  LoopInv'
  BY <1>3, <1>8 DEF Replace_by, Truncate
<1>9. ASSUME NEW h \in Heads, NEW g \in Heads,
             Replace_by(h, g) \/ Append_list(h, g) \/ Append_back(h, g)
      PROVE  LoopInv'
  BY <1>2, <1>3, <1>9 DEF Replace_by, Append_list, Append_back, Appending
<1>10. ASSUME NEW h \in Heads, Reinit(h) PROVE LoopInv'
  BY <1>2, <1>10 DEF Reinit
<1>11. ASSUME NEW h \in Heads, begin(h) PROVE LoopInv'
  BY <1>11, BeginLoop
<1>12. ASSUME NEW h \in Heads, BodyMove(h) PROVE LoopInv'
  <2>1. /\ AtElement /\ it.p_elt \in Elts /\ h \in Heads \cap Live
        /\ links' = move_elt(links, it.p_elt, h) /\ UNCHANGED <<stale, it, loop>>
    BY <1>12 DEF BodyMove
  <2>2. LinksBut(links', links, it.p_elt)
    BY <1>1, <2>1, BodyLinks
  <2> QED BY <2>1, <2>2, InLoopKept
<1>13. ASSUME BodyExtract PROVE LoopInv'
  <2>1. /\ AtElement /\ it.p_elt \in Elts
        /\ links' = extract(links, it.p_elt) /\ UNCHANGED <<stale, it, loop>>
    BY <1>13 DEF BodyExtract
  <2>2. LinksBut(links', links, it.p_elt)
    BY <1>1, <2>1, BodyLinks
  <2> QED BY <2>1, <2>2, InLoopKept
<1>14. ASSUME Increment PROVE LoopInv'
  BY <1>14, IncrementLoop
<1>15. ASSUME EndLoop PROVE LoopInv'
  BY <1>15 DEF EndLoop, LoopInv, NoIter, NoLoop
<1>16. ASSUME UNCHANGED vars PROVE LoopInv'
  BY <1>16 DEF vars, LoopInv, InLoop, Live
<1> QED
  BY <1>4, <1>5, <1>6, <1>7, <1>8, <1>9, <1>10, <1>11, <1>12, <1>13, <1>14, <1>15, <1>16 DEF Next

-----------------------------------------------------------------------------
(* Every pointer that the lists and an iterator hold designates a node,    *)
(* and the heads alone are ever stale, for any number of lists and         *)
(* elements.                                                               *)
THEOREM TypesAlways == Spec => []TypeOK
<1>1. Init => IInv /\ LoopInv
  BY InitSound, InitLoop
<1>2. IInv /\ LoopInv /\ [Next]_vars => IInv' /\ LoopInv'
  BY StepOnLists, LoopStep
<1>3. IInv /\ LoopInv => TypeOK
  BY DEF IInv, LoopInv, Good, Links, TypeOK
<1> QED BY <1>1, <1>2, <1>3, PTL DEF Spec

(* The operations of the lists never break a ring nor lead to a stale      *)
(* head, for any number of heads and of elements.                          *)
THEOREM RingsAlways == Spec => []Rings
<1>1. Init => IInv
  BY InitSound
<1>2. IInv /\ [Next]_vars => IInv'
  BY StepOnLists
<1>3. IInv => Rings
  BY DEF IInv, Good, Rings
<1> QED BY <1>1, <1>2, <1>3, PTL DEF Spec

(* No element is ever lost by the lists, nor in two of them, whatever was  *)
(* inserted, moved, exchanged, cut and joined.                             *)
THEOREM PartitionAlways == Spec => []ListsArePartition
<1>1. Init => IInv
  BY InitSound
<1>2. IInv /\ [Next]_vars => IInv'
  BY StepOnLists
<1>3. IInv => ListsArePartition
  <2> SUFFICES ASSUME IInv, NEW n \in Live, Linked(n)
               PROVE  \E h \in Heads : IsIn(h, n) /\ \A g \in Heads : IsIn(g, n) => g = h
    BY DEF ListsArePartition
  <2>1. Live \in SUBSET Nodes /\ Good(links, Live) /\ Ordered(links, Live, list)
    BY LiveNodes
  <2>2. PICK own, pos, len : Placed(links, Live, own, pos, len) /\ Spells(list, Live, own, pos, len)
    BY <2>1 DEF Ordered
  <2>3. own[n] # NoNode
    BY <2>1, <2>2, InAListIsOwned DEF Linked, InAList
  <2>4. own[n] \in Heads \cap Live
    BY <2>2, <2>3 DEF Placed, Live
  <2>5. ASSUME NEW g \in Heads \cap Live PROVE InRing(links, Live, g, n) <=> own[n] = g
    BY <2>1, <2>2, <2>5, RingIsOwned
  <2> QED BY <2>4, <2>5 DEF IsIn
<1> QED BY <1>1, <1>2, <1>3, PTL DEF Spec

(* A loop over a list visits what the list held when it began, once and in *)
(* order, whatever elements its body takes out or moves to other lists:    *)
(* the pointer that operator++ follows was read before the body ran, and   *)
(* still designates the element that is next.                              *)
THEOREM LoopsVisitAll == Spec => []LoopVisitsAll
<1>1. Init => IInv /\ LoopInv
  BY InitSound, InitLoop
<1>2. IInv /\ LoopInv /\ [Next]_vars => IInv' /\ LoopInv'
  BY StepOnLists, LoopStep
<1>3. LoopInv => LoopVisitsAll
  <2> SUFFICES ASSUME LoopInv, loop.head # NoNode
               PROVE  /\ Len(loop.visited) <= Len(loop.expected)
                      /\ \A i \in 1 .. Len(loop.visited) : loop.visited[i] = loop.expected[i]
                      /\ it.p_elt = loop.head => Len(loop.visited) = Len(loop.expected)
    BY DEF LoopVisitsAll
  <2>1. /\ InLoop /\ loop.head \in Heads /\ loop.expected \in Seq(Elts)
        /\ Len(loop.visited) \in Nat /\ Len(loop.expected) \in Nat
    BY DEF LoopInv
  <2>2. /\ Len(loop.visited) <= Len(loop.expected)
        /\ \A i \in 1 .. Len(loop.visited) : loop.visited[i] = loop.expected[i]
        /\ it.p_elt = AtLoop(loop.expected, loop.head, Len(loop.visited) + 1)
    BY <2>1 DEF InLoop
  <2>3. Len(loop.visited) < Len(loop.expected) => it.p_elt \in Elts
    BY <2>1, <2>2 DEF AtLoop
  <2> QED BY <2>1, <2>2, <2>3, NodesAssumption
<1> QED BY <1>1, <1>2, <1>3, PTL DEF Spec

(* The rings of pointers implement the sequences of Lists: every operation *)
(* of circList.h, and every step of a loop, is one operation on sequences  *)
(* or leaves them as they are.                                             *)
THEOREM RingsImplementLists == Spec => ListsSpec
<1>1. Init => IInv /\ L!Init
  BY InitSound
<1>2. IInv /\ [Next]_vars => IInv' /\ [L!Next]_list
  BY StepOnLists
<1> QED BY <1>1, <1>2, PTL DEF Spec, ListsSpec, L!Spec

(* Each operation of circList.h does to the sequences of elements what its *)
(* comment says: insert_after puts the element behind its place, truncate  *)
(* gives the beginning of the list to the other head, append puts the      *)
(* other list in front, and so on for each of them.                        *)
THEOREM PromisesKept == Spec => OperationsKeepTheirPromise
<1>1. Init => IInv
  BY InitSound
<1>2. IInv /\ [Next]_vars => IInv'
  BY StepOnLists
<1>3. ASSUME IInv PROVE EachKeepsItsPromise
  <2>1. \A e \in Elts, n \in Nodes :
          /\ Insert_after(e, n) => L!InsertAfter(e, n)
          /\ Insert_before(e, n) => L!InsertBefore(e, n)
          /\ Move_elt(e, n) => L!MoveAfter(e, n)
          /\ Move_elt_tail(e, n) => L!MoveBefore(e, n)
    BY <1>3, InsertKeepsPromise, MoveKeepsPromise
  <2>2. \A e, f \in Elts : /\ Replace(e, f) => L!Substitute(f, e)
                           /\ Swap(e, f) => L!Exchange(e, f)
    BY <1>3, ReplaceKeepsPromise, SwapKeepsPromise
  <2>3. \A e \in Elts : Extract(e) => L!TakeOut(e)
    BY <1>3, ExtractKeepsPromise
  <2>4. \A h \in Heads : /\ Pop(h) => L!TakeFirst(h)
                         /\ Pop_back(h) => L!TakeLast(h)
                         /\ Rotate_left(h) => L!RotateLeft(h)
                         /\ \A e \in Elts : /\ Push(h, e) => L!InsertAfter(e, h)
                                            /\ Push_back(h, e) => L!InsertBefore(e, h)
    BY <1>3, PopKeepsPromise, PushKeepsPromise
  <2>5. \A h, g \in Heads : /\ Replace_by(h, g) => L!Transfer(h, g)
                            /\ Append_list(h, g) => L!Prepend(h, g)
                            /\ Append_back(h, g) => L!Join(h, g)
                            /\ \A e \in Elts : Truncate(h, e, g) => L!Truncate(h, e, g)
    BY <1>3, ReplaceByKeepsPromise, AppendKeepsPromise, TruncateKeepsPromise
  <2> QED BY <2>1, <2>2, <2>3, <2>4, <2>5 DEF EachKeepsItsPromise
<1>4. IInv => [EachKeepsItsPromise]_vars
  BY <1>3
<1> QED BY <1>1, <1>2, <1>4, PTL DEF Spec, OperationsKeepTheirPromise
=============================================================================
