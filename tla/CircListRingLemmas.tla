-------------------------- MODULE CircListRingLemmas --------------------------
(***************************************************************************)
(* Each operation on the pointers keeps the rings, and moves the nodes     *)
(* along them as expected, for any number of heads and elements.           *)
(***************************************************************************)
EXTENDS CircList, TLAPS

Links == [next : [Nodes -> Nodes], prev : [Nodes -> Nodes]]

(* What every operation keeps.                                             *)
Good(l, S) == l \in Links /\ Ring(l, S)

(* An element that is taken out is alone, and the others keep their ring.  *)
LEMMA ExtractKeepsRing ==
  ASSUME NEW S \in SUBSET Nodes, NEW l, Good(l, S), NEW e \in S
  PROVE  /\ Good(extract(l, e), S)
         /\ empty(extract(l, e), e)
         /\ \A n \in S \ {e} :
              /\ extract(l, e).next[n] = IF l.next[n] = e THEN l.next[e] ELSE l.next[n]
              /\ extract(l, e).prev[n] = IF l.prev[n] = e THEN l.prev[e] ELSE l.prev[n]
<1>1. CASE empty(l, e)
  BY <1>1 DEF Good, Ring, Links, empty, extract
<1>2. CASE ~empty(l, e)
  <2> DEFINE r == __init(__link(l, l.prev[e], l.next[e]), e)
  <2>1. extract(l, e) = r
    BY <1>2 DEF extract
  <2>2. r \in Links
    BY DEF Good, Ring, Links, __init, __link
  <2>3. \A n \in S : /\ r.next[n] = IF n = e THEN e ELSE IF n = l.prev[e] THEN l.next[e] ELSE l.next[n]
                     /\ r.prev[n] = IF n = e THEN e ELSE IF n = l.next[e] THEN l.prev[e] ELSE l.prev[n]
    BY <1>2 DEF Good, Ring, Links, __init, __link, empty
  <2>4. Ring(r, S)
    BY <1>2, <2>3 DEF Good, Ring, Links, empty
  <2>5. l.next[e] # e /\ l.prev[e] # e /\ \A n \in S : l.next[l.prev[n]] = n /\ l.prev[l.next[n]] = n
    BY <1>2 DEF Good, Ring, empty
  <2> HIDE DEF r
  <2>6. Good(r, S) /\ empty(r, e)
    BY <2>2, <2>3, <2>4 DEF Good, empty
  <2>7. \A n \in S \ {e} : /\ r.next[n] = IF l.next[n] = e THEN l.next[e] ELSE l.next[n]
                           /\ r.prev[n] = IF l.prev[n] = e THEN l.prev[e] ELSE l.prev[n]
    BY <2>3, <2>5
  <2> QED BY <2>1, <2>6, <2>7
<1> QED BY <1>1, <1>2

(* A node that is alone goes between a node and the next one.              *)
LEMMA InsertKeepsRing ==
  ASSUME NEW S \in SUBSET Nodes, NEW l, Good(l, S),
         NEW e \in S, NEW p \in S, empty(l, e), p # e
  PROVE  Good(__insert(l, e, p, l.next[p]), S)
<1> DEFINE n == l.next[p]
           r == __insert(l, e, p, n)
<1>1. n \in S /\ n # e /\ l.prev[n] = p /\ l.prev[e] = e
  BY DEF Good, Ring, empty
<1>2. r \in Links
  BY <1>1 DEF Good, Links, __insert
<1>3. \A m \in S : /\ r.next[m] = IF m = p THEN e ELSE IF m = e THEN n ELSE l.next[m]
                   /\ r.prev[m] = IF m = e THEN p ELSE IF m = n THEN e ELSE l.prev[m]
  BY <1>1 DEF Good, Links, __insert
<1>4. Ring(r, S)
  BY <1>1, <1>3 DEF Good, Ring, empty
<1> QED BY <1>2, <1>4 DEF Good

(* insert_before inserts after the previous node.                          *)
LEMMA InsertBeforeKeepsRing ==
  ASSUME NEW S \in SUBSET Nodes, NEW l, Good(l, S),
         NEW e \in S, NEW n \in S, empty(l, e), n # e
  PROVE  Good(__insert(l, e, l.prev[n], n), S)
<1>1. l.prev[n] \in S /\ l.prev[n] # e /\ l.next[l.prev[n]] = n
  BY DEF Good, Ring, empty
<1> QED BY <1>1, InsertKeepsRing

(* What an element that is moved leaves is what its extraction leaves, but *)
(* for its own pointers, which the insertion overwrites.                   *)
LEMMA MoveIsExtractAndInsert ==
  ASSUME NEW S \in SUBSET Nodes, NEW l, Good(l, S),
         NEW e \in S, NEW t \in S, t # e
  PROVE  /\ move_elt(l, e, t) = insert_after(extract(l, e), e, t)
         /\ move_elt_tail(l, e, t) = insert_before(extract(l, e), e, t)
<1> DEFINE d == Detached(l, e)
           x == extract(l, e)
<1>1. d \in Links /\ x \in Links
  BY DEF Good, Ring, Links, Detached, extract, __link, __init
<1>2. x.next = [d.next EXCEPT ![e] = e] /\ x.prev = [d.prev EXCEPT ![e] = e]
  BY DEF Good, Ring, Links, Detached, extract, __link, __init, empty
<1>3. x.next[t] = d.next[t] /\ x.prev[t] = d.prev[t]
  BY <1>1, <1>2 DEF Links
<1>4. \A p, n \in Nodes : __insert(x, e, p, n) = __insert(d, e, p, n)
  <2> SUFFICES ASSUME NEW p \in Nodes, NEW n \in Nodes
               PROVE  __insert(x, e, p, n) = __insert(d, e, p, n)
    OBVIOUS
  <2>1. [x.next EXCEPT ![e] = n, ![p] = e] = [d.next EXCEPT ![e] = n, ![p] = e]
    BY <1>1, <1>2 DEF Links
  <2>2. [x.prev EXCEPT ![n] = e, ![e] = p] = [d.prev EXCEPT ![n] = e, ![e] = p]
    BY <1>1, <1>2 DEF Links
  <2> QED BY <2>1, <2>2 DEF __insert
<1>5. d.next[t] \in Nodes /\ d.prev[t] \in Nodes
  BY <1>1 DEF Links
<1> QED BY <1>3, <1>4, <1>5 DEF move_elt, move_elt_tail, insert_after, insert_before

LEMMA MoveKeepsRing ==
  ASSUME NEW S \in SUBSET Nodes, NEW l, Good(l, S),
         NEW e \in S, NEW t \in S, t # e
  PROVE  Good(move_elt(l, e, t), S) /\ Good(move_elt_tail(l, e, t), S)
BY MoveIsExtractAndInsert, ExtractKeepsRing, InsertKeepsRing, InsertBeforeKeepsRing
   DEF insert_after, insert_before

(* A node that is alone takes the place of another one.                    *)
LEMMA ReplaceKeepsRing ==
  ASSUME NEW S \in SUBSET Nodes, NEW l, Good(l, S),
         NEW e \in S, NEW old \in S, empty(l, e), e # old
  PROVE  Good(replace(l, e, old), S)
<1> DEFINE r == replace(l, e, old)
<1>1. CASE empty(l, old)
  <2>1. l.next[old] = old /\ l.prev[old] = old /\ l.next[e] = e /\ l.prev[e] = e
    BY <1>1 DEF Good, Ring, empty
  <2>2. r = l
    BY <2>1 DEF Good, Links, replace, __init
  <2> QED BY <2>2
<1>2. CASE ~empty(l, old)
  <2>1. /\ l.next[old] \in S /\ l.prev[old] \in S /\ l.prev[e] = e
        /\ l.next[old] \notin {e, old} /\ l.prev[old] \notin {e, old}
    BY <1>2 DEF Good, Ring, empty
  <2>2. r \in Links
    BY <2>1 DEF Good, Links, replace, __init
  <2>3. \A n \in S :
          /\ r.next[n] = IF n = old THEN old ELSE IF n = e THEN l.next[old]
                         ELSE IF n = l.prev[old] THEN e ELSE l.next[n]
          /\ r.prev[n] = IF n = old THEN old ELSE IF n = e THEN l.prev[old]
                         ELSE IF n = l.next[old] THEN e ELSE l.prev[n]
    BY <2>1 DEF Good, Links, replace, __init
  <2>4. Ring(r, S)
    BY <1>2, <2>1, <2>3 DEF Good, Ring, empty
  <2> QED BY <2>2, <2>4 DEF Good
<1> QED BY <1>1, <1>2

(* A ring is cut in two: the part after head h and up to e is hung on the  *)
(* head "to", which was alone.                                             *)
LEMMA TruncateKeepsRing ==
  ASSUME NEW S \in SUBSET Nodes, NEW l, Good(l, S),
         NEW h \in S, NEW e \in S, NEW to \in S, empty(l, to), h # e, h # to, e # to
  PROVE  Good(truncate(l, h, e, to), S)
<1> DEFINE r == truncate(l, h, e, to)
<1>1. /\ l.next[h] \in S /\ l.next[e] \in S /\ l.prev[to] = to
      /\ l.next[h] # to /\ l.next[e] # to /\ l.next[h] # l.next[e]
  BY DEF Good, Ring, empty
<1>2. r \in Links
  BY <1>1 DEF Good, Links, truncate
<1>3. \A n \in S :
        /\ r.next[n] = IF n = to THEN l.next[h] ELSE IF n = e THEN to
                       ELSE IF n = h THEN l.next[e] ELSE l.next[n]
        /\ r.prev[n] = IF n = l.next[h] THEN to ELSE IF n = to THEN e
                       ELSE IF n = l.next[e] THEN h ELSE l.prev[n]
  BY <1>1 DEF Good, Links, truncate
<1>4. Ring(r, S)
  BY <1>1, <1>3 DEF Good, Ring, empty
<1> QED BY <1>2, <1>4 DEF Good

(* Two rings are joined, and the head "from" of one of them stays outside. *)
LEMMA ConcatKeepsRing ==
  ASSUME NEW S \in SUBSET Nodes, NEW l, Good(l, S),
         NEW p \in S, NEW from \in S, ~empty(l, from), p # from, l.next[p] # from
  PROVE  Good(__concat(l, from, p, l.next[p]), S \ {from})
<1> DEFINE n == l.next[p]
           first == l.next[from]
           last == l.prev[from]
           r == __concat(l, from, p, n)
<1>1. /\ n \in S /\ first \in S /\ last \in S /\ l.prev[n] = p
      /\ l.prev[first] = from /\ l.next[last] = from /\ first # from
  BY DEF Good, Ring, empty
<1>2. last # from /\ first # n /\ last # p
  BY <1>1 DEF Good, Ring
<1>3. r \in Links
  BY <1>1 DEF Good, Links, __concat
<1>4. \A m \in S : /\ r.next[m] = IF m = last THEN n ELSE IF m = p THEN first ELSE l.next[m]
                   /\ r.prev[m] = IF m = n THEN last ELSE IF m = first THEN p ELSE l.prev[m]
  BY <1>1, <1>2 DEF Good, Links, __concat
<1>5. Ring(r, S \ {from})
  BY <1>1, <1>2, <1>4 DEF Good, Ring, empty
<1> QED BY <1>3, <1>5 DEF Good

(* A head that is initialised again is alone: no live node leads to it.    *)
LEMMA InitKeepsRing ==
  ASSUME NEW S \in SUBSET Nodes, NEW l, Good(l, S), NEW h \in Nodes \ S
  PROVE  Good(__init(l, h), S \cup {h})
<1> DEFINE r == __init(l, h)
<1>1. r \in Links
  BY DEF Good, Links, __init
<1>2. \A n \in S \cup {h} : /\ r.next[n] = IF n = h THEN h ELSE l.next[n]
                            /\ r.prev[n] = IF n = h THEN h ELSE l.prev[n]
  BY DEF Good, Links, __init
<1> HIDE DEF r
<1>3. Ring(r, S \cup {h})
  BY <1>2 DEF Good, Ring
<1> QED BY <1>1, <1>3 DEF Good, r

-----------------------------------------------------------------------------
(* The place of the nodes: own gives the head of the ring of a node, NoNode *)
(* if it is alone and no head; pos its place in the ring, from 0 for the   *)
(* head to len[h] for the last one, along next.                            *)
Placed(l, S, own, pos, len) ==
  /\ own \in [Nodes -> Heads \cup {NoNode}] /\ pos \in [Nodes -> Nat] /\ len \in [Heads -> Nat]
  /\ \A h \in Heads : h \notin S => len[h] = 0
  /\ \A h \in Heads \cap S : own[h] = h /\ pos[h] = 0
  /\ \A n \in S : own[n] = NoNode => l.next[n] = n
  /\ \A n \in S : own[n] # NoNode =>
       /\ own[n] \in S /\ pos[n] <= len[own[n]]
       /\ own[l.next[n]] = own[n]
       /\ pos[l.next[n]] = IF pos[n] = len[own[n]] THEN 0 ELSE pos[n] + 1
  /\ \A n, m \in S : own[n] # NoNode /\ own[m] = own[n] /\ pos[m] = pos[n] => m = n

(* An element in a ring is not alone, and is not where the head is.        *)
LEMMA PlacedElement ==
  ASSUME NEW S \in SUBSET Nodes, NEW l, Good(l, S),
         NEW own, NEW pos, NEW len, Placed(l, S, own, pos, len),
         NEW e \in Elts \cap S
  PROVE  /\ own[e] = NoNode <=> empty(l, e)
         /\ own[e] # NoNode => pos[e] > 0 /\ own[e] \in Heads \cap S
<1> USE NodesAssumption
<1>1. ASSUME own[e] # NoNode PROVE own[e] \in Heads \cap S /\ pos[e] > 0
  <2>1. own[e] \in Heads \cap S /\ pos[e] \in Nat
    BY <1>1 DEF Placed, Nodes
  <2>2. own[own[e]] = own[e] /\ pos[own[e]] = 0 /\ own[e] # e
    BY <2>1 DEF Placed
  <2> QED BY <1>1, <2>1, <2>2 DEF Placed
<1>2. ASSUME own[e] # NoNode PROVE ~empty(l, e)
  <2>1. pos[e] \in Nat /\ pos[e] > 0
    BY <1>1, <1>2 DEF Placed, Nodes
  <2>2. pos[l.next[e]] = IF pos[e] = len[own[e]] THEN 0 ELSE pos[e] + 1
    BY <1>2 DEF Placed
  <2> QED BY <2>1, <2>2 DEF empty
<1>3. own[e] = NoNode => empty(l, e)
  BY DEF Placed, empty
<1> QED BY <1>1, <1>2, <1>3

(* The last node of a ring leads to the head, and the head to the first    *)
(* one, or to itself.                                                      *)
LastInPlace(l, own, pos, len, h) == own[l.prev[h]] = h /\ pos[l.prev[h]] = len[h]
FirstInPlace(l, own, pos, len, h) ==
  /\ l.next[h] = h <=> len[h] = 0
  /\ l.next[h] # h => pos[l.next[h]] = 1 /\ own[l.next[h]] = h

LEMMA PlacedLast ==
  ASSUME NEW S \in SUBSET Nodes, NEW l, Good(l, S),
         NEW own, NEW pos, NEW len, Placed(l, S, own, pos, len), NEW h \in Heads \cap S
  PROVE  LastInPlace(l, own, pos, len, h)
<1> USE NodesAssumption
<1>1. /\ l.prev[h] \in S /\ l.next[h] \in S /\ l.next[l.prev[h]] = h /\ h # NoNode
      /\ own[h] = h /\ pos[h] = 0 /\ len[h] \in Nat /\ pos[l.prev[h]] \in Nat
  BY DEF Good, Ring, Placed, Nodes
<1>2. own[l.prev[h]] = h
  <2>1. own[l.prev[h]] = NoNode => l.next[l.prev[h]] = l.prev[h]
    BY <1>1 DEF Placed
  <2>2. own[l.prev[h]] # NoNode => own[l.next[l.prev[h]]] = own[l.prev[h]]
    BY <1>1 DEF Placed
  <2> QED BY <1>1, <2>1, <2>2
<1>3. pos[h] = IF pos[l.prev[h]] = len[h] THEN 0 ELSE pos[l.prev[h]] + 1
  BY <1>1, <1>2 DEF Placed
<1> QED BY <1>1, <1>2, <1>3 DEF LastInPlace

LEMMA PlacedFirst ==
  ASSUME NEW S \in SUBSET Nodes, NEW l, Good(l, S),
         NEW own, NEW pos, NEW len, Placed(l, S, own, pos, len), NEW h \in Heads \cap S
  PROVE  FirstInPlace(l, own, pos, len, h)
<1> USE NodesAssumption
<1>1. l.next[h] \in S /\ h # NoNode /\ own[h] = h /\ pos[h] = 0 /\ len[h] \in Nat
  BY DEF Good, Ring, Placed, Nodes
<1>2. own[l.next[h]] = h /\ pos[l.next[h]] = IF 0 = len[h] THEN 0 ELSE 1
  BY <1>1 DEF Placed
<1>3. pos[l.next[h]] = 0 => l.next[h] = h
  BY <1>1, <1>2 DEF Placed
<1> QED BY <1>1, <1>2, <1>3 DEF FirstInPlace

(* An element is taken out: those behind it come one place nearer.         *)
OutOwn(own, e) == [own EXCEPT ![e] = NoNode]
OutPos(own, pos, e) ==
  [n \in Nodes |-> IF own[n] = own[e] /\ pos[n] > pos[e] THEN pos[n] - 1 ELSE pos[n]]
OutLen(own, len, e) == [h \in Heads |-> IF h = own[e] THEN len[h] - 1 ELSE len[h]]

LEMMA ExtractKeepsPlaces ==
  ASSUME NEW S \in SUBSET Nodes, NEW l, Good(l, S),
         NEW own, NEW pos, NEW len, Placed(l, S, own, pos, len),
         NEW e \in Elts \cap S
  PROVE  Placed(extract(l, e), S, OutOwn(own, e), OutPos(own, pos, e), OutLen(own, len, e))
<1> DEFINE r == extract(l, e)
           c == OutOwn(own, e)
           num == OutPos(own, pos, e)
           sz == OutLen(own, len, e)
<1> USE NodesAssumption
<1>1. /\ \A n \in S \ {e} : r.next[n] = IF l.next[n] = e THEN l.next[e] ELSE l.next[n]
      /\ r.next[e] = e /\ \A n \in S : l.next[n] \in S
  <2>1. /\ empty(r, e)
        /\ \A n \in S \ {e} : r.next[n] = IF l.next[n] = e THEN l.next[e] ELSE l.next[n]
    BY ExtractKeepsRing
  <2>2. \A n \in S : l.next[n] \in S
    BY DEF Good, Ring
  <2> QED BY <2>1, <2>2 DEF empty
<1>2. /\ \A n \in Nodes : c[n] = IF n = e THEN NoNode ELSE own[n]
      /\ \A n \in Nodes : num[n] = IF own[n] = own[e] /\ pos[n] > pos[e] THEN pos[n] - 1 ELSE pos[n]
      /\ \A h \in Heads : sz[h] = IF h = own[e] THEN len[h] - 1 ELSE len[h]
  BY DEF OutOwn, OutPos, OutLen, Placed
<1>3. /\ own[e] # NoNode => own[e] \in Heads \cap S /\ pos[e] > 0 /\ l.next[e] # e
      /\ own[e] = NoNode => l.next[e] = e
      /\ e \notin Heads /\ e \in Nodes /\ pos[e] \in Nat
  BY PlacedElement DEF Placed, empty, Nodes
<1>4. \A h \in Heads : h = own[e] => len[h] \in Nat /\ len[h] > 0 /\ h \in S
  <2> SUFFICES ASSUME own[e] \in Heads PROVE len[own[e]] \in Nat /\ len[own[e]] > 0 /\ own[e] \in S
    OBVIOUS
  <2>1. own[e] # NoNode /\ len[own[e]] \in Nat
    BY DEF Placed, Nodes
  <2>2. pos[e] <= len[own[e]]
    BY <2>1 DEF Placed
  <2> QED BY <1>3, <2>1, <2>2
<1>5. /\ c \in [Nodes -> Heads \cup {NoNode}] /\ num \in [Nodes -> Nat] /\ sz \in [Heads -> Nat]
  <2>1. num \in [Nodes -> Nat]
    BY DEF OutPos, Placed
  <2>2. sz \in [Heads -> Nat]
    BY <1>4 DEF OutLen, Placed
  <2> QED BY <2>1, <2>2 DEF OutOwn, Placed
<1> HIDE DEF r, c, num, sz
<1>6. \A n \in S : c[n] = NoNode => r.next[n] = n
  BY <1>1, <1>2, <1>3 DEF Placed
<1>7. ASSUME NEW n \in S, c[n] # NoNode
      PROVE  /\ c[n] \in S /\ num[n] <= sz[c[n]]
             /\ c[r.next[n]] = c[n]
             /\ num[r.next[n]] = IF num[n] = sz[c[n]] THEN 0 ELSE num[n] + 1
  <2>1. /\ n # e /\ c[n] = own[n] /\ own[n] \in Heads \cap S /\ pos[n] \in Nat /\ len[own[n]] \in Nat
        /\ pos[n] <= len[own[n]] /\ own[l.next[n]] = own[n]
        /\ pos[l.next[n]] = IF pos[n] = len[own[n]] THEN 0 ELSE pos[n] + 1
    BY <1>2, <1>7 DEF Placed, Nodes
  <2>2. CASE own[n] # own[e]
    <3>1. l.next[n] # e
      BY <2>1, <2>2
    <3> QED BY <1>1, <1>2, <1>7, <2>1, <2>2, <3>1
  <2>3. CASE own[n] = own[e]
    <3>1. /\ pos[e] <= len[own[e]] /\ own[l.next[e]] = own[e] /\ own[e] # NoNode
          /\ pos[l.next[e]] = IF pos[e] = len[own[e]] THEN 0 ELSE pos[e] + 1
      BY <1>3, <2>1, <2>3 DEF Placed
    <3>2. pos[n] # pos[e]
      BY <2>1, <2>3, <3>1 DEF Placed
    <3>3. /\ num[n] = IF pos[n] > pos[e] THEN pos[n] - 1 ELSE pos[n]
          /\ sz[c[n]] = len[own[n]] - 1
      BY <1>2, <2>1, <2>3
    <3>4. CASE l.next[n] = e
      <4>1. r.next[n] = l.next[e] /\ l.next[e] \in S /\ l.next[e] # e
        BY <1>1, <1>3, <2>1, <3>1, <3>4
      <4>2. num[l.next[e]] = IF pos[l.next[e]] > pos[e] THEN pos[l.next[e]] - 1 ELSE pos[l.next[e]]
        BY <1>2, <3>1, <4>1
      <4>3. pos[e] = pos[n] + 1
        BY <1>3, <2>1, <3>4
      <4>4. c[l.next[e]] = own[e]
        BY <1>2, <3>1, <4>1
      <4> QED BY <1>3, <2>1, <2>3, <3>1, <3>3, <4>1, <4>2, <4>3, <4>4
    <3>5. CASE l.next[n] # e
      <4>1. r.next[n] = l.next[n] /\ l.next[n] \in S
        BY <1>1, <2>1, <3>5
      <4>2. /\ num[l.next[n]] = IF pos[l.next[n]] > pos[e] THEN pos[l.next[n]] - 1 ELSE pos[l.next[n]]
            /\ c[l.next[n]] = own[n]
        BY <1>2, <2>1, <2>3, <3>5, <4>1
      <4>3. pos[l.next[n]] # pos[e]
        BY <2>1, <2>3, <3>1, <3>5, <4>1 DEF Placed
      <4>4. pos[n] = len[own[n]] => pos[n] > pos[e]
        BY <1>3, <2>1, <2>3, <3>1, <3>2
      <4> QED BY <1>3, <2>1, <2>3, <3>1, <3>2, <3>3, <4>1, <4>2, <4>3, <4>4
    <3> QED BY <3>4, <3>5
  <2> QED BY <2>2, <2>3
<1>8. ASSUME NEW n \in S, NEW m \in S, c[n] # NoNode, c[m] = c[n], num[m] = num[n]
      PROVE  m = n
  <2>1. /\ n # e /\ m # e /\ own[n] # NoNode /\ own[m] = own[n]
        /\ pos[n] \in Nat /\ pos[m] \in Nat
    BY <1>2, <1>8 DEF Placed
  <2>2. own[n] = own[e] => pos[n] # pos[e] /\ pos[m] # pos[e]
    BY <2>1 DEF Placed
  <2>3. pos[n] = pos[m]
    BY <1>2, <1>3, <1>8, <2>1, <2>2
  <2> QED BY <2>1, <2>3 DEF Placed
<1>9. /\ \A h \in Heads : h \notin S => sz[h] = 0
      /\ \A h \in Heads \cap S : c[h] = h /\ num[h] = 0
  BY <1>2, <1>3, <1>4 DEF Placed, Nodes
<1> QED BY <1>5, <1>6, <1>7, <1>8, <1>9 DEF Placed, r, c, num, sz

(* An element is put behind the node p: those further make room.           *)
InOwn(own, e, p) == [own EXCEPT ![e] = own[p]]
InPos(own, pos, e, p) ==
  [n \in Nodes |-> IF n = e THEN pos[p] + 1
                   ELSE IF own[n] = own[p] /\ pos[n] > pos[p] THEN pos[n] + 1 ELSE pos[n]]
InLen(own, len, p) == [h \in Heads |-> IF h = own[p] THEN len[h] + 1 ELSE len[h]]

LEMMA InsertKeepsPlaces ==
  ASSUME NEW S \in SUBSET Nodes, NEW l, Good(l, S),
         NEW own, NEW pos, NEW len, Placed(l, S, own, pos, len),
         NEW e \in Elts \cap S, NEW p \in S, empty(l, e), own[p] # NoNode
  PROVE  Placed(__insert(l, e, p, l.next[p]), S,
                InOwn(own, e, p), InPos(own, pos, e, p), InLen(own, len, p))
<1> DEFINE r == __insert(l, e, p, l.next[p])
           c == InOwn(own, e, p)
           num == InPos(own, pos, e, p)
           sz == InLen(own, len, p)
<1> USE NodesAssumption
<1>1. /\ own[e] = NoNode /\ p # e /\ e \notin Heads /\ e \in Nodes /\ p \in Nodes
      /\ own[p] \in Heads \cap S /\ pos[p] \in Nat /\ len[own[p]] \in Nat
      /\ pos[p] <= len[own[p]] /\ own[l.next[p]] = own[p]
      /\ pos[l.next[p]] = IF pos[p] = len[own[p]] THEN 0 ELSE pos[p] + 1
  <2>1. own[e] = NoNode
    BY PlacedElement
  <2>2. own[p] \in Heads \cap S
    BY DEF Placed, Nodes
  <2> QED BY <2>1, <2>2 DEF Placed, Nodes
<1>2. /\ \A n \in S : /\ r.next[n] = IF n = p THEN e ELSE IF n = e THEN l.next[p] ELSE l.next[n]
                      /\ l.next[n] \in S
                      /\ l.next[n] = e => n = e
  BY <1>1 DEF Good, Ring, Links, empty, __insert
<1>3. /\ \A n \in Nodes : c[n] = IF n = e THEN own[p] ELSE own[n]
      /\ \A n \in Nodes : num[n] = IF n = e THEN pos[p] + 1
                                   ELSE IF own[n] = own[p] /\ pos[n] > pos[p] THEN pos[n] + 1
                                   ELSE pos[n]
      /\ \A h \in Heads : sz[h] = IF h = own[p] THEN len[h] + 1 ELSE len[h]
  BY DEF InOwn, InPos, InLen, Placed
<1>4. c \in [Nodes -> Heads \cup {NoNode}] /\ num \in [Nodes -> Nat] /\ sz \in [Heads -> Nat]
  <2>1. num \in [Nodes -> Nat]
    BY <1>1 DEF InPos, Placed
  <2>2. sz \in [Heads -> Nat]
    BY DEF InLen, Placed
  <2> QED BY <1>1, <2>1, <2>2 DEF InOwn, Placed
<1> HIDE DEF r, c, num, sz
<1>5. \A n \in S : c[n] = NoNode => r.next[n] = n
  BY <1>1, <1>2, <1>3 DEF Placed
<1>6. ASSUME NEW n \in S, c[n] # NoNode
      PROVE  /\ c[n] \in S /\ num[n] <= sz[c[n]]
             /\ c[r.next[n]] = c[n]
             /\ num[r.next[n]] = IF num[n] = sz[c[n]] THEN 0 ELSE num[n] + 1
  <2>1. CASE n = e
    <3>1. r.next[n] = l.next[p] /\ l.next[p] \in S /\ l.next[p] # e /\ c[n] = own[p]
          /\ num[n] = pos[p] + 1 /\ sz[c[n]] = len[own[p]] + 1
      BY <1>1, <1>2, <1>3, <2>1
    <3>2. /\ num[l.next[p]] = IF pos[l.next[p]] > pos[p] THEN pos[l.next[p]] + 1 ELSE pos[l.next[p]]
          /\ c[l.next[p]] = own[p]
      BY <1>1, <1>3, <3>1
    <3> QED BY <1>1, <3>1, <3>2
  <2>2. CASE n = p
    <3>1. r.next[n] = e /\ c[n] = own[p] /\ num[n] = pos[p] /\ sz[c[n]] = len[own[p]] + 1
          /\ num[e] = pos[p] + 1 /\ c[e] = own[p]
      BY <1>1, <1>2, <1>3, <2>2
    <3> QED BY <1>1, <3>1
  <2>3. CASE n \notin {e, p}
    <3>1. /\ c[n] = own[n] /\ own[n] \in Heads \cap S /\ pos[n] \in Nat /\ len[own[n]] \in Nat
          /\ pos[n] <= len[own[n]] /\ own[l.next[n]] = own[n]
          /\ pos[l.next[n]] = IF pos[n] = len[own[n]] THEN 0 ELSE pos[n] + 1
          /\ r.next[n] = l.next[n] /\ l.next[n] \in S /\ l.next[n] # e
      BY <1>2, <1>3, <1>6, <2>3 DEF Placed, Nodes
    <3>2. own[n] = own[p] => pos[n] # pos[p]
      BY <1>1, <2>3, <3>1 DEF Placed
    <3>3. /\ num[n] = IF own[n] = own[p] /\ pos[n] > pos[p] THEN pos[n] + 1 ELSE pos[n]
          /\ num[l.next[n]] = IF own[n] = own[p] /\ pos[l.next[n]] > pos[p]
                              THEN pos[l.next[n]] + 1 ELSE pos[l.next[n]]
          /\ c[l.next[n]] = own[n]
          /\ sz[own[n]] = IF own[n] = own[p] THEN len[own[n]] + 1 ELSE len[own[n]]
      BY <1>1, <1>3, <2>3, <3>1
    <3> QED BY <1>1, <3>1, <3>2, <3>3
  <2> QED BY <2>1, <2>2, <2>3
<1>7. ASSUME NEW n \in S, NEW m \in S, c[n] # NoNode, c[m] = c[n], num[m] = num[n]
      PROVE  m = n
  <2>1. pos[n] \in Nat /\ pos[m] \in Nat /\ n \in Nodes /\ m \in Nodes
    BY DEF Placed
  <2>2. CASE n # e /\ m # e
    <3>1. own[n] # NoNode /\ own[m] = own[n] /\ pos[n] = pos[m]
      BY <1>1, <1>3, <1>7, <2>1, <2>2
    <3> QED BY <3>1 DEF Placed
  <2>3. CASE n = e \/ m = e
    BY <1>1, <1>3, <1>7, <2>1, <2>3
  <2> QED BY <2>2, <2>3
<1>8. /\ \A h \in Heads : h \notin S => sz[h] = 0
      /\ \A h \in Heads \cap S : c[h] = h /\ num[h] = 0
  BY <1>1, <1>3 DEF Placed, Nodes
<1> QED BY <1>4, <1>5, <1>6, <1>7, <1>8 DEF Placed, r, c, num, sz

(* Two nodes of the same kind exchange their names.                        *)
Exchanged(x, y) == [n \in Nodes |-> IF n = x THEN y ELSE IF n = y THEN x ELSE n]
NewOwn(own, x, y) ==
  [n \in Nodes |-> LET h == own[Exchanged(x, y)[n]]
                   IN  IF h = NoNode THEN NoNode ELSE Exchanged(x, y)[h]]
NewPos(pos, x, y) == [n \in Nodes |-> pos[Exchanged(x, y)[n]]]
NewLen(len, x, y) == [h \in Heads |-> len[Exchanged(x, y)[h]]]

LEMMA ExchangeKeepsPlaces ==
  ASSUME NEW S \in SUBSET Nodes, NEW l, Good(l, S),
         NEW own, NEW pos, NEW len, Placed(l, S, own, pos, len),
         NEW x \in S, NEW y \in S, x \in Heads <=> y \in Heads,
         NEW r, \A n \in S : r.next[Exchanged(x, y)[n]] = Exchanged(x, y)[l.next[n]]
  PROVE  Placed(r, S, NewOwn(own, x, y), NewPos(pos, x, y), NewLen(len, x, y))
<1> DEFINE s == Exchanged(x, y)
           c == NewOwn(own, x, y)
           num == NewPos(pos, x, y)
           sz == NewLen(len, x, y)
<1> USE NodesAssumption
<1>1. /\ \A n \in Nodes : s[n] \in Nodes /\ s[s[n]] = n /\ (s[n] \in Heads <=> n \in Heads)
      /\ \A n \in Nodes : s[n] \in S <=> n \in S
      /\ \A n \in Nodes : s[n] # NoNode
  BY DEF Exchanged, Nodes
<1>2. /\ \A n \in Nodes : c[n] = IF own[s[n]] = NoNode THEN NoNode ELSE s[own[s[n]]]
      /\ \A n \in Nodes : num[n] = pos[s[n]]
      /\ \A h \in Heads : sz[h] = len[s[h]]
  BY DEF NewOwn, NewPos, NewLen
<1>3. c \in [Nodes -> Heads \cup {NoNode}] /\ num \in [Nodes -> Nat] /\ sz \in [Heads -> Nat]
  <2>1. \A n \in Nodes : own[s[n]] # NoNode => s[own[s[n]]] \in Heads
    BY <1>1 DEF Placed, Nodes
  <2>2. \A h \in Heads : s[h] \in Heads
    BY <1>1 DEF Nodes
  <2>3. c \in [Nodes -> Heads \cup {NoNode}]
    BY <2>1 DEF NewOwn
  <2>4. num \in [Nodes -> Nat]
    BY <1>1 DEF NewPos, Placed
  <2>5. sz \in [Heads -> Nat]
    BY <2>2 DEF NewLen, Placed
  <2> QED BY <2>3, <2>4, <2>5
<1> HIDE DEF s, c, num, sz
<1>4. \A n \in S : r.next[s[n]] = s[l.next[n]]
  BY DEF s
<1>5. ASSUME NEW n \in S
      PROVE  /\ c[n] = NoNode => r.next[n] = n
             /\ c[n] # NoNode =>
                 /\ c[n] \in S /\ num[n] <= sz[c[n]]
                 /\ c[r.next[n]] = c[n]
                 /\ num[r.next[n]] = IF num[n] = sz[c[n]] THEN 0 ELSE num[n] + 1
  <2> DEFINE m == s[n]
  <2>1. m \in S /\ m \in Nodes /\ s[m] = n /\ n \in Nodes /\ l.next[m] \in S /\ l.next[m] \in Nodes
    BY <1>1 DEF Good, Ring
  <2>2. r.next[n] = s[l.next[m]]
    BY <1>4, <2>1
  <2>3. s[l.next[m]] \in Nodes /\ s[s[l.next[m]]] = l.next[m]
    BY <1>1, <2>1
  <2>4. /\ c[n] = IF own[m] = NoNode THEN NoNode ELSE s[own[m]]
        /\ num[n] = pos[m] /\ num[r.next[n]] = pos[l.next[m]]
        /\ c[r.next[n]] = IF own[l.next[m]] = NoNode THEN NoNode ELSE s[own[l.next[m]]]
    BY <1>2, <2>1, <2>2, <2>3
  <2> HIDE DEF m
  <2>5. CASE own[m] = NoNode
    <3>1. l.next[m] = m
      BY <2>1, <2>5 DEF Placed
    <3> QED BY <2>1, <2>2, <2>4, <2>5, <3>1
  <2>6. CASE own[m] # NoNode
    <3>1. /\ own[m] \in Heads /\ own[m] \in S /\ own[m] \in Nodes
          /\ pos[m] <= len[own[m]] /\ own[l.next[m]] = own[m]
          /\ pos[l.next[m]] = IF pos[m] = len[own[m]] THEN 0 ELSE pos[m] + 1
      BY <2>1, <2>6 DEF Placed, Nodes
    <3>2. /\ s[own[m]] \in S /\ s[own[m]] \in Heads /\ s[s[own[m]]] = own[m] /\ s[own[m]] # NoNode
      BY <1>1, <3>1
    <3>3. sz[s[own[m]]] = len[own[m]]
      BY <1>2, <3>2
    <3> QED BY <2>4, <2>6, <3>1, <3>2, <3>3
  <2> QED BY <2>5, <2>6
<1>6. ASSUME NEW n \in S, NEW m \in S, c[n] # NoNode, c[m] = c[n], num[m] = num[n]
      PROVE  m = n
  <2>1. /\ s[n] \in S /\ s[m] \in S /\ s[s[n]] = n /\ s[s[m]] = m /\ n \in Nodes /\ m \in Nodes
    BY <1>1
  <2>2. own[s[n]] # NoNode /\ own[s[m]] # NoNode /\ s[own[s[n]]] = s[own[s[m]]] /\ pos[s[n]] = pos[s[m]]
    BY <1>2, <1>6, <2>1
  <2>3. own[s[n]] \in Nodes /\ own[s[m]] \in Nodes
    BY <2>1, <2>2 DEF Placed, Nodes
  <2>4. own[s[n]] = own[s[m]]
    BY <1>1, <2>2, <2>3
  <2>5. s[m] = s[n]
    BY <2>1, <2>2, <2>4 DEF Placed
  <2> QED BY <2>1, <2>5
<1>7. /\ \A h \in Heads : h \notin S => sz[h] = 0
      /\ \A h \in Heads \cap S : c[h] = h /\ num[h] = 0
  <2>1. \A h \in Heads : s[h] \in Heads /\ (s[h] \in S <=> h \in S) /\ s[s[h]] = h /\ h # NoNode
    BY <1>1 DEF Nodes
  <2> QED BY <1>2, <2>1 DEF Placed, Nodes
<1> QED BY <1>3, <1>5, <1>6, <1>7 DEF Placed, c, num, sz

(* The nodes of h up to e go to the head "to", with their places; the      *)
(* others are then the first ones of h.                                    *)
CutOwn(own, pos, h, e, to) ==
  [n \in Nodes |-> IF own[n] = h /\ n # h /\ pos[n] <= pos[e] THEN to ELSE own[n]]
CutPos(own, pos, h, e) ==
  [n \in Nodes |-> IF own[n] = h /\ pos[n] > pos[e] THEN pos[n] - pos[e] ELSE pos[n]]
CutLen(len, pos, h, e, to) ==
  [g \in Heads |-> IF g = h THEN len[h] - pos[e] ELSE IF g = to THEN pos[e] ELSE len[g]]

LEMMA TruncateKeepsPlaces ==
  ASSUME NEW S \in SUBSET Nodes, NEW l, Good(l, S),
         NEW own, NEW pos, NEW len, Placed(l, S, own, pos, len),
         NEW h \in Heads \cap S, NEW e \in Elts \cap S, NEW to \in Heads \cap S,
         h # to, empty(l, to), own[e] = h
  PROVE  Placed(truncate(l, h, e, to), S, CutOwn(own, pos, h, e, to), CutPos(own, pos, h, e),
                CutLen(len, pos, h, e, to))
<1> DEFINE r == truncate(l, h, e, to)
           c == CutOwn(own, pos, h, e, to)
           num == CutPos(own, pos, h, e)
           sz == CutLen(len, pos, h, e, to)
<1> USE NodesAssumption
<1>1. /\ h # e /\ e # to /\ h # NoNode /\ to # NoNode /\ h \in Nodes /\ to \in Nodes /\ e \in Nodes
      /\ l.next[h] \in S /\ l.next[e] \in S /\ l.next[to] = to
      /\ l.next[h] # to /\ l.next[e] # to /\ l.next[h] # l.next[e]
      /\ \A n \in S : l.next[n] \in S /\ (l.next[n] = to => n = to)
  BY DEF Good, Ring, empty, Nodes
<1>2. \A n \in S : r.next[n] = IF n = to THEN l.next[h] ELSE IF n = e THEN to
                              ELSE IF n = h THEN l.next[e] ELSE l.next[n]
  BY <1>1 DEF Good, Links, truncate
<1>3. /\ \A n \in Nodes : c[n] = IF own[n] = h /\ n # h /\ pos[n] <= pos[e] THEN to ELSE own[n]
      /\ \A n \in Nodes : num[n] = IF own[n] = h /\ pos[n] > pos[e] THEN pos[n] - pos[e] ELSE pos[n]
      /\ \A g \in Heads : sz[g] = IF g = h THEN len[h] - pos[e] ELSE IF g = to THEN pos[e] ELSE len[g]
  BY DEF CutOwn, CutPos, CutLen
<1>4. /\ pos[e] \in Nat /\ pos[e] > 0 /\ pos[e] <= len[h] /\ len[h] \in Nat
      /\ own[h] = h /\ pos[h] = 0 /\ own[to] = to /\ pos[to] = 0 /\ len[to] = 0
      /\ own[l.next[h]] = h /\ pos[l.next[h]] = 1 /\ own[l.next[e]] = h
      /\ pos[l.next[e]] = IF pos[e] = len[h] THEN 0 ELSE pos[e] + 1
  <2>1. pos[e] > 0 /\ len[to] = 0
    <3>1. own[e] # NoNode
      BY <1>1
    <3>2. pos[e] > 0
      BY <3>1, PlacedElement
    <3>3. FirstInPlace(l, own, pos, len, to)
      BY PlacedFirst
    <3> QED BY <1>1, <3>2, <3>3 DEF FirstInPlace
  <2>2. pos[e] \in Nat /\ len[h] \in Nat /\ own[h] = h /\ pos[h] = 0 /\ own[to] = to /\ pos[to] = 0
    BY DEF Placed, Nodes
  <2>3. /\ pos[e] <= len[h] /\ own[l.next[h]] = h /\ own[l.next[e]] = h
        /\ pos[l.next[h]] = IF 0 = len[h] THEN 0 ELSE 0 + 1
        /\ pos[l.next[e]] = IF pos[e] = len[h] THEN 0 ELSE pos[e] + 1
    BY <1>1, <2>2 DEF Placed
  <2> QED BY <2>1, <2>2, <2>3
<1>5. ASSUME NEW n \in S, own[n] = to PROVE n = to
  <2>1. n \in Nodes /\ pos[n] \in Nat /\ pos[n] <= len[to]
    BY <1>1, <1>5 DEF Placed
  <2> QED BY <1>1, <1>4, <1>5, <2>1 DEF Placed
<1>6. c \in [Nodes -> Heads \cup {NoNode}] /\ num \in [Nodes -> Nat] /\ sz \in [Heads -> Nat]
  <2>1. num \in [Nodes -> Nat]
    BY <1>4 DEF CutPos, Placed
  <2>2. sz \in [Heads -> Nat]
    BY <1>4 DEF CutLen, Placed
  <2> QED BY <2>1, <2>2 DEF CutOwn, Placed
<1> HIDE DEF r, c, num, sz
<1>7. ASSUME NEW n \in S, own[n] # NoNode
      PROVE  /\ n \in Nodes /\ own[n] \in Heads \cap S /\ pos[n] \in Nat /\ len[own[n]] \in Nat
             /\ pos[n] <= len[own[n]] /\ own[l.next[n]] = own[n]
             /\ pos[l.next[n]] = IF pos[n] = len[own[n]] THEN 0 ELSE pos[n] + 1
             /\ l.next[n] \in S /\ l.next[n] \in Nodes
  BY <1>1, <1>7 DEF Placed, Nodes
<1>8. ASSUME NEW n \in S, NEW m \in S, own[n] = h, own[m] = h, pos[n] = pos[m] PROVE m = n
  BY <1>1, <1>8 DEF Placed
<1>9. \A n \in S : c[n] = NoNode => r.next[n] = n
  BY <1>1, <1>2, <1>3 DEF Placed
<1>10. ASSUME NEW n \in S, c[n] # NoNode
       PROVE  /\ c[n] \in S /\ num[n] <= sz[c[n]]
              /\ c[r.next[n]] = c[n]
              /\ num[r.next[n]] = IF num[n] = sz[c[n]] THEN 0 ELSE num[n] + 1
  <2>1. own[n] # NoNode
    BY <1>1, <1>3, <1>10
  <2>2. CASE n = to
    <3>1. /\ r.next[n] = l.next[h] /\ c[n] = to /\ num[n] = 0 /\ sz[to] = pos[e] /\ l.next[h] # h
          /\ l.next[h] \in Nodes
      BY <1>1, <1>2, <1>3, <1>4, <2>2
    <3>2. c[l.next[h]] = to /\ num[l.next[h]] = 1
      BY <1>3, <1>4, <3>1
    <3> QED BY <1>1, <1>4, <3>1, <3>2
  <2>3. CASE n = e
    <3>1. r.next[n] = to /\ c[n] = to /\ num[n] = pos[e] /\ sz[to] = pos[e] /\ c[to] = to /\ num[to] = 0
      BY <1>1, <1>2, <1>3, <1>4, <2>3
    <3> QED BY <1>1, <1>4, <3>1
  <2>4. CASE n = h
    <3>1. /\ r.next[n] = l.next[e] /\ c[n] = h /\ num[n] = 0 /\ sz[h] = len[h] - pos[e]
          /\ l.next[e] \in Nodes
      BY <1>1, <1>2, <1>3, <1>4, <2>4
    <3>2. CASE pos[e] = len[h]
      <4>1. l.next[e] = h
        BY <1>1, <1>4, <1>8, <3>2
      <4> QED BY <1>4, <2>4, <3>1, <3>2, <4>1
    <3>3. CASE pos[e] # len[h]
      <4>1. c[l.next[e]] = h /\ num[l.next[e]] = 1
        BY <1>3, <1>4, <3>1, <3>3
      <4> QED BY <1>4, <3>1, <3>3, <4>1
    <3> QED BY <3>2, <3>3
  <2>5. CASE n \notin {to, e, h} /\ own[n] = h
    <3>1. r.next[n] = l.next[n]
      BY <1>2, <2>5
    <3>2. pos[n] # pos[e] /\ pos[n] # 0
      BY <1>4, <1>8, <2>5
    <3>3. CASE pos[n] < pos[e]
      <4>1. pos[l.next[n]] = pos[n] + 1 /\ l.next[n] # h /\ own[l.next[n]] = h
        BY <1>4, <1>7, <2>1, <2>5, <3>3
      <4>2. c[n] = to /\ num[n] = pos[n] /\ sz[to] = pos[e]
        BY <1>1, <1>3, <1>4, <1>7, <2>1, <2>5, <3>3
      <4>3. c[l.next[n]] = to /\ num[l.next[n]] = pos[n] + 1
        BY <1>3, <1>4, <1>7, <2>1, <2>5, <3>3, <4>1
      <4> QED BY <1>1, <1>4, <1>7, <2>1, <3>1, <3>3, <4>2, <4>3
    <3>4. CASE pos[n] > pos[e]
      <4>1. c[n] = h /\ num[n] = pos[n] - pos[e] /\ sz[h] = len[h] - pos[e]
        BY <1>1, <1>3, <1>4, <1>7, <2>1, <2>5, <3>4
      <4>2. own[l.next[n]] = h /\ pos[l.next[n]] = IF pos[n] = len[h] THEN 0 ELSE pos[n] + 1
        BY <1>7, <2>1, <2>5
      <4>3. CASE pos[n] = len[h]
        <5>1. l.next[n] = h
          BY <1>1, <1>4, <1>8, <4>2, <4>3
        <5> QED BY <1>3, <1>4, <3>1, <4>1, <4>3, <5>1
      <4>4. CASE pos[n] # len[h]
        <5>1. c[l.next[n]] = h /\ num[l.next[n]] = pos[n] + 1 - pos[e]
          BY <1>3, <1>4, <1>7, <2>1, <2>5, <3>4, <4>2, <4>4
        <5> QED BY <1>4, <1>7, <2>1, <2>5, <3>1, <4>1, <4>4, <5>1
      <4> QED BY <4>3, <4>4
    <3> QED BY <1>4, <1>7, <2>1, <3>2, <3>3, <3>4
  <2>6. CASE n \notin {to, e, h} /\ own[n] # h
    <3>1. r.next[n] = l.next[n] /\ own[n] # to
      BY <1>2, <1>5, <2>6
    <3>2. c[n] = own[n] /\ num[n] = pos[n] /\ sz[own[n]] = len[own[n]]
      BY <1>3, <1>7, <2>1, <2>6, <3>1
    <3>3. c[l.next[n]] = own[n] /\ num[l.next[n]] = pos[l.next[n]]
      BY <1>3, <1>7, <2>1, <2>6
    <3> QED BY <1>7, <2>1, <3>1, <3>2, <3>3
  <2> QED BY <2>2, <2>3, <2>4, <2>5, <2>6
<1>11. ASSUME NEW n \in S, NEW m \in S, c[n] # NoNode, c[m] = c[n], num[m] = num[n]
       PROVE  m = n
  <2>1. own[n] # NoNode /\ own[m] # NoNode
    BY <1>1, <1>3, <1>11
  <2>2. /\ n \in Nodes /\ m \in Nodes /\ pos[n] \in Nat /\ pos[m] \in Nat
    BY <1>7, <2>1
  <2>3. CASE c[n] = to
    <3>1. ASSUME NEW x \in S, x \in Nodes, pos[x] \in Nat, c[x] = to
          PROVE  /\ x = to \/ (own[x] = h /\ x # h /\ pos[x] <= pos[e])
                 /\ num[x] = pos[x]
                 /\ x = to <=> pos[x] = 0
      <4>1. x = to \/ (own[x] = h /\ x # h /\ pos[x] <= pos[e])
        BY <1>3, <1>5, <3>1
      <4>2. num[x] = pos[x]
        BY <1>1, <1>3, <1>4, <3>1, <4>1
      <4>3. own[x] = h /\ x # h => pos[x] # 0
        BY <1>4, <1>8
      <4> QED BY <1>1, <1>4, <4>1, <4>2, <4>3
    <3>2. /\ n = to \/ own[n] = h
          /\ m = to \/ own[m] = h
          /\ pos[n] = pos[m] /\ (n = to <=> pos[n] = 0) /\ (m = to <=> pos[m] = 0)
      BY <1>11, <2>2, <2>3, <3>1
    <3> QED BY <1>8, <3>2
  <2>4. CASE c[n] = h
    <3>1. ASSUME NEW x \in S, x \in Nodes, pos[x] \in Nat, c[x] = h
          PROVE  /\ own[x] = h
                 /\ num[x] = IF x = h THEN 0 ELSE pos[x] - pos[e]
                 /\ x # h => pos[x] > pos[e]
      BY <1>3, <1>4, <3>1
    <3>2. /\ own[n] = h /\ own[m] = h
          /\ num[n] = (IF n = h THEN 0 ELSE pos[n] - pos[e]) /\ (n # h => pos[n] > pos[e])
          /\ num[m] = (IF m = h THEN 0 ELSE pos[m] - pos[e]) /\ (m # h => pos[m] > pos[e])
      BY <1>11, <2>2, <2>4, <3>1
    <3>3. n = h <=> m = h
      BY <1>4, <1>11, <2>2, <3>2
    <3>4. pos[n] = pos[m]
      BY <1>4, <1>11, <2>2, <3>2, <3>3
    <3> QED BY <1>8, <3>2, <3>4
  <2>5. CASE c[n] \notin {to, h}
    <3>1. own[n] = c[n] /\ own[m] = c[n] /\ num[n] = pos[n] /\ num[m] = pos[m]
      BY <1>3, <1>11, <2>2, <2>5
    <3> QED BY <1>11, <2>1, <3>1 DEF Placed
  <2> QED BY <2>3, <2>4, <2>5
<1>12. /\ \A g \in Heads : g \notin S => sz[g] = 0
       /\ \A g \in Heads \cap S : c[g] = g /\ num[g] = 0
  BY <1>1, <1>3, <1>4 DEF Placed, Nodes
<1> QED BY <1>6, <1>9, <1>10, <1>11, <1>12 DEF Placed, r, c, num, sz

(* The nodes of the head "from" go behind the node p, and "from" is left.  *)
JoinOwn(own, p, from) == [n \in Nodes |-> IF own[n] = from THEN own[p] ELSE own[n]]
JoinPos(own, pos, len, p, from) ==
  [n \in Nodes |-> IF own[n] = from THEN pos[n] + pos[p]
                   ELSE IF own[n] = own[p] /\ pos[n] > pos[p] THEN pos[n] + len[from] ELSE pos[n]]
JoinLen(own, len, p, from) ==
  [g \in Heads |-> IF g = from THEN 0 ELSE IF g = own[p] THEN len[g] + len[from] ELSE len[g]]

LEMMA ConcatKeepsPlaces ==
  ASSUME NEW S \in SUBSET Nodes, NEW l, Good(l, S),
         NEW own, NEW pos, NEW len, Placed(l, S, own, pos, len),
         NEW p \in S, NEW from \in Heads \cap S, ~empty(l, from),
         own[p] # NoNode, own[p] # from
  PROVE  Placed(__concat(l, from, p, l.next[p]), S \ {from}, JoinOwn(own, p, from),
                JoinPos(own, pos, len, p, from), JoinLen(own, len, p, from))
<1> DEFINE first == l.next[from]
           last == l.prev[from]
           r == __concat(l, from, p, l.next[p])
           T == S \ {from}
           c == JoinOwn(own, p, from)
           num == JoinPos(own, pos, len, p, from)
           sz == JoinLen(own, len, p, from)
           h == own[p]
           q == l.next[p]
<1> USE NodesAssumption
<1>1. /\ from # NoNode /\ from \in Nodes /\ own[from] = from /\ pos[from] = 0
      /\ first \in S /\ last \in S /\ first # from /\ last # from /\ l.next[last] = from
      /\ own[first] = from /\ pos[first] = 1 /\ own[last] = from /\ pos[last] = len[from]
      /\ len[from] \in Nat /\ len[from] > 0
      /\ \A n \in S : l.next[n] \in S /\ (l.next[n] = from => n = last)
  <2>1. /\ from # NoNode /\ from \in Nodes /\ own[from] = from /\ pos[from] = 0 /\ len[from] \in Nat
    BY DEF Placed, Nodes
  <2>2. /\ first \in S /\ last \in S /\ first # from /\ last # from /\ l.next[last] = from
        /\ \A n \in S : l.next[n] \in S /\ (l.next[n] = from => n = last)
    BY DEF Good, Ring, empty
  <2>3. own[first] = from /\ pos[first] = 1 /\ own[last] = from /\ pos[last] = len[from] /\ len[from] # 0
    <3>1. FirstInPlace(l, own, pos, len, from)
      BY PlacedFirst
    <3>2. LastInPlace(l, own, pos, len, from)
      BY PlacedLast
    <3> QED BY <2>2, <3>1, <3>2 DEF FirstInPlace, LastInPlace
  <2> QED BY <2>1, <2>2, <2>3
<1>2. /\ p # from /\ p \in Nodes /\ h \in Heads \cap S /\ pos[p] \in Nat /\ len[h] \in Nat
      /\ pos[p] <= len[h] /\ q \in S /\ own[q] = h /\ q # from /\ q # first
      /\ pos[q] = IF pos[p] = len[h] THEN 0 ELSE pos[p] + 1
  <2>1. h \in Heads \cap S
    BY DEF Placed, Nodes
  <2> QED BY <1>1, <2>1 DEF Placed
<1>3. \A m \in S : r.next[m] = IF m = last THEN q ELSE IF m = p THEN first ELSE l.next[m]
  BY <1>1, <1>2 DEF Good, Links, __concat
<1>4. /\ \A n \in Nodes : c[n] = IF own[n] = from THEN h ELSE own[n]
      /\ \A n \in Nodes : num[n] = IF own[n] = from THEN pos[n] + pos[p]
                                   ELSE IF own[n] = h /\ pos[n] > pos[p] THEN pos[n] + len[from]
                                   ELSE pos[n]
      /\ \A g \in Heads : sz[g] = IF g = from THEN 0 ELSE IF g = h THEN len[g] + len[from] ELSE len[g]
  BY DEF JoinOwn, JoinPos, JoinLen
<1>5. c \in [Nodes -> Heads \cup {NoNode}] /\ num \in [Nodes -> Nat] /\ sz \in [Heads -> Nat]
  <2>1. num \in [Nodes -> Nat]
    BY <1>1, <1>2 DEF JoinPos, Placed
  <2>2. sz \in [Heads -> Nat]
    BY <1>1 DEF JoinLen, Placed
  <2> QED BY <2>1, <2>2 DEF JoinOwn, Placed
<1> HIDE DEF r, c, num, sz, first, last, h, q
<1>6. ASSUME NEW n \in S, own[n] # NoNode
      PROVE  /\ n \in Nodes /\ own[n] \in Heads \cap S /\ pos[n] \in Nat /\ len[own[n]] \in Nat
             /\ pos[n] <= len[own[n]] /\ own[l.next[n]] = own[n]
             /\ pos[l.next[n]] = IF pos[n] = len[own[n]] THEN 0 ELSE pos[n] + 1
             /\ l.next[n] \in S /\ l.next[n] \in Nodes
  BY <1>1, <1>6 DEF Placed, Nodes
<1>7. ASSUME NEW n \in S, NEW m \in S, own[n] # NoNode, own[n] = own[m], pos[n] = pos[m] PROVE m = n
  BY <1>7 DEF Placed
<1>8. ASSUME NEW n \in S, own[n] = from, n # from PROVE pos[n] > 0
  BY <1>1, <1>6, <1>7, <1>8
<1>9. \A n \in T : c[n] = NoNode => r.next[n] = n
  <2> SUFFICES ASSUME NEW n \in T, c[n] = NoNode PROVE r.next[n] = n
    OBVIOUS
  <2>1. own[n] = NoNode
    BY <1>2, <1>4
  <2>2. l.next[n] = n
    BY <2>1 DEF Placed
  <2> QED BY <1>1, <1>2, <1>3, <2>1, <2>2
<1>10. ASSUME NEW n \in T, c[n] # NoNode
       PROVE  /\ c[n] \in T /\ num[n] <= sz[c[n]]
              /\ c[r.next[n]] = c[n]
              /\ num[r.next[n]] = IF num[n] = sz[c[n]] THEN 0 ELSE num[n] + 1
  <2>1. own[n] # NoNode
    BY <1>1, <1>4, <1>10
  <2>0. h # from /\ h \in T /\ sz[h] = len[h] + len[from]
    BY <1>2, <1>4 DEF h
  <2>2. CASE n = last
    <3>1. r.next[n] = q /\ c[n] = h /\ num[n] = len[from] + pos[p]
      BY <1>1, <1>3, <1>4, <1>6, <2>1, <2>2
    <3>2. /\ c[q] = h /\ num[q] = IF pos[q] > pos[p] THEN pos[q] + len[from] ELSE pos[q]
      BY <1>2, <1>4, <2>0
    <3> QED BY <1>1, <1>2, <2>0, <3>1, <3>2
  <2>3. CASE n = p
    <3>1. r.next[n] = first /\ c[n] = h /\ num[n] = pos[p] /\ p # last
      BY <1>1, <1>2, <1>3, <1>4, <2>0, <2>3 DEF h
    <3>2. c[first] = h /\ num[first] = 1 + pos[p]
      BY <1>1, <1>4
    <3> QED BY <1>1, <1>2, <2>0, <3>1, <3>2
  <2>4. CASE n \notin {last, p} /\ own[n] = from
    <3>1. r.next[n] = l.next[n] /\ c[n] = h /\ num[n] = pos[n] + pos[p]
      BY <1>3, <1>4, <1>6, <2>1, <2>4
    <3>2. pos[n] # len[from]
      BY <1>1, <1>7, <2>4
    <3>3. own[l.next[n]] = from /\ pos[l.next[n]] = pos[n] + 1 /\ pos[n] < len[from]
      BY <1>1, <1>6, <2>1, <2>4, <3>2
    <3>4. c[l.next[n]] = h /\ num[l.next[n]] = pos[n] + 1 + pos[p]
      BY <1>4, <1>6, <2>1, <3>3
    <3> QED BY <1>1, <1>2, <1>6, <2>0, <2>1, <3>1, <3>3, <3>4
  <2>5. CASE n \notin {last, p} /\ own[n] = h
    <3>1. /\ r.next[n] = l.next[n] /\ c[n] = h
          /\ num[n] = IF pos[n] > pos[p] THEN pos[n] + len[from] ELSE pos[n]
      BY <1>3, <1>4, <1>6, <2>0, <2>1, <2>5
    <3>2. pos[n] # pos[p]
      BY <1>2, <1>7, <2>1, <2>5 DEF h
    <3>3. own[l.next[n]] = h /\ pos[l.next[n]] = IF pos[n] = len[h] THEN 0 ELSE pos[n] + 1
      BY <1>6, <2>1, <2>5
    <3>4. /\ c[l.next[n]] = h
          /\ num[l.next[n]] = IF pos[l.next[n]] > pos[p] THEN pos[l.next[n]] + len[from]
                              ELSE pos[l.next[n]]
      BY <1>4, <1>6, <2>0, <2>1, <3>3
    <3>5. pos[n] \in Nat /\ pos[n] <= len[h]
      BY <1>6, <2>1, <2>5
    <3> QED BY <1>1, <1>2, <2>0, <3>1, <3>2, <3>3, <3>4, <3>5
  <2>6. CASE own[n] \notin {from, h}
    <3>1. /\ r.next[n] = l.next[n] /\ c[n] = own[n] /\ num[n] = pos[n] /\ sz[own[n]] = len[own[n]]
      BY <1>1, <1>2, <1>3, <1>4, <1>6, <2>1, <2>6 DEF h
    <3>2. c[l.next[n]] = own[n] /\ num[l.next[n]] = pos[l.next[n]]
      BY <1>4, <1>6, <2>1, <2>6
    <3> QED BY <1>6, <2>1, <2>6, <3>1, <3>2
  <2> QED BY <2>2, <2>3, <2>4, <2>5, <2>6
<1>11. ASSUME NEW n \in T, NEW m \in T, c[n] # NoNode, c[m] = c[n], num[m] = num[n]
       PROVE  m = n
  <2>1. own[n] # NoNode /\ own[m] # NoNode
    BY <1>1, <1>4, <1>11
  <2>2. h # from
    BY <1>2 DEF h
  <2>3. ASSUME NEW x \in T, own[x] # NoNode
        PROVE  /\ own[x] = from => c[x] = h /\ num[x] = pos[x] + pos[p]
                                   /\ num[x] > pos[p] /\ num[x] <= pos[p] + len[from]
               /\ own[x] = h => c[x] = h /\ num[x] = IF pos[x] > pos[p] THEN pos[x] + len[from]
                                                     ELSE pos[x]
               /\ own[x] \notin {from, h} => c[x] = own[x] /\ num[x] = pos[x]
               /\ pos[x] \in Nat
    BY <1>1, <1>2, <1>4, <1>6, <1>8, <2>2, <2>3
  <2>4. own[n] = own[m]
    BY <1>1, <1>2, <1>11, <2>1, <2>3
  <2>5. pos[n] = pos[m]
    BY <1>1, <1>2, <1>11, <2>1, <2>3, <2>4
  <2> QED BY <1>7, <2>1, <2>4, <2>5
<1>12. /\ \A g \in Heads : g \notin T => sz[g] = 0
       /\ \A g \in Heads \cap T : c[g] = g /\ num[g] = 0
  <2>1. \A g \in Heads : g \notin T => sz[g] = 0
    BY <1>2, <1>4 DEF Placed
  <2>2. ASSUME NEW g \in Heads \cap T PROVE c[g] = g /\ num[g] = 0
    <3>1. own[g] = g /\ pos[g] = 0 /\ g \in Nodes
      BY DEF Placed, Nodes
    <3> QED BY <1>2, <1>4, <3>1
  <2> QED BY <2>1, <2>2
<1> QED BY <1>5, <1>9, <1>10, <1>11, <1>12 DEF Placed, r, c, num, sz, q

(* A head that is initialised again is at the beginning of an empty ring.  *)
LEMMA InitKeepsPlaces ==
  ASSUME NEW S \in SUBSET Nodes, NEW l, Good(l, S),
         NEW own, NEW pos, NEW len, Placed(l, S, own, pos, len), NEW h \in Heads, h \notin S
  PROVE  Placed(__init(l, h), S \cup {h}, [own EXCEPT ![h] = h], [pos EXCEPT ![h] = 0], len)
<1> DEFINE r == __init(l, h)
           T == S \cup {h}
           c == [own EXCEPT ![h] = h]
           num == [pos EXCEPT ![h] = 0]
<1> USE NodesAssumption
<1>1. /\ h \in Nodes /\ h # NoNode /\ len[h] = 0
      /\ \A n \in S : n # h /\ l.next[n] \in S
      /\ \A n \in T : r.next[n] = IF n = h THEN h ELSE l.next[n]
  BY DEF Good, Ring, Links, Nodes, Placed, __init
<1>2. /\ \A n \in Nodes : /\ c[n] = IF n = h THEN h ELSE own[n]
                          /\ num[n] = IF n = h THEN 0 ELSE pos[n]
      /\ c \in [Nodes -> Heads \cup {NoNode}] /\ num \in [Nodes -> Nat]
  BY <1>1 DEF Placed
<1>3. /\ \A n \in S : own[n] # h /\ l.next[n] # h
  BY <1>1, <1>2 DEF Placed
<1> HIDE DEF r, c, num
<1>4. ASSUME NEW n \in S
      PROVE  /\ own[n] = NoNode => l.next[n] = n
             /\ own[n] # NoNode =>
                  /\ own[n] \in S /\ pos[n] <= len[own[n]] /\ own[l.next[n]] = own[n]
                  /\ pos[l.next[n]] = IF pos[n] = len[own[n]] THEN 0 ELSE pos[n] + 1
  BY DEF Placed
<1>5. ASSUME NEW n \in S, NEW m \in S, own[n] # NoNode, own[m] = own[n], pos[m] = pos[n] PROVE m = n
  BY <1>5 DEF Placed
<1>6. /\ \A n \in T : c[n] = NoNode => r.next[n] = n
      /\ \A n \in T : c[n] # NoNode =>
           /\ c[n] \in T /\ num[n] <= len[c[n]] /\ c[r.next[n]] = c[n]
           /\ num[r.next[n]] = IF num[n] = len[c[n]] THEN 0 ELSE num[n] + 1
  BY <1>1, <1>2, <1>3, <1>4
<1>7. ASSUME NEW n \in T, NEW m \in T, c[n] # NoNode, c[m] = c[n], num[m] = num[n] PROVE m = n
  BY <1>1, <1>2, <1>3, <1>5, <1>7
<1>8. /\ len \in [Heads -> Nat]
      /\ \A g \in Heads : g \notin T => len[g] = 0
      /\ \A g \in Heads \cap T : c[g] = g /\ num[g] = 0
  BY <1>1, <1>2 DEF Placed, Nodes
<1> QED BY <1>2, <1>6, <1>7, <1>8 DEF Placed, r, c, num
=============================================================================
