------------------------------ MODULE CircList ------------------------------
(***************************************************************************)
(* The intrusive circular lists of circList.h: list elements, list heads,  *)
(* iterators.  The owner of the lists calls one operation at a time, and   *)
(* uses it as its comments require: an element that is inserted is in no   *)
(* list, the head that truncate or replace_by fills is empty, an element   *)
(* is not moved next to itself nor exchanged with itself.  An iterator may *)
(* walk through a list while the body of the loop takes the current        *)
(* element away.                                                           *)
(***************************************************************************)
EXTENDS Integers, Sequences, FiniteSets

CONSTANTS
  Heads,   \* list heads: their payload is null
  Elts,    \* list elements
  NoNode   \* a null pointer

Nodes == Heads \cup Elts

ASSUME NodesAssumption == Heads \cap Elts = {} /\ NoNode \notin Nodes

VARIABLES
  links,   \* links.next and links.prev: the pointers of every node
  stale,   \* heads whose list was given to another by append, until __init
  it,      \* the iterator of the loop in progress: p_elt, p_prev, p_next
  loop     \* ghost: the head of the list under traversal, NoNode between loops;
           \* what it held when the loop began; what the iterator has visited
vars == <<links, stale, it, loop>>

NoIter == [p_elt |-> NoNode, p_prev |-> NoNode, p_next |-> NoNode]
NoLoop == [head |-> NoNode, expected |-> <<>>, visited |-> <<>>]

(* The constructors: a node is linked to itself.                           *)
Init ==
  /\ links = [next |-> [n \in Nodes |-> n], prev |-> [n \in Nodes |-> n]]
  /\ stale = {} /\ it = NoIter /\ loop = NoLoop

-----------------------------------------------------------------------------
(* The pointers an operation leaves, given those it finds.  Assignments    *)
(* are in the order of the code: the last one wins on the same pointer.    *)

__init(l, n) == [next |-> [l.next EXCEPT ![n] = n], prev |-> [l.prev EXCEPT ![n] = n]]

__insert(l, this, prev, next) ==
  [next |-> [l.next EXCEPT ![this] = next, ![prev] = this],
   prev |-> [l.prev EXCEPT ![next] = this, ![this] = prev]]

__link(l, prev, next) == [next |-> [l.next EXCEPT ![prev] = next], prev |-> [l.prev EXCEPT ![next] = prev]]

(* The list of head "from" between two nodes, itself left out.             *)
__concat(l, from, prev, next) ==
  [next |-> [l.next EXCEPT ![prev] = l.next[from], ![l.prev[from]] = next],
   prev |-> [l.prev EXCEPT ![l.next[from]] = prev, ![next] = l.prev[from]]]

empty(l, n) == l.next[n] = n

extractM1(l, e) ==                  \* mutant: no __init of the extracted element
  IF empty(l, e) THEN l ELSE __link(l, l.prev[e], l.next[e])

extract(l, e) ==
  IF empty(l, e) THEN l ELSE __init(__link(l, l.prev[e], l.next[e]), e)

insert_after(l, this, elt)  == __insert(l, this, elt, l.next[elt])
insert_before(l, this, elt) == __insert(l, this, l.prev[elt], elt)

Detached(l, this) == IF empty(l, this) THEN l ELSE __link(l, l.prev[this], l.next[this])
move_elt(l, this, target)      == insert_after(Detached(l, this), this, target)
move_elt_tail(l, this, target) == insert_before(Detached(l, this), this, target)

(* this takes the place of elt, which may be alone.                        *)
replace(l, this, elt) ==
  LET next1 == [l.next EXCEPT ![this] = l.next[elt]]
      prev1 == [l.prev EXCEPT ![next1[this]] = this]
      prev2 == [prev1 EXCEPT ![this] = prev1[elt]]
      next2 == [next1 EXCEPT ![prev2[this]] = this]
  IN __init([next |-> next2, prev |-> prev2], elt)

replace_by(l, this, newElt) == IF empty(l, this) THEN l ELSE replace(l, newElt, this)

rotate_left(l, head) == IF empty(l, head) THEN l ELSE move_elt_tail(l, l.next[head], head)

pop(l, head)      == IF empty(l, head) THEN l ELSE extract(l, l.next[head])
pop_back(l, head) == IF empty(l, head) THEN l ELSE extract(l, l.prev[head])

(* The list up to entry goes to the head "list".  The entry given is in a  *)
(* list with entries, so that the early returns are not taken.             *)
truncateM1(l, this, entry, list) == \* mutant: new_first is entry itself
  [next |-> [l.next EXCEPT ![list] = l.next[this], ![entry] = list, ![this] = entry],
   prev |-> [l.prev EXCEPT ![l.next[this]] = list, ![list] = entry, ![entry] = this]]

truncate(l, this, entry, list) ==
  LET new_first == l.next[entry]
  IN [next |-> [l.next EXCEPT ![list] = l.next[this], ![entry] = list, ![this] = new_first],
      prev |-> [l.prev EXCEPT ![l.next[this]] = list, ![list] = entry, ![new_first] = this]]

append(l, this, list)      == IF empty(l, list) THEN l ELSE __concat(l, list, this, l.next[this])
append_back(l, this, list) == IF empty(l, list) THEN l ELSE __concat(l, list, l.prev[this], this)

(* swap of iterators on a and b, whose links are read again first.         *)
swap(l, a, b) ==
  LET out == extract(l, a)
  IN IF l.next[a] = b THEN insert_after(out, a, b)
     ELSE IF l.prev[a] = b THEN insert_before(out, a, b)
     ELSE LET out2 == extract(out, b)
          IN insert_after(insert_after(out2, a, l.prev[b]), b, l.prev[a])

-----------------------------------------------------------------------------
(* The operations, between two loops.                                      *)

Idle == loop.head = NoNode
Live == Nodes \ stale
Unlinked(e) == e \in Elts /\ empty(links, e)
Linked(n) == n \in Live /\ (n \in Heads \/ ~empty(links, n))

Between(l) == Idle /\ links' = l /\ UNCHANGED <<stale, it, loop>>

Insert_after(e, n)  == Unlinked(e) /\ Linked(n) /\ Between(insert_after(links, e, n))
Insert_before(e, n) == Unlinked(e) /\ Linked(n) /\ Between(insert_before(links, e, n))
Push(h, e)      == h \in Live /\ Unlinked(e) /\ Between(__insert(links, e, h, links.next[h]))
Push_back(h, e) == h \in Live /\ Unlinked(e) /\ Between(__insert(links, e, links.prev[h], h))

Extract(e)  == Between(extract(links, e))
Pop(h)      == h \in Live /\ Between(pop(links, h))
Pop_back(h) == h \in Live /\ Between(pop_back(links, h))

Move_elt(e, n)      == e # n /\ Linked(n) /\ Between(move_elt(links, e, n))
Move_elt_tail(e, n) == e # n /\ Linked(n) /\ Between(move_elt_tail(links, e, n))
Rotate_left(h)      == h \in Live /\ Between(rotate_left(links, h))

Replace(e, old) == e # old /\ Unlinked(e) /\ Between(replace(links, e, old))
Replace_by(h, to) ==
  h # to /\ {h, to} \subseteq Live /\ empty(links, to) /\ Between(replace_by(links, h, to))

Swap(a, b) == a # b /\ Linked(a) /\ Linked(b) /\ Between(swap(links, a, b))

-----------------------------------------------------------------------------
(* The nodes of a ring: those of every set of live nodes that holds its    *)
(* head and is closed under next.                                          *)
InRing(l, S, h, n) ==
  \A R \in SUBSET S : h \in R /\ (\A m \in R : l.next[m] \in R) => n \in R
IsIn(h, e) == h \in Live /\ InRing(links, Live, h, e)

(* The list of a head, read along next; N bounds the walk, which no list   *)
(* is longer than.                                                         *)
CONSTANT N
ASSUME BoundAssumption == N \in Nat /\ IsFiniteSet(Elts) /\ Cardinality(Elts) <= N

ListOf(l, h) ==
  LET node[i \in 0 .. N] == IF i = 0 THEN h ELSE l.next[node[i - 1]]
      back == {i \in 1 .. N : node[i] = h}
      len == IF back = {} THEN N ELSE (CHOOSE i \in back : \A j \in back : i <= j) - 1
  IN [i \in 1 .. len |-> node[i]]

list == [h \in Heads |-> IF h \in stale THEN <<>> ELSE ListOf(links, h)]

Truncate(h, e, to) ==
  /\ h # to /\ {h, to} \subseteq Live /\ IsIn(h, e) /\ empty(links, to)
  /\ Between(truncate(links, h, e, to))

(* The head whose list is taken keeps its pointers: it is of no use until  *)
(* it is initialised again.                                                *)
Appending(h, from, l) ==
  /\ Idle /\ h # from /\ {h, from} \subseteq Live
  /\ links' = l
  /\ stale' = IF empty(links, from) THEN stale ELSE stale \cup {from}
  /\ UNCHANGED <<it, loop>>

Append_list(h, from) == Appending(h, from, append(links, h, from))
Append_back(h, from) == Appending(h, from, append_back(links, h, from))

Reinit(h) ==
  /\ Idle /\ h \in stale
  /\ links' = __init(links, h) /\ stale' = stale \ {h}
  /\ UNCHANGED <<it, loop>>

-----------------------------------------------------------------------------
(* for (x : list) with a body that may take x away.                        *)

begin(h) ==
  /\ Idle /\ h \in Live
  /\ it' = [p_elt |-> links.next[h], p_prev |-> links.prev[links.next[h]],
            p_next |-> links.next[links.next[h]]]
  /\ loop' = [head |-> h, expected |-> list[h], visited |-> <<>>]
  /\ UNCHANGED <<links, stale>>

AtElement == loop.head # NoNode /\ it.p_elt # loop.head

(* The body extracts the current element, or moves it to another list; the *)
(* two operations assert that it is no head.                               *)
BodyExtract ==
  /\ AtElement /\ it.p_elt \in Elts /\ IsIn(loop.head, it.p_elt)
  /\ links' = extract(links, it.p_elt)
  /\ UNCHANGED <<stale, it, loop>>

BodyMove(h) ==
  /\ AtElement /\ it.p_elt \in Elts /\ IsIn(loop.head, it.p_elt) /\ h \in Live /\ h # loop.head
  /\ links' = move_elt(links, it.p_elt, h)
  /\ UNCHANGED <<stale, it, loop>>

(* operator++ relies on what was cached when the element was reached.      *)
NextElementM1 == links.next[it.p_elt]     \* mutant: the pointer of the current element
NextElement == it.p_next

Increment ==
  /\ AtElement
  /\ it' = [p_elt |-> NextElement, p_prev |-> it.p_elt, p_next |-> links.next[it.p_next]]
  /\ loop' = [loop EXCEPT !.visited = Append(@, it.p_elt)]
  /\ UNCHANGED <<links, stale>>

EndLoop ==
  /\ loop.head # NoNode /\ it.p_elt = loop.head
  /\ it' = NoIter /\ loop' = NoLoop
  /\ UNCHANGED <<links, stale>>

-----------------------------------------------------------------------------
Next ==
  \/ \E e \in Elts : \E n \in Nodes :
       Insert_after(e, n) \/ Insert_before(e, n) \/ Move_elt(e, n) \/ Move_elt_tail(e, n)
  \/ \E e, f \in Elts : Replace(e, f) \/ Swap(e, f)
  \/ \E e \in Elts : Extract(e)
  \/ \E h \in Heads, e \in Elts : Push(h, e) \/ Push_back(h, e)
  \/ \E h \in Heads : Pop(h) \/ Pop_back(h) \/ Rotate_left(h) \/ Reinit(h)
  \/ \E h, g \in Heads : Replace_by(h, g) \/ Append_list(h, g) \/ Append_back(h, g)
  \/ \E h, g \in Heads, e \in Elts : Truncate(h, e, g)
  \/ \E h \in Heads : begin(h) \/ BodyMove(h)
  \/ BodyExtract \/ Increment \/ EndLoop

Spec == Init /\ [][Next]_vars

-----------------------------------------------------------------------------
(* Properties.                                                             *)

(* Every pointer designates a node; heads only are stale.                  *)
TypeOK ==
  /\ links \in [next : [Nodes -> Nodes], prev : [Nodes -> Nodes]]
  /\ stale \subseteq Heads
  /\ it \in [p_elt : Nodes \cup {NoNode}, p_prev : Nodes \cup {NoNode}, p_next : Nodes \cup {NoNode}]
  /\ loop \in [head : Heads \cup {NoNode}, expected : Seq(Elts), visited : Seq(Elts)]

(* The pointers of the nodes form rings: prev is the inverse of next, and  *)
(* no live node leads to a stale head, whatever was inserted, moved,       *)
(* exchanged, cut and joined before.                                       *)
Ring(l, S) ==
  \A n \in S : /\ l.next[n] \in S /\ l.prev[n] \in S
               /\ l.next[l.prev[n]] = n /\ l.prev[l.next[n]] = n
Rings == Ring(links, Live)

(* Two heads are never in the same ring, and an element that is in a ring  *)
(* with others is in the list of one head: nothing is lost or shared.      *)
ListsArePartition ==
  \A n \in Live : Linked(n) =>
    \E h \in Heads : IsIn(h, n) /\ \A g \in Heads : IsIn(g, n) => g = h

(* A loop visits every element its list held at the beginning, once and in *)
(* order, although its body takes elements away ("without using the        *)
(* contents of p_elt which may have been destroyed").                      *)
LoopVisitsAll ==
  loop.head # NoNode =>
    /\ Len(loop.visited) <= Len(loop.expected)
    /\ \A i \in 1 .. Len(loop.visited) : loop.visited[i] = loop.expected[i]
    /\ it.p_elt = loop.head => Len(loop.visited) = Len(loop.expected)

=============================================================================
