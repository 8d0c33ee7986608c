-------------------------------- MODULE Lists --------------------------------
(***************************************************************************)
(* What the containers of circList.h promise: each head is a sequence of   *)
(* elements, and an element is in one sequence at most, once.  A place in  *)
(* a list is given by a neighbour: after a head is the beginning of its    *)
(* list, before a head is the end.                                         *)
(***************************************************************************)
EXTENDS Integers, Sequences, SequencesExt

CONSTANTS Heads, Elts

VARIABLE list    \* list[h]: the elements queued under the head h, in order

Members(h) == {list[h][i] : i \in 1 .. Len(list[h])}
Queued == UNION {Members(h) : h \in Heads}

Init == list = [h \in Heads |-> <<>>]

Index(seq, e) == CHOOSE i \in 1 .. Len(seq) : seq[i] = e
IsOn(l, h, n) == n = h \/ \E i \in 1 .. Len(l[h]) : l[h][i] = n

PutAfter(l, e, n) ==
  [h \in Heads |-> IF IsOn(l, h, n)
                   THEN InsertAt(l[h], IF n = h THEN 1 ELSE Index(l[h], n) + 1, e) ELSE l[h]]
PutBefore(l, e, n) ==
  [h \in Heads |-> IF IsOn(l, h, n)
                   THEN InsertAt(l[h], IF n = h THEN Len(l[h]) + 1 ELSE Index(l[h], n), e) ELSE l[h]]
Without(l, e) ==
  [h \in Heads |-> IF \E i \in 1 .. Len(l[h]) : l[h][i] = e
                   THEN RemoveAt(l[h], Index(l[h], e)) ELSE l[h]]

InsertAfter(e, n)  == e \notin Queued /\ list' = PutAfter(list, e, n)
InsertBefore(e, n) == e \notin Queued /\ list' = PutBefore(list, e, n)
MoveAfter(e, n)    == e # n /\ list' = PutAfter(Without(list, e), e, n)
MoveBefore(e, n)   == e # n /\ list' = PutBefore(Without(list, e), e, n)

TakeOut(e)   == list' = Without(list, e)
TakeFirst(h) == list' = [list EXCEPT ![h] = IF @ = <<>> THEN @ ELSE Tail(@)]
TakeLast(h)  == list' = [list EXCEPT ![h] = IF @ = <<>> THEN @ ELSE Front(@)]
RotateLeft(h)  == list' = [list EXCEPT ![h] = IF @ = <<>> THEN @ ELSE Append(Tail(@), Head(@))]

Renamed(l, e, f) ==
  [h \in Heads |-> [i \in 1 .. Len(l[h]) |->
     IF l[h][i] = e THEN f ELSE IF l[h][i] = f THEN e ELSE l[h][i]]]
Substitute(old, new) == new \notin Queued /\ list' = Renamed(list, old, new)
Exchange(e, f) == {e, f} \subseteq Queued /\ list' = Renamed(list, e, f)

Truncate(h, e, to) ==
  /\ h # to /\ list[to] = <<>> /\ e \in Members(h)
  /\ list' = [list EXCEPT ![to] = SubSeq(list[h], 1, Index(list[h], e)),
                          ![h] = SubSeq(@, Index(@, e) + 1, Len(@))]

Transfer(h, to) == list[to] = <<>> /\ list' = [list EXCEPT ![to] = list[h], ![h] = list[to]]
Prepend(h, from) == h # from /\ list' = [list EXCEPT ![h] = list[from] \o @, ![from] = <<>>]
Join(h, from)    == h # from /\ list' = [list EXCEPT ![h] = @ \o list[from], ![from] = <<>>]

Next ==
  \/ \E e \in Elts :
       \/ TakeOut(e)
       \/ \E n \in Heads \cup Elts : InsertAfter(e, n) \/ InsertBefore(e, n)
                                     \/ MoveAfter(e, n) \/ MoveBefore(e, n)
       \/ \E f \in Elts : Substitute(e, f) \/ Exchange(e, f)
  \/ \E h \in Heads :
       \/ TakeFirst(h) \/ TakeLast(h) \/ RotateLeft(h)
       \/ \E to \in Heads : Transfer(h, to) \/ Prepend(h, to) \/ Join(h, to)
                            \/ \E e \in Elts : Truncate(h, e, to)

Spec == Init /\ [][Next]_list
=============================================================================
