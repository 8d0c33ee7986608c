------------------------- MODULE CircListRefinement -------------------------
(* The rings of pointers of CircList implement the sequences of Lists.     *)
EXTENDS CircList

(* The lists only change as lists may: every step of the pointers is one   *)
(* operation on sequences, or leaves them alone.                           *)
L == INSTANCE Lists
ListsSpec == L!Spec

(* Each operation does to the sequences what its comment says.             *)
EachKeepsItsPromise ==
  /\ \A e \in Elts, n \in Nodes :
       /\ Insert_after(e, n) => L!InsertAfter(e, n)
       /\ Insert_before(e, n) => L!InsertBefore(e, n)
       /\ Move_elt(e, n) => L!MoveAfter(e, n)
       /\ Move_elt_tail(e, n) => L!MoveBefore(e, n)
  /\ \A e, f \in Elts : /\ Replace(e, f) => L!Substitute(f, e)
                        /\ Swap(e, f) => L!Exchange(e, f)
  /\ \A e \in Elts : Extract(e) => L!TakeOut(e)
  /\ \A h \in Heads : /\ Pop(h) => L!TakeFirst(h)
                      /\ Pop_back(h) => L!TakeLast(h)
                      /\ Rotate_left(h) => L!RotateLeft(h)
                      /\ \A e \in Elts : /\ Push(h, e) => L!InsertAfter(e, h)
                                         /\ Push_back(h, e) => L!InsertBefore(e, h)
  /\ \A h, g \in Heads : /\ Replace_by(h, g) => L!Transfer(h, g)
                         /\ Append_list(h, g) => L!Prepend(h, g)
                         /\ Append_back(h, g) => L!Join(h, g)
                         /\ \A e \in Elts : Truncate(h, e, g) => L!Truncate(h, e, g)

OperationsKeepTheirPromise == [][EachKeepsItsPromise]_vars
=============================================================================
