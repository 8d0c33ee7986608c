------------------------------- MODULE MCCore -------------------------------
(* The two libraries of the game, small lists and a small map.  They share *)
(* nothing: the lists change while the walk on the map is where it began,  *)
(* the walk goes on while the lists are as they were made.                 *)
EXTENDS CircListRefinement, Hexmap, TLC

Perms == Permutations(Heads) \cup Permutations(Elts)

CoreInit == Init /\ MapInit
CoreNext ==
  \/ MapInit /\ Next /\ UNCHANGED here
  \/ Init /\ MapNext /\ UNCHANGED vars
CoreSpec == CoreInit /\ [][CoreNext]_<<vars, here>>
=============================================================================
