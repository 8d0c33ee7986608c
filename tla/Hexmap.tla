-------------------------------- MODULE Hexmap --------------------------------
(***************************************************************************)
(* The map of hexagons of core/hexmap.cpp: lines of hexagons, the odd ones *)
(* shifted by half a hexagon to the east.  A HexCoord is a line and a      *)
(* column.                                                                 *)
(***************************************************************************)
EXTENDS Integers

CONSTANTS nbLines, nbColumns

(* An mIndex is a signed short.                                            *)
ASSUME MapAssumption ==
  /\ nbLines \in Nat \ {0} /\ nbLines <= 32767
  /\ nbColumns \in Nat \ {0} /\ nbColumns <= 32767

HexCoord(l, c) == [line |-> l, column |-> c]
Hexagons == [line : 0 .. nbLines - 1, column : 0 .. nbColumns - 1]

Direction == {"NEast", "SEast", "East", "NWest", "West", "SWest"}

(* The first table is that of the even lines.                              *)
dirToVect ==
  [even |-> [NEast |-> HexCoord(-1, 0), SEast |-> HexCoord(1, 0), East |-> HexCoord(0, 1),
             NWest |-> HexCoord(-1, -1), West |-> HexCoord(0, -1), SWest |-> HexCoord(1, -1)],
   odd  |-> [NEast |-> HexCoord(-1, 1), SEast |-> HexCoord(1, 1), East |-> HexCoord(0, 1),
             NWest |-> HexCoord(-1, 0), West |-> HexCoord(0, -1), SWest |-> HexCoord(1, 0)]]

VectorM1(h, dir) == dirToVect["even"][dir]    \* mutant: one table for all lines
Vector(h, dir) == IF h.line % 2 = 0 THEN dirToVect["even"][dir] ELSE dirToVect["odd"][dir]

inRange(c) == c.line >= 0 /\ c.column >= 0 /\ c.line < nbLines /\ c.column < nbColumns

Abs(x) == IF x < 0 THEN -x ELSE x

(* The number of columns gained for free by going straight up or down; it  *)
(* depends on the parity of the line and on the side.                      *)
ThresholdM1(h1, diff_cols, lines) == lines \div 2      \* mutant: always rounded down
ThresholdM2(h1, diff_cols, lines) ==                  \* mutant: the rule of even lines for all
  IF diff_cols >= 0 THEN lines \div 2 ELSE (lines + 1) \div 2
Threshold(h1, diff_cols, lines) ==
  IF h1.line % 2 = 0
  THEN IF diff_cols >= 0 THEN lines \div 2 ELSE (lines + 1) \div 2
  ELSE IF diff_cols >= 0 THEN (lines + 1) \div 2 ELSE lines \div 2

hexDist(h1, h2) ==
  LET diff_cols == h2.column - h1.column
      abs_diff_l == Abs(h2.line - h1.line)
      thres == Threshold(h1, diff_cols, abs_diff_l)
  IN IF abs_diff_l = 0 THEN Abs(diff_cols)
     ELSE IF Abs(diff_cols) <= thres THEN abs_diff_l ELSE abs_diff_l + (Abs(diff_cols) - thres)

-----------------------------------------------------------------------------
(* The operations are applied to the hexagons of the map one after the     *)
(* other, along a walk.                                                    *)
VARIABLE here

(* The place next to h in a direction, in the map or not.                  *)
Neighbour(h, dir) ==
  HexCoord(h.line + Vector(h, dir).line, h.column + Vector(h, dir).column)

MapInit == here = HexCoord(0, 0)
Walk(dir) == inRange(Neighbour(here, dir)) /\ here' = Neighbour(here, dir)
MapNext == \E dir \in Direction : Walk(dir)
MapSpec == MapInit /\ [][MapNext]_here

(* Properties.                                                             *)

(* Going in a direction and then in the opposite one comes back, whatever  *)
(* the parity of the line: the two tables of vectors fit together.         *)
Opposite == [NEast |-> "SWest", SEast |-> "NWest", East |-> "West",
             NWest |-> "SEast", West |-> "East", SWest |-> "NEast"]
DirectionsAreOpposite ==
  \A dir \in Direction : Neighbour(Neighbour(here, dir), Opposite[dir]) = here

(* hexDist is the length of a shortest path that never leaves the map: the *)
(* hexagons at a distance of n + 1 at most are those at n at most and      *)
(* their neighbours, as a breadth-first search would find them.            *)
Disc(h, n) == {t \in Hexagons : hexDist(h, t) <= n}
Around(S) == S \cup {t \in Hexagons : \E s \in S, dir \in Direction : t = Neighbour(s, dir)}
HexDistIsShortestPath ==
  /\ Disc(here, 0) = {here}
  /\ \A n \in 0 .. nbLines + nbColumns : Disc(here, n + 1) = Around(Disc(here, n))

(* The distance does not depend on the end it is computed from, although   *)
(* the rounding of the threshold does.                                     *)
DistanceIsSymmetric == \A t \in Hexagons : hexDist(here, t) = hexDist(t, here)
=============================================================================
