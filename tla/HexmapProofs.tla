---------------------------- MODULE HexmapProofs ----------------------------
(***************************************************************************)
(* The geometry of the map of hexagons, for every size of map.             *)
(***************************************************************************)
EXTENDS Hexmap, TLAPS

Places == [line : Int, column : Int]

-----------------------------------------------------------------------------
(* The two tables of vectors fit together.                                 *)
LEMMA OppositeComesBack ==
  ASSUME NEW h \in Places, NEW dir \in Direction
  PROVE  /\ Neighbour(h, dir) \in Places
         /\ Neighbour(Neighbour(h, dir), Opposite[dir]) = h
<1>1. h.line \in Int /\ h.column \in Int /\ h = HexCoord(h.line, h.column)
  BY DEF Places, HexCoord
<1>2. /\ h.line % 2 = 0 => (h.line + 1) % 2 # 0 /\ (h.line - 1) % 2 # 0
      /\ h.line % 2 # 0 => (h.line + 1) % 2 = 0 /\ (h.line - 1) % 2 = 0
  BY <1>1
<1>3. CASE dir = "NEast"
  BY <1>1, <1>2, <1>3 DEF Neighbour, Vector, Opposite, dirToVect, HexCoord, Places
<1>4. CASE dir = "SEast"
  BY <1>1, <1>2, <1>4 DEF Neighbour, Vector, Opposite, dirToVect, HexCoord, Places
<1>5. CASE dir = "East"
  BY <1>1, <1>2, <1>5 DEF Neighbour, Vector, Opposite, dirToVect, HexCoord, Places
<1>6. CASE dir = "NWest"
  BY <1>1, <1>2, <1>6 DEF Neighbour, Vector, Opposite, dirToVect, HexCoord, Places
<1>7. CASE dir = "West"
  BY <1>1, <1>2, <1>7 DEF Neighbour, Vector, Opposite, dirToVect, HexCoord, Places
<1>8. CASE dir = "SWest"
  BY <1>1, <1>2, <1>8 DEF Neighbour, Vector, Opposite, dirToVect, HexCoord, Places
<1> QED BY <1>3, <1>4, <1>5, <1>6, <1>7, <1>8 DEF Direction

(* The distance in terms of lines and columns.                             *)
Dist(a, b, c, d) == hexDist(HexCoord(a, b), HexCoord(c, d))

LEMMA DistIsSymmetric ==
  ASSUME NEW a \in Int, NEW b \in Int, NEW c \in Int, NEW d \in Int
  PROVE  Dist(a, b, c, d) = Dist(c, d, a, b)
<1>1. CASE c - a >= 0 /\ d - b >= 0
  BY <1>1 DEF Dist, hexDist, Threshold, Abs, HexCoord
<1>2. CASE c - a >= 0 /\ d - b < 0
  BY <1>2 DEF Dist, hexDist, Threshold, Abs, HexCoord
<1>3. CASE c - a < 0 /\ d - b >= 0
  BY <1>3 DEF Dist, hexDist, Threshold, Abs, HexCoord
<1>4. CASE c - a < 0 /\ d - b < 0
  BY <1>4 DEF Dist, hexDist, Threshold, Abs, HexCoord
<1> QED BY <1>1, <1>2, <1>3, <1>4
LEMMA DistIsNat ==
  ASSUME NEW a \in Int, NEW b \in Int, NEW c \in Int, NEW d \in Int
  PROVE  Dist(a, b, c, d) \in Nat
BY DEF Dist, hexDist, Threshold, Abs, HexCoord

(* A step to a neighbour changes the distance by one at most.              *)
LEMMA OneStepFurther ==
  ASSUME NEW h \in Places, NEW s \in Places, NEW dir \in Direction
  PROVE  hexDist(h, Neighbour(s, dir)) <= hexDist(h, s) + 1
<1> DEFINE a == h.line
           b == h.column
           c == s.line
           d == s.column
<1>0. /\ a \in Int /\ b \in Int /\ c \in Int /\ d \in Int
      /\ h = HexCoord(a, b) /\ s = HexCoord(c, d)
  BY DEF Places, HexCoord
<1> HIDE DEF a, b, c, d
<1>a. /\ Dist(a, b, c, d - 1) <= Dist(a, b, c, d) + 1
      /\ Dist(a, b, c, d + 1) <= Dist(a, b, c, d) + 1
  BY <1>0 DEF Dist, hexDist, Threshold, Abs, HexCoord
<1>b. c % 2 = 0 => /\ Dist(a, b, c - 1, d - 1) <= Dist(a, b, c, d) + 1
                   /\ Dist(a, b, c - 1, d) <= Dist(a, b, c, d) + 1
  BY <1>0 DEF Dist, hexDist, Threshold, Abs, HexCoord
<1>c. c % 2 = 0 => /\ Dist(a, b, c + 1, d - 1) <= Dist(a, b, c, d) + 1
                   /\ Dist(a, b, c + 1, d) <= Dist(a, b, c, d) + 1
  BY <1>0 DEF Dist, hexDist, Threshold, Abs, HexCoord
<1>d. c % 2 # 0 => /\ Dist(a, b, c - 1, d + 1) <= Dist(a, b, c, d) + 1
                   /\ Dist(a, b, c - 1, d) <= Dist(a, b, c, d) + 1
  BY <1>0 DEF Dist, hexDist, Threshold, Abs, HexCoord
<1>e. c % 2 # 0 => /\ Dist(a, b, c + 1, d + 1) <= Dist(a, b, c, d) + 1
                   /\ Dist(a, b, c + 1, d) <= Dist(a, b, c, d) + 1
  BY <1>0 DEF Dist, hexDist, Threshold, Abs, HexCoord
<1>1. CASE dir = "NEast"
  <2>1. Neighbour(s, dir) = HexCoord(c - 1, IF c % 2 = 0 THEN d ELSE d + 1)
    BY <1>0, <1>1 DEF Neighbour, Vector, dirToVect, HexCoord
  <2> QED BY <1>0, <1>b, <1>d, <2>1 DEF Dist
<1>2. CASE dir = "SEast"
  <2>1. Neighbour(s, dir) = HexCoord(c + 1, IF c % 2 = 0 THEN d ELSE d + 1)
    BY <1>0, <1>2 DEF Neighbour, Vector, dirToVect, HexCoord
  <2> QED BY <1>0, <1>c, <1>e, <2>1 DEF Dist
<1>3. CASE dir = "East"
  <2>1. Neighbour(s, dir) = HexCoord(c, d + 1)
    BY <1>0, <1>3 DEF Neighbour, Vector, dirToVect, HexCoord
  <2> QED BY <1>0, <1>a, <2>1 DEF Dist
<1>4. CASE dir = "NWest"
  <2>1. Neighbour(s, dir) = HexCoord(c - 1, IF c % 2 = 0 THEN d - 1 ELSE d)
    BY <1>0, <1>4 DEF Neighbour, Vector, dirToVect, HexCoord
  <2> QED BY <1>0, <1>b, <1>d, <2>1 DEF Dist
<1>5. CASE dir = "West"
  <2>1. Neighbour(s, dir) = HexCoord(c, d - 1)
    BY <1>0, <1>5 DEF Neighbour, Vector, dirToVect, HexCoord
  <2> QED BY <1>0, <1>a, <2>1 DEF Dist
<1>6. CASE dir = "SWest"
  <2>1. Neighbour(s, dir) = HexCoord(c + 1, IF c % 2 = 0 THEN d - 1 ELSE d)
    BY <1>0, <1>6 DEF Neighbour, Vector, dirToVect, HexCoord
  <2> QED BY <1>0, <1>c, <1>e, <2>1 DEF Dist
<1> QED BY <1>1, <1>2, <1>3, <1>4, <1>5, <1>6 DEF Direction

(* One of the neighbours of a place is closer to another place, between    *)
(* their two lines and their two columns.                                  *)
Between(h, t, s) ==
  /\ (h.line <= s.line \/ t.line <= s.line) /\ (s.line <= h.line \/ s.line <= t.line)
  /\ (h.column <= s.column \/ t.column <= s.column) /\ (s.column <= h.column \/ s.column <= t.column)

LEMMA OneStepCloser ==
  ASSUME NEW h \in Places, NEW t \in Places, h # t
  PROVE  \E dir \in Direction : /\ Between(h, t, Neighbour(t, dir))
                                /\ hexDist(h, Neighbour(t, dir)) + 1 = hexDist(h, t)
<1> DEFINE a == h.line
           b == h.column
           c == t.line
           d == t.column
<1>0. /\ a \in Int /\ b \in Int /\ c \in Int /\ d \in Int
      /\ h = HexCoord(a, b) /\ t = HexCoord(c, d)
  BY DEF Places, HexCoord
<1>h. h.line = a /\ h.column = b /\ t.line = c /\ t.column = d
  OBVIOUS
<1> HIDE DEF a, b, c, d
<1>a. ASSUME NEW dir \in Direction, NEW l \in Int, NEW e \in Int,
             Neighbour(t, dir) = HexCoord(l, e),
             a <= l \/ c <= l, l <= a \/ l <= c, b <= e \/ d <= e, e <= b \/ e <= d,
             Dist(a, b, l, e) + 1 = Dist(a, b, c, d)
      PROVE  \E x \in Direction : /\ Between(h, t, Neighbour(t, x))
                                  /\ hexDist(h, Neighbour(t, x)) + 1 = hexDist(h, t)
  <2>1. HexCoord(l, e).line = l /\ HexCoord(l, e).column = e
    BY DEF HexCoord
  <2>2. Between(h, t, Neighbour(t, dir))
    BY <1>h, <1>a, <2>1 DEF Between
  <2>3. hexDist(h, Neighbour(t, dir)) + 1 = hexDist(h, t)
    BY <1>0, <1>a DEF Dist
  <2> QED BY <2>2, <2>3
<1>1. CASE c = a /\ d > b
  <2>1. Neighbour(t, "West") = HexCoord(c, d - 1)
    BY <1>0, <1>1 DEF Neighbour, Vector, dirToVect, HexCoord
  <2>2. Dist(a, b, c, d - 1) + 1 = Dist(a, b, c, d)
    BY <1>0, <1>1 DEF Dist, hexDist, Threshold, Abs, HexCoord
  <2> QED BY <1>0, <1>1, <1>a, <2>1, <2>2 DEF Direction
<1>2. CASE c = a /\ d < b
  <2>1. Neighbour(t, "East") = HexCoord(c, d + 1)
    BY <1>0, <1>2 DEF Neighbour, Vector, dirToVect, HexCoord
  <2>2. Dist(a, b, c, d + 1) + 1 = Dist(a, b, c, d)
    BY <1>0, <1>2 DEF Dist, hexDist, Threshold, Abs, HexCoord
  <2> QED BY <1>0, <1>2, <1>a, <2>1, <2>2 DEF Direction
<1>3. CASE c > a /\ c % 2 = 0 /\ d > b
  <2>1. Neighbour(t, "NWest") = HexCoord(c - 1, d - 1)
    BY <1>0, <1>3 DEF Neighbour, Vector, dirToVect, HexCoord
  <2>2. Dist(a, b, c - 1, d - 1) + 1 = Dist(a, b, c, d)
    BY <1>0, <1>3 DEF Dist, hexDist, Threshold, Abs, HexCoord
  <2> QED BY <1>0, <1>3, <1>a, <2>1, <2>2 DEF Direction
<1>4. CASE c > a /\ c % 2 = 0 /\ d <= b
  <2>1. Neighbour(t, "NEast") = HexCoord(c - 1, d)
    BY <1>0, <1>4 DEF Neighbour, Vector, dirToVect, HexCoord
  <2>2. Dist(a, b, c - 1, d) + 1 = Dist(a, b, c, d)
    BY <1>0, <1>4 DEF Dist, hexDist, Threshold, Abs, HexCoord
  <2> QED BY <1>0, <1>4, <1>a, <2>1, <2>2 DEF Direction
<1>5. CASE c > a /\ c % 2 # 0 /\ d >= b
  <2>1. Neighbour(t, "NWest") = HexCoord(c - 1, d)
    BY <1>0, <1>5 DEF Neighbour, Vector, dirToVect, HexCoord
  <2>2. Dist(a, b, c - 1, d) + 1 = Dist(a, b, c, d)
    BY <1>0, <1>5 DEF Dist, hexDist, Threshold, Abs, HexCoord
  <2> QED BY <1>0, <1>5, <1>a, <2>1, <2>2 DEF Direction
<1>6. CASE c > a /\ c % 2 # 0 /\ d < b
  <2>1. Neighbour(t, "NEast") = HexCoord(c - 1, d + 1)
    BY <1>0, <1>6 DEF Neighbour, Vector, dirToVect, HexCoord
  <2>2. Dist(a, b, c - 1, d + 1) + 1 = Dist(a, b, c, d)
    BY <1>0, <1>6 DEF Dist, hexDist, Threshold, Abs, HexCoord
  <2> QED BY <1>0, <1>6, <1>a, <2>1, <2>2 DEF Direction
<1>7. CASE c < a /\ c % 2 = 0 /\ d > b
  <2>1. Neighbour(t, "SWest") = HexCoord(c + 1, d - 1)
    BY <1>0, <1>7 DEF Neighbour, Vector, dirToVect, HexCoord
  <2>2. Dist(a, b, c + 1, d - 1) + 1 = Dist(a, b, c, d)
    BY <1>0, <1>7 DEF Dist, hexDist, Threshold, Abs, HexCoord
  <2> QED BY <1>0, <1>7, <1>a, <2>1, <2>2 DEF Direction
<1>8. CASE c < a /\ c % 2 = 0 /\ d <= b
  <2>1. Neighbour(t, "SEast") = HexCoord(c + 1, d)
    BY <1>0, <1>8 DEF Neighbour, Vector, dirToVect, HexCoord
  <2>2. Dist(a, b, c + 1, d) + 1 = Dist(a, b, c, d)
    BY <1>0, <1>8 DEF Dist, hexDist, Threshold, Abs, HexCoord
  <2> QED BY <1>0, <1>8, <1>a, <2>1, <2>2 DEF Direction
<1>9. CASE c < a /\ c % 2 # 0 /\ d >= b
  <2>1. Neighbour(t, "SWest") = HexCoord(c + 1, d)
    BY <1>0, <1>9 DEF Neighbour, Vector, dirToVect, HexCoord
  <2>2. Dist(a, b, c + 1, d) + 1 = Dist(a, b, c, d)
    BY <1>0, <1>9 DEF Dist, hexDist, Threshold, Abs, HexCoord
  <2> QED BY <1>0, <1>9, <1>a, <2>1, <2>2 DEF Direction
<1>10. CASE c < a /\ c % 2 # 0 /\ d < b
  <2>1. Neighbour(t, "SEast") = HexCoord(c + 1, d + 1)
    BY <1>0, <1>10 DEF Neighbour, Vector, dirToVect, HexCoord
  <2>2. Dist(a, b, c + 1, d + 1) + 1 = Dist(a, b, c, d)
    BY <1>0, <1>10 DEF Dist, hexDist, Threshold, Abs, HexCoord
  <2> QED BY <1>0, <1>10, <1>a, <2>1, <2>2 DEF Direction
<1> QED BY <1>0, <1>1, <1>2, <1>3, <1>4, <1>5, <1>6, <1>7, <1>8, <1>9, <1>10

-----------------------------------------------------------------------------
LEMMA HexagonsArePlaces ==
  /\ Hexagons \subseteq Places
  /\ \A h, t \in Hexagons : \A s \in Places : Between(h, t, s) => s \in Hexagons
  /\ \A h, t \in Hexagons : hexDist(h, t) \in Nat
<1>1. \A h \in Hexagons : /\ h.line \in Int /\ h.column \in Int /\ h = HexCoord(h.line, h.column)
                          /\ 0 <= h.line /\ h.line <= nbLines - 1
                          /\ 0 <= h.column /\ h.column <= nbColumns - 1
  BY MapAssumption DEF Hexagons, HexCoord
<1>2. Hexagons \subseteq Places
  BY <1>1 DEF Places, HexCoord
<1>3. ASSUME NEW h \in Hexagons, NEW t \in Hexagons, NEW s \in Places, Between(h, t, s)
      PROVE  s \in Hexagons
  <2>1. s.line \in 0 .. nbLines - 1 /\ s.column \in 0 .. nbColumns - 1
    BY <1>1, <1>3, MapAssumption DEF Between, Places
  <2> QED BY <2>1 DEF Hexagons, Places
<1>4. ASSUME NEW h \in Hexagons, NEW t \in Hexagons PROVE hexDist(h, t) \in Nat
  <2>1. hexDist(h, t) = Dist(h.line, h.column, t.line, t.column)
    BY <1>1 DEF Dist
  <2>2. h.line \in Int /\ h.column \in Int /\ t.line \in Int /\ t.column \in Int
    BY <1>1
  <2>3. Dist(h.line, h.column, t.line, t.column) \in Nat
    BY <2>2, DistIsNat
  <2> QED BY <2>1, <2>3
<1> QED BY <1>2, <1>3, <1>4

(* A breadth-first search that is one step further meets exactly the       *)
(* hexagons that hexDist puts one step further.                            *)
LEMMA DiscGrows ==
  ASSUME NEW h \in Hexagons, NEW n \in Nat
  PROVE  Disc(h, n + 1) = Around(Disc(h, n))
<1>1. ASSUME NEW t \in Disc(h, n + 1) PROVE t \in Around(Disc(h, n))
  <2>1. t \in Hexagons /\ hexDist(h, t) <= n + 1 /\ hexDist(h, t) \in Nat
    BY HexagonsArePlaces DEF Disc
  <2>2. CASE hexDist(h, t) <= n
    BY <2>1, <2>2 DEF Around, Disc
  <2>3. CASE hexDist(h, t) = n + 1 /\ h # t
    <3>1. PICK dir \in Direction : /\ Between(h, t, Neighbour(t, dir))
                                   /\ hexDist(h, Neighbour(t, dir)) + 1 = hexDist(h, t)
      BY <2>1, <2>3, HexagonsArePlaces, OneStepCloser
    <3>2. /\ Neighbour(t, dir) \in Places
          /\ t = Neighbour(Neighbour(t, dir), Opposite[dir])
      BY <2>1, HexagonsArePlaces, OppositeComesBack
    <3>3. Opposite[dir] \in Direction
      BY DEF Opposite, Direction
    <3>4. Neighbour(t, dir) \in Hexagons
      BY <2>1, <3>1, <3>2, HexagonsArePlaces
    <3>5. hexDist(h, Neighbour(t, dir)) \in Nat
      BY <3>4, HexagonsArePlaces
    <3>6. Neighbour(t, dir) \in Disc(h, n)
      BY <2>3, <3>1, <3>4, <3>5 DEF Disc
    <3> QED BY <2>1, <3>2, <3>3, <3>6 DEF Around
  <2>4. CASE hexDist(h, t) = n + 1 /\ h = t
    <3>1. hexDist(h, h) = 0
      BY HexagonsArePlaces DEF hexDist, Places, Abs
    <3> QED BY <2>4, <3>1
  <2> QED BY <2>1, <2>2, <2>3, <2>4
<1>2. ASSUME NEW t \in Around(Disc(h, n)) PROVE t \in Disc(h, n + 1)
  <2>1. CASE t \in Disc(h, n)
    <3>1. t \in Hexagons /\ hexDist(h, t) <= n /\ hexDist(h, t) \in Nat
      BY <2>1, HexagonsArePlaces DEF Disc
    <3> QED BY <3>1 DEF Disc
  <2>2. CASE t \notin Disc(h, n)
    <3>1. PICK s \in Disc(h, n), dir \in Direction : t = Neighbour(s, dir)
      BY <2>2 DEF Around
    <3>2. t \in Hexagons /\ s \in Hexagons /\ hexDist(h, s) <= n
      BY <2>2, <3>1 DEF Around, Disc
    <3>3. hexDist(h, s) \in Nat /\ hexDist(h, t) \in Nat
      BY <3>2, HexagonsArePlaces
    <3>4. hexDist(h, t) <= hexDist(h, s) + 1
      BY <3>1, <3>2, HexagonsArePlaces, OneStepFurther
    <3> QED BY <3>2, <3>3, <3>4 DEF Disc
  <2> QED BY <2>1, <2>2
<1> QED BY <1>1, <1>2

(* No other place is at a distance of zero.                                *)
LEMMA DiscOfZero ==
  ASSUME NEW h \in Hexagons
  PROVE  Disc(h, 0) = {h}
<1>1. hexDist(h, h) = 0
  BY HexagonsArePlaces DEF Places, hexDist, Abs
<1>2. ASSUME NEW t \in Hexagons, hexDist(h, t) <= 0 PROVE t = h
  <2>1. h \in Places /\ t \in Places /\ hexDist(h, t) = 0
    BY <1>2, HexagonsArePlaces
  <2>2. ASSUME h # t PROVE FALSE
    <3>1. PICK dir \in Direction : /\ Between(h, t, Neighbour(t, dir))
                                   /\ hexDist(h, Neighbour(t, dir)) + 1 = hexDist(h, t)
      BY <2>1, <2>2, OneStepCloser
    <3>2. hexDist(h, Neighbour(t, dir)) \in Nat
      BY <2>1, <3>1, HexagonsArePlaces, OppositeComesBack
    <3> QED BY <2>1, <3>1, <3>2
  <2> QED BY <2>2
<1> QED BY <1>1, <1>2 DEF Disc

-----------------------------------------------------------------------------
(* A walk stays in the map.                                                *)
InMap == here \in Hexagons

LEMMA WalkStaysInMap == MapSpec => []InMap
<1> USE MapAssumption
<1>1. MapInit => InMap
  <2>1. 0 \in 0 .. nbLines - 1 /\ 0 \in 0 .. nbColumns - 1
    OBVIOUS
  <2> QED BY <2>1 DEF MapInit, InMap, HexCoord, Hexagons
<1>2. InMap /\ [MapNext]_here => InMap'
  <2> SUFFICES ASSUME here \in Hexagons, NEW dir \in Direction, Walk(dir)
               PROVE  here' \in Hexagons
    BY DEF MapNext, InMap
  <2>1. here' \in Places
    BY HexagonsArePlaces, OppositeComesBack DEF Walk
  <2>2. here'.line \in 0 .. nbLines - 1 /\ here'.column \in 0 .. nbColumns - 1
    BY <2>1 DEF Walk, inRange, Places
  <2> QED BY <2>1, <2>2 DEF Hexagons, Places
<1> QED BY <1>1, <1>2, PTL DEF MapSpec

(* Wherever a walk stands, each direction is undone by the opposite one.   *)
THEOREM DirectionsAlwaysOpposite == MapSpec => []DirectionsAreOpposite
<1>1. InMap => DirectionsAreOpposite
  BY HexagonsArePlaces, OppositeComesBack DEF DirectionsAreOpposite, InMap
<1> QED BY <1>1, WalkStaysInMap, PTL

(* The distance does not depend on the end it is computed from.            *)
THEOREM DistanceAlwaysSymmetric == MapSpec => []DistanceIsSymmetric
<1>1. InMap => DistanceIsSymmetric
  <2> SUFFICES ASSUME here \in Hexagons, NEW t \in Hexagons
               PROVE  hexDist(here, t) = hexDist(t, here)
    BY DEF DistanceIsSymmetric, InMap
  <2>1. /\ here.line \in Int /\ here.column \in Int /\ t.line \in Int /\ t.column \in Int
        /\ here = HexCoord(here.line, here.column) /\ t = HexCoord(t.line, t.column)
    BY HexagonsArePlaces DEF Places, HexCoord
  <2> QED BY <2>1, DistIsSymmetric DEF Dist
<1> QED BY <1>1, WalkStaysInMap, PTL

(* hexDist is the length of a shortest path that stays in the map, on a    *)
(* map of any size.                                                        *)
THEOREM HexDistAlwaysShortestPath == MapSpec => []HexDistIsShortestPath
<1>1. InMap => HexDistIsShortestPath
  BY MapAssumption, DiscGrows, DiscOfZero DEF HexDistIsShortestPath, InMap
<1> QED BY <1>1, WalkStaysInMap, PTL
=============================================================================
