SPECIFICATION CoreSpec
CONSTANTS
  Heads = {h1, h2}
  Elts = {e1, e2, e3, e4}
  NoNode = NoNode
  N = 6
  nbLines = 6
  nbColumns = 5
SYMMETRY Perms
INVARIANT TypeOK
INVARIANT Rings
INVARIANT ListsArePartition
INVARIANT LoopVisitsAll
INVARIANT DirectionsAreOpposite
INVARIANT DistanceIsSymmetric
INVARIANT HexDistIsShortestPath
PROPERTY ListsSpec
PROPERTY OperationsKeepTheirPromise
