\* Two versions, three calls, one customer; every forest of four parts.
SPECIFICATION Spec
CONSTANTS
  Version = {v1, v2}
  Call = {c1, c2, c3}
  NoCall = NoCall
  Customers = 1
  Part = {p1, p2, p3, p4}
  NoPart = NoPart
  DepthLimit = 2
SYMMETRY Symmetry
INVARIANTS CatalogueInv OneActive TreeShowsBom
PROPERTIES DeprecatedStays
CHECK_DEADLOCK FALSE
