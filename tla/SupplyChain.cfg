\* Three suppliers, one part, one map, two calls that overlap, three edges.
SPECIFICATION Spec
CONSTANTS
  Supplier = {s1, s2, s3}
  Part = {p1}
  Bom = {b1}
  NoSupplier = NoSupplier
  Call = {c1, c2}
  NoCall = NoCall
  MaxEdges = 3
  MaxUpdates = 1
SYMMETRY Symmetry
INVARIANTS ChainInv CyclesNeedOverlap HangsTakeOverlap OrderlyMapIsShown WalksAgree
PROPERTIES NoticeIsEarned
CHECK_DEADLOCK FALSE
