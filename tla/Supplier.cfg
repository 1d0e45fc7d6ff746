\* Two calls of any kind, three factories, two addresses, deliveries on either
\* side of midnight.
SPECIFICATION Spec
CONSTANTS
  Call = {c1, c2}
  NoCall = NoCall
  Factory = {f1, f2, f3}
  Email = {e1, e2}
  NoEmail = NoEmail
  Score = {0, 70}
  Finding = {15, 50}
  Web = {w1, w2}
  Date = {d1, d2}
INVARIANTS SupplierInv ScoreIsAtomic LevelFits
CHECK_DEADLOCK FALSE
PROPERTIES EveryCallEnds
