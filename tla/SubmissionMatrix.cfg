\* Two calls overlap: one loads the row, the other changes it.
SPECIFICATION Spec
CONSTANTS
  Call = {c1, c2}
  Batch = {b1}
  Ops = {"submit", "approve", "reject", "rework", "begin", "review"}
  Seeds = {"submitted"}
  MaxFaults = 0
  NoBatch = NoBatch
PROPERTIES FollowsMatrix
