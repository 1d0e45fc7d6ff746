\* Three traced calls overlap; four rows, two hash values.
SPECIFICATION Spec
CONSTANTS
  Writer = {w1, w2, w3}
  RowId = {1, 2, 3, 4}
  Hash = {x, y}
  NoHash = NoHash
INVARIANTS TrailInv UniqueStepsVerify
CHECK_DEADLOCK FALSE
