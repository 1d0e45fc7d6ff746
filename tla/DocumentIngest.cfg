\* One PATCH call carries the key, two web workers listen, two deaths or errors.
SPECIFICATION FairSpec
CONSTANTS
  Patch = {p1}
  Web = {w1, w2}
  Document = {d1, d2}
  NoDocument = NoDocument
  MaxTries = 2
  MaxFaults = 2
INVARIANTS DocumentInv
PROPERTIES EveryJobSettles UploadIsParsed
CHECK_DEADLOCK FALSE
