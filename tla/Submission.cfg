\* Two calls overlap over two submissions of the request; one may die, and
\* every other call that arrived is carried out.
SPECIFICATION FairSpec
CONSTANTS
  Call = {c1, c2}
  Batch = {b1, b2}
  Ops = {"submit", "approve", "reject", "rework", "begin", "review"}
  Seeds = {"requested", "rework", "submitted", "approved"}
  MaxFaults = 1
  NoBatch = NoBatch
INVARIANTS SubmissionInv PipelineEnqueuedOnce
PROPERTIES LockedCallsFollowMatrix ApprovalStartsPipeline
