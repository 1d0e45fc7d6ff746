\* The pipeline job starts the graph, two decision requests race, one fault.
SPECIFICATION Spec
CONSTANTS
  Handler = {}
  PipelineJob = {p1}
  ResumeJob = resume
  Reviewer = {d1, d2}
  Review = {r1, r2}
  Origins = {"created"}
  MaxFaults = 1
  NoRun = NoRun
  NoReview = NoReview
SYMMETRY Symmetry
INVARIANTS ReviewInv OnlyApprovalResumes
PROPERTIES GateSpec
CHECK_DEADLOCK FALSE
