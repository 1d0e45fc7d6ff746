\* One start of the graph, one decision at a time, no faults, weak fairness.
SPECIFICATION FairSpec
CONSTANTS
  Handler = {h1}
  PipelineJob = {}
  ResumeJob = resume
  Reviewer = {d1}
  Review = {r1, r2, r3}
  Origins = {"created", "seed_compliance", "seed_risk"}
  MaxFaults = 0
  NoRun = NoRun
  NoReview = NoReview
INVARIANTS PauseIsVisible NoJudgmentOwed
PROPERTIES EveryRunSettles FirstApprovalResumes
CHECK_DEADLOCK FALSE
