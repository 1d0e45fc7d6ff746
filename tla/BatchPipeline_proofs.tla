------------------------- MODULE BatchPipeline_proofs -------------------------
(***************************************************************************)
(* Proofs about BatchPipeline, for any number of event deliveries, of      *)
(* decision requests and of reviews, and any bound on faults.              *)
(***************************************************************************)
EXTENDS BatchPipeline, TLAPS

-----------------------------------------------------------------------------
(* Types *)

\* The supervisor routes to a node.
LEMMA RouteType ==
  ASSUME NEW stage \in Stage, NEW err \in ErrorReason
  PROVE  Route(stage, err) \in Node
BY DEF Route, StageNode, Stage, ErrorReason, Escalation, Node

\* The states an execution starts from and ends in are states of an execution.
LEMMA IdleType ==
  IdleRun \in RunState /\ DoneRun \in RunState /\ IdleRun.pc = "idle"
    /\ DoneRun.pc = "done"
BY DEF IdleRun, DoneRun, RunState, RunPoint, Stage, ErrorReason, Escalation

\* The checkpoint of a node leaves the execution and the thread well typed.
LEMMA ProceedType ==
  ASSUME TypeOK, NEW e \in Exec, NEW s \in RunState, Proceed(e, s)
  PROVE  run' \in [Exec -> RunState] /\ thread' \in ThreadState
<1> DEFINE t == [s EXCEPT !.pc = Route(s.stage, s.err), !.answer = FALSE,
                          !.rev = NoReview, !.created = FALSE]
<1>1. s.stage \in Stage /\ s.err \in ErrorReason /\ s.suppliers \in BOOLEAN
  BY DEF RunState
<1>2. Route(s.stage, s.err) \in RunPoint
  BY <1>1, RouteType DEF RunPoint
<1>3. t \in RunState
  BY <1>2 DEF RunState
<1>4. run' = [run EXCEPT ![e] = t]
  BY DEF Proceed
<1>5. run' \in [Exec -> RunState]
  BY <1>3, <1>4 DEF TypeOK
<1>6. thread' \in ThreadState
  BY <1>1 DEF Proceed, Checkpoint, ThreadState
<1> QED BY <1>5, <1>6

\* The end of an execution leaves executions and job well typed.
LEMMA EndRunType ==
  ASSUME TypeOK, NEW e \in Exec, EndRun(e)
  PROVE  run' \in [Exec -> RunState] /\ job' \in JobState
BY IdleType DEF EndRun, TypeOK, RetainedJob, JobState

\* A node that returns leaves every variable well typed.
LEMMA NodeReturnsType ==
  ASSUME TypeOK, NEW e \in Exec, NEW stage \in Stage, NEW err \in ErrorReason,
         NEW suppliers \in BOOLEAN, NodeReturns(e, stage, err, suppliers)
  PROVE  TypeOK'
<1> DEFINE s == [run[e] EXCEPT !.stage = stage, !.err = err,
                               !.suppliers = suppliers]
<1>1. s \in RunState
  BY DEF TypeOK, RunState
<1>2. Proceed(e, s)
  BY DEF NodeReturns
<1>3. run' \in [Exec -> RunState] /\ thread' \in ThreadState
  BY <1>1, <1>2, ProceedType
<1>4. owed' \in BOOLEAN
  BY DEF NodeReturns, TypeOK
<1> QED BY <1>3, <1>4 DEF NodeReturns, TypeOK, batchRow

\* Every node keeps the types.
LEMMA NodeStepType ==
  ASSUME TypeOK, NEW e \in Exec, NodeStep(e)
  PROVE  TypeOK'
<1>0. run[e] \in RunState /\ run[e].err \in ErrorReason
        /\ run[e].suppliers \in BOOLEAN
  BY DEF TypeOK, RunState
<1>1. CASE DataGateway(e)
  <2>1. PICK err \in {"none", "low_confidence"}, suppliers \in BOOLEAN :
          NodeReturns(e, "stage_extraction", err, suppliers)
    BY <1>1 DEF DataGateway
  <2>2. err \in ErrorReason /\ "stage_extraction" \in Stage
    BY DEF ErrorReason, Escalation, Stage
  <2> QED BY <2>1, <2>2, NodeReturnsType
<1>2. CASE GeoAudit(e)
  <2>1. PICK err \in {run[e].err, "geographical_risk"} :
          NodeReturns(e, "stage_geo", err, run[e].suppliers)
    BY <1>2 DEF GeoAudit
  <2>2. err \in ErrorReason /\ "stage_geo" \in Stage
    BY <1>0 DEF ErrorReason, Escalation, Stage
  <2> QED BY <1>0, <2>1, <2>2, NodeReturnsType
<1>3. CASE Compliance(e)
  <2>1. PICK err \in {run[e].err, "none", "low_confidence"} :
          NodeReturns(e, "stage_compliance", err, run[e].suppliers)
    BY <1>3 DEF Compliance
  <2>2. err \in ErrorReason /\ "stage_compliance" \in Stage
    BY <1>0 DEF ErrorReason, Escalation, Stage
  <2> QED BY <1>0, <2>1, <2>2, NodeReturnsType
<1>4. CASE RiskScoring(e)
  <2>1. PICK err \in {run[e].err, "risk_escalated"} :
          NodeReturns(e, "stage_risk", err, TRUE)
    BY <1>4 DEF RiskScoring
  <2>2. err \in ErrorReason /\ "stage_risk" \in Stage
    BY <1>0 DEF ErrorReason, Escalation, Stage
  <2> QED BY <2>1, <2>2, NodeReturnsType
<1>5. CASE RiskScoringRaises(e)
  BY <1>5, EndRunType DEF RiskScoringRaises, TypeOK, batchRow
<1>6. CASE FinalJudgment(e)
  <2>1. [run[e] EXCEPT !.pc = "judged"] \in RunState
    BY <1>0 DEF RunState, RunPoint
  <2>2. run' \in [Exec -> RunState]
    BY <1>6, <2>1 DEF FinalJudgment, TypeOK
  <2> QED BY <1>6, <2>2 DEF FinalJudgment, TypeOK, Stage
<1>7. CASE FinalJudgmentReturns(e)
  <2>1. NodeReturns(e, "stage_judgment", run[e].err, run[e].suppliers)
    BY <1>7 DEF FinalJudgmentReturns
  <2>2. "stage_judgment" \in Stage
    BY DEF Stage
  <2> QED BY <1>0, <2>1, <2>2, NodeReturnsType
<1>8. CASE Completed(e)
  <2>1. thread' \in ThreadState
    BY <1>0, <1>8 DEF Completed, Checkpoint, ThreadState, RunState
  <2> QED BY <1>8, <2>1, EndRunType DEF Completed, TypeOK, batchRow
<1> QED BY <1>1, <1>2, <1>3, <1>4, <1>5, <1>6, <1>7, <1>8 DEF NodeStep

\* The review a pending row belongs to is well typed.
LEMMA PendingRowType ==
  ASSUME NEW reason \in Reason, NEW stage \in Stage
  PROVE  PendingRow(reason, stage) \in ReviewState
BY DEF PendingRow, ReviewState

\* Every step of hitl_interrupt_node, and of the resume that precedes it, keeps
\* the types.
LEMMA HitlStepType ==
  ASSUME TypeOK, NEW e \in Exec, HitlStep(e)
  PROVE  TypeOK'
<1>0. run[e] \in RunState /\ run[e].stage \in Stage
        /\ run[e].rev \in Review \cup {NoReview}
  BY DEF TypeOK, RunState
<1>1. CASE HitlPause(e)
  <2>1. [run[e] EXCEPT !.pc = "paused"] \in RunState
    BY <1>0 DEF RunState, RunPoint
  <2>2. run' \in [Exec -> RunState]
    BY <1>1, <2>1 DEF HitlPause, TypeOK
  <2> QED BY <1>1, <2>2 DEF HitlPause, TypeOK
<1>2. CASE HitlLookup(e)
  <2>1. PICK r \in Review, created \in BOOLEAN :
          run' = [run EXCEPT ![e] = [run[e] EXCEPT !.pc = "looked", !.rev = r,
                                                   !.created = created]]
    BY <1>2 DEF HitlLookup
  <2>2. [run[e] EXCEPT !.pc = "looked", !.rev = r, !.created = created] \in RunState
    BY <1>0 DEF RunState, RunPoint
  <2>3. run' \in [Exec -> RunState]
    BY <2>1, <2>2 DEF TypeOK
  <2> QED BY <1>2, <2>3 DEF HitlLookup, TypeOK, batchRow
<1>3. CASE HitlCommit(e)
  <2>1. [run[e] EXCEPT !.pc = "committed", !.rev = NoReview, !.created = FALSE]
          \in RunState
    BY <1>0 DEF RunState, RunPoint
  <2>2. run' \in [Exec -> RunState]
    BY <1>3, <2>1 DEF HitlCommit, TypeOK
  <2>3. ReviewReason(run[e].err) \in Reason
    BY DEF ReviewReason, Reason
  <2>4. PendingRow(ReviewReason(run[e].err), run[e].stage) \in ReviewState
    BY <1>0, <2>3, PendingRowType
  <2>5. review' \in [Review -> ReviewState]
    BY <1>3, <2>4 DEF HitlCommit, TypeOK
  <2> QED BY <1>3, <2>2, <2>5 DEF HitlCommit, TypeOK, BatchStatus
<1>4. CASE HitlInterrupt(e)
  <2>1. thread' \in ThreadState
    BY <1>4 DEF HitlInterrupt, TypeOK, ThreadState
  <2> QED BY <1>4, <2>1, EndRunType DEF HitlInterrupt, TypeOK, batchRow
<1>5. CASE HitlAnswered(e)
  <2>1. [run[e] EXCEPT !.pc = "resumed"] \in RunState
    BY <1>0 DEF RunState, RunPoint
  <2>2. run' \in [Exec -> RunState]
    BY <1>5, <2>1 DEF HitlAnswered, TypeOK
  <2> QED BY <1>5, <2>2 DEF HitlAnswered, TypeOK, BatchStatus
<1>6. CASE HitlReturns(e)
  <2>1. [run[e] EXCEPT !.err = "none"] \in RunState
    BY <1>0 DEF RunState, ErrorReason
  <2>2. run' \in [Exec -> RunState] /\ thread' \in ThreadState
    BY <1>6, <2>1, ProceedType DEF HitlReturns
  <2> QED BY <1>6, <2>2 DEF HitlReturns, TypeOK, batchRow
<1>7. CASE ResumeRow(e)
  <2>1. [run[e] EXCEPT !.pc = "resumed"] \in RunState
    BY <1>0 DEF RunState, RunPoint
  <2>2. run' \in [Exec -> RunState]
    BY <1>7, <2>1 DEF ResumeRow, TypeOK
  <2> QED BY <1>7, <2>2 DEF ResumeRow, TypeOK, BatchStatus
<1> QED BY <1>1, <1>2, <1>3, <1>4, <1>5, <1>6, <1>7 DEF HitlStep

\* Starting the graph keeps the types.
LEMMA StartType ==
  ASSUME TypeOK, NEW e \in Exec, StartGraph(e) \/ (e \in Handler /\ HandlerGuard(e))
  PROVE  TypeOK'
<1>1. CASE StartGraph(e)
  <2>1. [IdleRun EXCEPT !.err = thread.err, !.suppliers = thread.suppliers]
          \in RunState
    BY IdleType DEF TypeOK, RunState, ThreadState
  <2>2. run' \in [Exec -> RunState] /\ thread' \in ThreadState
    BY <1>1, <2>1, ProceedType DEF StartGraph
  <2> QED BY <1>1, <2>2 DEF StartGraph, TypeOK, batchRow
<1>2. CASE HandlerGuard(e)
  <2>1. [IdleRun EXCEPT !.pc = "guarded"] \in RunState
    BY IdleType DEF RunState, RunPoint
  <2>2. run' \in [Exec -> RunState]
    BY <1>2, <2>1, IdleType DEF HandlerGuard, TypeOK
  <2> QED BY <1>2, <2>2 DEF HandlerGuard, TypeOK, batchRow
<1> QED BY <1>1, <1>2

\* The HITL worker taking a job keeps the types.
LEMMA ResumeType ==
  ASSUME TypeOK, ResumeStarts \/ ResultExpires
  PROVE  TypeOK'
<1>0. ResumeJob \in Exec
  BY DEF Exec
<1>1. CASE ResumeNothing
  BY <1>1 DEF ResumeNothing, TypeOK, batchRow, RetainedJob, JobState
<1>2. CASE ResumeThread
  <2>0. thread \in ThreadState /\ thread.stage \in Stage
          /\ thread.err \in ErrorReason /\ thread.suppliers \in BOOLEAN
    BY DEF TypeOK, ThreadState
  <2>1. PICK answer \in BOOLEAN :
          /\ thread' = IF answer THEN thread ELSE [thread EXCEPT !.by = ResumeJob]
          /\ run' = [run EXCEPT ![ResumeJob] =
                       [IdleRun EXCEPT !.pc = Route(thread.stage, thread.err),
                                       !.stage = thread.stage, !.err = thread.err,
                                       !.suppliers = thread.suppliers,
                                       !.answer = answer]]
    BY <1>2 DEF ResumeThread
  <2>2. Route(thread.stage, thread.err) \in RunPoint
    BY <2>0, RouteType DEF RunPoint
  <2>3. [IdleRun EXCEPT !.pc = Route(thread.stage, thread.err),
                        !.stage = thread.stage, !.err = thread.err,
                        !.suppliers = thread.suppliers, !.answer = answer]
          \in RunState
    BY <2>0, <2>2, IdleType DEF RunState
  <2>4. run' \in [Exec -> RunState]
    BY <1>0, <2>1, <2>3 DEF TypeOK
  <2>5. thread' \in ThreadState
    BY <1>0, <2>0, <2>1 DEF ThreadState
  <2>6. job' \in JobState
    BY <1>2 DEF ResumeThread, TypeOK, JobState
  <2> QED BY <1>2, <2>4, <2>5, <2>6 DEF ResumeThread, TypeOK, batchRow
<1>3. CASE ResumeLoadsRow
  <2>1. [IdleRun EXCEPT !.pc = "loaded", !.stage = stageCol] \in RunState
    BY IdleType DEF TypeOK, RunState, RunPoint
  <2>2. run' \in [Exec -> RunState]
    BY <1>0, <1>3, <2>1 DEF ResumeLoadsRow, TypeOK
  <2>3. job' \in JobState
    BY <1>3 DEF ResumeLoadsRow, TypeOK, JobState
  <2> QED BY <1>3, <2>2, <2>3 DEF ResumeLoadsRow, TypeOK, batchRow
<1>4. CASE ResultExpires
  BY <1>4 DEF ResultExpires, TypeOK, batchRow, NoJob, JobState
<1> QED BY <1>1, <1>2, <1>3, <1>4 DEF ResumeStarts

\* A decision request keeps the types.
LEMMA DecisionType ==
  ASSUME TypeOK, RequestHasRead, NEW d \in Reviewer,
         DecisionReads(d) \/ DecisionCommits(d) \/ DecisionEnqueues(d)
  PROVE  TypeOK'
<1>0. desk[d] \in DeskState /\ desk[d].rev \in Review \cup {NoReview}
        /\ desk[d].resolution \in Resolution \cup {"none"}
  BY DEF TypeOK, DeskState
<1>1. IdleDesk \in DeskState
  BY DEF IdleDesk, DeskState
<1>2. CASE DecisionReads(d)
  <2>1. PICK r \in Rows, resolution \in Resolution, enqueue \in BOOLEAN :
          desk' = [desk EXCEPT ![d] =
                     [st |-> "read", rev |-> r, resolution |-> resolution,
                      enqueue |-> enqueue]]
    BY <1>2 DEF DecisionReads
  <2>2. r \in Review
    BY DEF Rows
  <2>3. [st |-> "read", rev |-> r, resolution |-> resolution,
         enqueue |-> enqueue] \in DeskState
    BY <2>2 DEF DeskState
  <2>4. desk' \in [Reviewer -> DeskState]
    BY <2>1, <2>3 DEF TypeOK
  <2> QED BY <1>2, <2>4 DEF DecisionReads, TypeOK, batchRow
<1>3. CASE DecisionCommits(d)
  <2>1. [IdleDesk EXCEPT !.st = "committed", !.resolution = desk[d].resolution]
          \in DeskState
    BY <1>0, <1>1 DEF DeskState
  <2>2. desk' \in [Reviewer -> DeskState]
    BY <1>1, <1>3, <2>1 DEF DecisionCommits, TypeOK
  <2>3. review' \in [Review -> ReviewState]
    BY <1>0, <1>3 DEF DecisionCommits, TypeOK, ReviewState
  <2>4. status' \in BatchStatus
    BY <1>3 DEF DecisionCommits, RejectBatch, TypeOK, BatchStatus
  <2>5. owed' \in BOOLEAN
    BY <1>3 DEF DecisionCommits, TypeOK
  <2>6. desk[d].resolution \in Resolution
    BY <1>3 DEF DecisionCommits, RequestHasRead
  <2> QED BY <1>3, <2>2, <2>3, <2>4, <2>5, <2>6 DEF DecisionCommits, TypeOK
<1>4. CASE DecisionEnqueues(d)
  <2>1. desk' \in [Reviewer -> DeskState]
    BY <1>1, <1>4 DEF DecisionEnqueues, TypeOK
  <2>2. job' \in JobState
    BY <1>0, <1>4 DEF DecisionEnqueues, TypeOK, JobState
  <2> QED BY <1>4, <2>1, <2>2 DEF DecisionEnqueues, TypeOK, batchRow
<1> QED BY <1>2, <1>3, <1>4

\* A fault keeps the types.
LEMMA FaultType ==
  ASSUME TypeOK, Fault
  PROVE  TypeOK'
<1>0. MaxFaults \in Nat
  BY BoundAssumption
<1>1. ASSUME NEW e \in Exec, RunFails(e)
      PROVE  TypeOK'
  <2>1. run' \in [Exec -> RunState] /\ job' \in JobState
    BY <1>1, EndRunType DEF RunFails
  <2>2. faults' \in 0..MaxFaults
    BY <1>0, <1>1 DEF RunFails, TypeOK
  <2>3. rowLock' \in Exec \cup {NoRun}
    BY <1>1 DEF RunFails, ReleaseRow, TypeOK
  <2> QED BY <1>1, <2>1, <2>2, <2>3 DEF RunFails, TypeOK
<1>2. ASSUME NEW e \in Exec, WorkerCrashes(e)
      PROVE  TypeOK'
  <2>1. run' \in [Exec -> RunState]
    BY <1>2, IdleType DEF WorkerCrashes, TypeOK
  <2>2. job' \in JobState
    BY <1>2 DEF WorkerCrashes, TypeOK, JobState
  <2>3. faults' \in 0..MaxFaults
    BY <1>0, <1>2 DEF WorkerCrashes, TypeOK
  <2>4. rowLock' \in Exec \cup {NoRun}
    BY <1>2 DEF WorkerCrashes, ReleaseRow, TypeOK
  <2> QED BY <1>2, <2>1, <2>2, <2>3, <2>4 DEF WorkerCrashes, TypeOK
<1>3. ASSUME NEW d \in Reviewer, DecisionLost(d)
      PROVE  TypeOK'
  <2>1. desk' \in [Reviewer -> DeskState]
    BY <1>3 DEF DecisionLost, TypeOK, IdleDesk, DeskState
  <2>2. faults' \in 0..MaxFaults
    BY <1>0, <1>3 DEF DecisionLost, TypeOK
  <2> QED BY <1>3, <2>1, <2>2 DEF DecisionLost, TypeOK, batchRow
<1> QED BY <1>1, <1>2, <1>3 DEF Fault

\* The initial states are well typed.
LEMMA InitType == Init => TypeOK
<1> SUFFICES ASSUME Init PROVE TypeOK
  OBVIOUS
<1>1. PICK o \in Origins :
        IF o = "created"
          THEN /\ status = "batch_processing"
               /\ stageCol = "stage_queued"
               /\ review = [r \in Review |-> NoRow]
               /\ owed = FALSE
          ELSE /\ status = "batch_hitl_wait"
               /\ stageCol = SeededStage(o)
               /\ \E r0 \in Review : review = [r \in Review |->
                    IF r = r0 THEN PendingRow(SeededReason(o), SeededStage(o))
                              ELSE NoRow]
               /\ owed = TRUE
  BY DEF Init
<1>2. status \in BatchStatus /\ stageCol \in Stage /\ owed \in BOOLEAN
  BY <1>1 DEF BatchStatus, Stage, SeededStage
<1>3. NoRow \in ReviewState
  BY DEF NoRow, ReviewState, Reason, Stage
<1>4. PendingRow(SeededReason(o), SeededStage(o)) \in ReviewState
  <2>1. SeededReason(o) \in Reason /\ SeededStage(o) \in Stage
    BY DEF SeededReason, SeededStage, Reason, Stage
  <2> QED BY <2>1, PendingRowType
<1>5. review \in [Review -> ReviewState]
  BY <1>1, <1>3, <1>4
<1>6. thread \in ThreadState
  BY DEF Init, NoThread, ThreadState, Stage, ErrorReason
<1>7. run \in [Exec -> RunState]
  BY IdleType DEF Init
<1>8. job \in JobState /\ desk \in [Reviewer -> DeskState]
  BY DEF Init, NoJob, JobState, IdleDesk, DeskState
<1>9. rowLock \in Exec \cup {NoRun} /\ decided \in SUBSET Resolution
        /\ faults \in 0..MaxFaults
  BY BoundAssumption DEF Init
<1> QED BY <1>2, <1>5, <1>6, <1>7, <1>8, <1>9 DEF TypeOK

-----------------------------------------------------------------------------
(* The review table *)

\* The initial states satisfy the invariant.
LEMMA InitReviewInv == Init => ReviewInv
<1> SUFFICES ASSUME Init PROVE ReviewInv
  OBVIOUS
<1>0. TypeOK
  BY InitType
<1>1. \/ review = [r \in Review |-> NoRow]
      \/ \E reason \in Reason, stage \in Stage, r0 \in Review :
           review = [r \in Review |-> IF r = r0 THEN PendingRow(reason, stage)
                                                ELSE NoRow]
  <2>1. PICK o \in Origins :
          IF o = "created"
            THEN review = [r \in Review |-> NoRow]
            ELSE \E r0 \in Review : review = [r \in Review |->
                   IF r = r0 THEN PendingRow(SeededReason(o), SeededStage(o))
                             ELSE NoRow]
    BY DEF Init
  <2>2. SeededReason(o) \in Reason /\ SeededStage(o) \in Stage
    BY DEF SeededReason, SeededStage, Reason, Stage
  <2> QED BY <2>1, <2>2
<1>2. OneOpenReviewPerStage /\ ResolvedHasResolution
  BY <1>1 DEF OneOpenReviewPerStage, ResolvedHasResolution, Open, NoRow, PendingRow
<1>3. \A e \in Exec : run[e].pc = "idle"
  BY IdleType DEF Init
<1>4. \A d \in Reviewer : desk[d].st = "idle"
  BY DEF Init, IdleDesk
<1> QED BY <1>0, <1>2, <1>3, <1>4
        DEF ReviewInv, RequestHasRead, PauseHoldsRow, LookupIsFresh

\* A step that leaves the reviews alone, takes no execution into the
\* transaction of a pause and no request to its read, and takes the row from no
\* execution inside one, keeps the invariant.
LEMMA QuietStep ==
  ASSUME ReviewInv, TypeOK', UNCHANGED review,
         \A e \in Exec : run'[e].pc \in {"paused", "looked"} =>
           run'[e] = run[e] /\ (rowLock = e => rowLock' = e),
         \A d \in Reviewer : desk'[d].st = "read" => desk'[d] = desk[d]
  PROVE  ReviewInv'
<1>1. RequestHasRead'
  BY DEF ReviewInv, RequestHasRead, Exists
<1>2. PauseHoldsRow'
  BY DEF ReviewInv, PauseHoldsRow
<1>3. LookupIsFresh'
  BY DEF ReviewInv, LookupIsFresh, Exists, Matches, Open
<1>4. ResolvedHasResolution' /\ OneOpenReviewPerStage'
  BY DEF ReviewInv, ResolvedHasResolution, OneOpenReviewPerStage, Open, SameKey
<1> QED BY <1>1, <1>2, <1>3, <1>4 DEF ReviewInv

\* A checkpoint takes an execution to a node.
LEMMA ProceedPoint ==
  ASSUME TypeOK, NEW e \in Exec, NEW s \in RunState, Proceed(e, s)
  PROVE  /\ run'[e].pc \notin {"paused", "looked"}
         /\ \A f \in Exec \ {e} : run'[f] = run[f]
<1>1. s.stage \in Stage /\ s.err \in ErrorReason
  BY DEF RunState
<1>2. Route(s.stage, s.err) \in Node
  BY <1>1, RouteType
<1>3. run'[e].pc = Route(s.stage, s.err)
  BY DEF Proceed, TypeOK, RunState
<1>4. \A f \in Exec \ {e} : run'[f] = run[f]
  BY DEF Proceed, TypeOK
<1> QED BY <1>2, <1>3, <1>4 DEF Node

\* An execution that ends is outside the transaction of a pause.
LEMMA EndRunPoint ==
  ASSUME TypeOK, NEW e \in Exec, EndRun(e)
  PROVE  /\ run'[e].pc \notin {"paused", "looked"}
         /\ \A f \in Exec \ {e} : run'[f] = run[f]
BY IdleType DEF EndRun, TypeOK

\* The nodes of the graph that do not pause are quiet.
LEMMA NodeStepReview ==
  ASSUME ReviewInv, NEW e \in Exec, NodeStep(e)
  PROVE  ReviewInv'
<1>0. TypeOK /\ run[e] \in RunState
  BY DEF ReviewInv, TypeOK
<1>1. TypeOK'
  BY <1>0, NodeStepType
<1>2. /\ UNCHANGED <<review, desk, rowLock>>
      /\ run'[e].pc \notin {"paused", "looked"}
      /\ \A f \in Exec \ {e} : run'[f] = run[f]
  <2>1. CASE \E stage \in Stage, err \in ErrorReason, suppliers \in BOOLEAN :
               NodeReturns(e, stage, err, suppliers)
    <3>1. PICK stage \in Stage, err \in ErrorReason, suppliers \in BOOLEAN :
            NodeReturns(e, stage, err, suppliers)
      BY <2>1
    <3>2. [run[e] EXCEPT !.stage = stage, !.err = err, !.suppliers = suppliers]
            \in RunState
      BY <1>0 DEF RunState
    <3> QED BY <1>0, <3>1, <3>2, ProceedPoint DEF NodeReturns, batchRow
  <2>2. CASE RiskScoringRaises(e) \/ Completed(e)
    BY <1>0, <2>2, EndRunPoint DEF RiskScoringRaises, Completed, batchRow
  <2>3. CASE FinalJudgment(e)
    BY <1>0, <2>3 DEF FinalJudgment, TypeOK, RunState
  <2>4. \/ \E stage \in Stage, err \in ErrorReason, suppliers \in BOOLEAN :
             NodeReturns(e, stage, err, suppliers)
        \/ RiskScoringRaises(e) \/ Completed(e) \/ FinalJudgment(e)
    BY <1>0 DEF NodeStep, DataGateway, GeoAudit, Compliance, RiskScoring,
                FinalJudgmentReturns, RunState, Stage, ErrorReason, Escalation
  <2> QED BY <2>1, <2>2, <2>3, <2>4
<1> QED BY <1>1, <1>2, QuietStep

\* Taking the row makes an execution the only one between pause and commit.
LEMMA PauseReview ==
  ASSUME ReviewInv, NEW e \in Exec, HitlPause(e)
  PROVE  ReviewInv'
<1>0. TypeOK /\ PauseHoldsRow /\ run[e] \in RunState
  BY DEF ReviewInv, TypeOK
<1>1. TypeOK'
  BY <1>0, HitlStepType DEF HitlStep
<1>2. /\ run'[e].pc = "paused"
      /\ \A f \in Exec \ {e} : run'[f] = run[f]
  BY <1>0 DEF HitlPause, TypeOK, RunState
<1>3. \A f \in Exec : run[f].pc \notin {"paused", "looked"}
  BY <1>0, ExecAssumption DEF HitlPause, RowFree, PauseHoldsRow, Exec
<1>4. PauseHoldsRow'
  BY <1>2, <1>3 DEF HitlPause, PauseHoldsRow
<1>5. LookupIsFresh'
  BY <1>2, <1>3 DEF LookupIsFresh
<1>6. (RequestHasRead /\ ResolvedHasResolution /\ OneOpenReviewPerStage)'
  BY DEF HitlPause, ReviewInv, RequestHasRead, ResolvedHasResolution,
         OneOpenReviewPerStage, Open, Exists, SameKey
<1> QED BY <1>1, <1>4, <1>5, <1>6 DEF ReviewInv

\* What the lookup finds, or finds missing, is so when it is made.
LEMMA LookupReview ==
  ASSUME ReviewInv, NEW e \in Exec, HitlLookup(e)
  PROVE  ReviewInv'
<1>0. TypeOK /\ PauseHoldsRow /\ LookupIsFresh /\ run[e] \in RunState
  BY DEF ReviewInv, TypeOK
<1>1. TypeOK'
  BY <1>0, HitlStepType DEF HitlStep
<1>2. PICK r \in Review, created \in BOOLEAN :
        /\ run' = [run EXCEPT ![e] = [run[e] EXCEPT !.pc = "looked", !.rev = r,
                                                    !.created = created]]
        /\ created => ~ Exists(r) /\ \A q \in Review : ~ Matches(e, q)
  BY DEF HitlLookup
<1>3. /\ run'[e].pc = "looked" /\ run'[e].rev = r /\ run'[e].created = created
      /\ run'[e].err = run[e].err /\ run'[e].stage = run[e].stage
      /\ \A f \in Exec \ {e} : run'[f] = run[f]
  BY <1>0, <1>2 DEF TypeOK, RunState
<1>4. UNCHANGED <<review, desk, rowLock>>
  BY DEF HitlLookup, batchRow
<1>5. PauseHoldsRow'
  BY <1>0, <1>3, <1>4 DEF HitlLookup, PauseHoldsRow
<1>6. LookupIsFresh'
  BY <1>0, <1>2, <1>3, <1>4 DEF LookupIsFresh, Exists, Matches, Open
<1>7. (RequestHasRead /\ ResolvedHasResolution /\ OneOpenReviewPerStage)'
  BY <1>4 DEF ReviewInv, RequestHasRead, ResolvedHasResolution,
              OneOpenReviewPerStage, Open, Exists, SameKey
<1> QED BY <1>1, <1>5, <1>6, <1>7 DEF ReviewInv

\* The execution that commits is the only one between pause and commit.
LEMMA CommitReview ==
  ASSUME ReviewInv, NEW e \in Exec, HitlCommit(e)
  PROVE  ReviewInv'
<1> DEFINE row == PendingRow(ReviewReason(run[e].err), run[e].stage)
<1>0. TypeOK /\ PauseHoldsRow /\ LookupIsFresh /\ run[e] \in RunState
  BY DEF ReviewInv, TypeOK
<1>1. TypeOK'
  BY <1>0, HitlStepType DEF HitlStep
<1>2. /\ run[e].pc = "looked" /\ rowLock = e
      /\ run[e].rev \in Review
  BY <1>0 DEF HitlCommit, PauseHoldsRow, LookupIsFresh
<1>3. /\ run'[e].pc = "committed"
      /\ \A f \in Exec \ {e} : run'[f] = run[f]
  BY <1>0 DEF HitlCommit, TypeOK, RunState
<1>4. \A f \in Exec : run'[f].pc \notin {"paused", "looked"}
  BY <1>0, <1>2, <1>3 DEF PauseHoldsRow
<1>5. PauseHoldsRow' /\ LookupIsFresh'
  BY <1>4 DEF PauseHoldsRow, LookupIsFresh
<1>6. CASE run[e].created
  <2>1. /\ review'[run[e].rev] = row
        /\ \A r \in Review \ {run[e].rev} : review'[r] = review[r]
    BY <1>0, <1>2, <1>6 DEF HitlCommit, TypeOK
  <2>2. /\ row.st = "hitl_pending" /\ row.resolution = "none"
        /\ row.reason = ReviewReason(run[e].err) /\ row.stage = run[e].stage
    BY DEF PendingRow
  <2>3. \A r \in Review : ~ Matches(e, r)
    BY <1>0, <1>2, <1>6 DEF LookupIsFresh
  <2>4. OneOpenReviewPerStage'
    BY <1>2, <2>1, <2>2, <2>3 DEF ReviewInv, OneOpenReviewPerStage, Open, SameKey,
                                   Matches
  <2>5. RequestHasRead'
    BY <2>1, <2>2 DEF HitlCommit, ReviewInv, RequestHasRead, Exists
  <2>6. ResolvedHasResolution'
    BY <2>1, <2>2 DEF ReviewInv, ResolvedHasResolution
  <2> QED BY <1>1, <1>5, <2>4, <2>5, <2>6 DEF ReviewInv
<1>7. CASE ~ run[e].created
  <2>1. UNCHANGED <<review, desk>>
    BY <1>7 DEF HitlCommit
  <2>2. (RequestHasRead /\ ResolvedHasResolution /\ OneOpenReviewPerStage)'
    BY <2>1 DEF ReviewInv, RequestHasRead, ResolvedHasResolution,
                OneOpenReviewPerStage, Open, Exists, SameKey
  <2> QED BY <1>1, <1>5, <2>2 DEF ReviewInv
<1> QED BY <1>6, <1>7

\* The other steps of hitl_interrupt_node, and of the resume, are quiet.
LEMMA HitlQuietReview ==
  ASSUME ReviewInv, NEW e \in Exec,
         HitlInterrupt(e) \/ HitlAnswered(e) \/ HitlReturns(e) \/ ResumeRow(e)
  PROVE  ReviewInv'
<1>0. TypeOK /\ run[e] \in RunState
  BY DEF ReviewInv, TypeOK
<1>1. TypeOK'
  BY <1>0, HitlStepType DEF HitlStep
<1>2. /\ UNCHANGED <<review, desk, rowLock>>
      /\ run'[e].pc \notin {"paused", "looked"}
      /\ \A f \in Exec \ {e} : run'[f] = run[f]
  <2>1. CASE HitlInterrupt(e)
    BY <1>0, <2>1, EndRunPoint DEF HitlInterrupt, batchRow
  <2>2. CASE HitlAnswered(e) \/ ResumeRow(e)
    BY <1>0, <2>2 DEF HitlAnswered, ResumeRow, TypeOK, RunState
  <2>3. CASE HitlReturns(e)
    <3>1. [run[e] EXCEPT !.err = "none"] \in RunState
      BY <1>0 DEF RunState, ErrorReason
    <3> QED BY <1>0, <2>3, <3>1, ProceedPoint DEF HitlReturns, batchRow
  <2> QED BY <2>1, <2>2, <2>3
<1> QED BY <1>1, <1>2, QuietStep

\* Starting and resuming the graph are quiet.
LEMMA StartReview ==
  ASSUME ReviewInv,
         \/ \E e \in Exec : StartGraph(e) \/ (e \in Handler /\ HandlerGuard(e))
         \/ ResumeStarts \/ ResultExpires
  PROVE  ReviewInv'
<1>0. TypeOK /\ ResumeJob \in Exec
  BY DEF ReviewInv, Exec
<1>1. ASSUME NEW e \in Exec, StartGraph(e)
      PROVE  ReviewInv'
  <2>1. [IdleRun EXCEPT !.err = thread.err, !.suppliers = thread.suppliers]
          \in RunState
    BY <1>0, IdleType DEF TypeOK, RunState, ThreadState
  <2>2. TypeOK'
    BY <1>0, <1>1, StartType
  <2> QED BY <1>0, <1>1, <2>1, <2>2, ProceedPoint, QuietStep
          DEF StartGraph, batchRow
<1>2. ASSUME NEW e \in Exec, e \in Handler, HandlerGuard(e)
      PROVE  ReviewInv'
  <2>1. TypeOK'
    BY <1>0, <1>2, StartType
  <2>2. /\ run'[e].pc \notin {"paused", "looked"}
        /\ \A f \in Exec \ {e} : run'[f] = run[f]
    BY <1>0, <1>2, IdleType DEF HandlerGuard, TypeOK, RunState
  <2> QED BY <1>2, <2>1, <2>2, QuietStep DEF HandlerGuard, batchRow
<1>3. CASE ResumeStarts \/ ResultExpires
  <2>1. TypeOK'
    BY <1>0, <1>3, ResumeType
  <2>2. \/ UNCHANGED run
        \/ /\ run'[ResumeJob].pc \in Node \cup {"loaded"}
           /\ \A f \in Exec \ {ResumeJob} : run'[f] = run[f]
    <3>1. CASE ResumeThread
      <4>1. thread.stage \in Stage /\ thread.err \in ErrorReason
        BY <1>0 DEF TypeOK, ThreadState
      <4>2. Route(thread.stage, thread.err) \in Node
        BY <4>1, RouteType
      <4>3. run'[ResumeJob].pc = Route(thread.stage, thread.err)
        BY <1>0, <3>1, IdleType DEF ResumeThread, TypeOK, RunState
      <4>4. \A f \in Exec \ {ResumeJob} : run'[f] = run[f]
        BY <1>0, <3>1 DEF ResumeThread, TypeOK
      <4> QED BY <4>2, <4>3, <4>4
    <3>2. CASE ResumeLoadsRow
      BY <1>0, <3>2, IdleType DEF ResumeLoadsRow, TypeOK, RunState
    <3>3. CASE ResumeNothing \/ ResultExpires
      BY <3>3 DEF ResumeNothing, ResultExpires
    <3> QED BY <1>3, <3>1, <3>2, <3>3 DEF ResumeStarts
  <2>3. UNCHANGED <<review, desk, rowLock>>
    BY <1>3 DEF ResumeStarts, ResumeNothing, ResumeThread, ResumeLoadsRow,
                ResultExpires, batchRow
  <2>4. \A e \in Exec : run'[e].pc \in {"paused", "looked"} => run'[e] = run[e]
    BY <2>2 DEF Node
  <2> QED BY <2>1, <2>3, <2>4, QuietStep
<1> QED BY <1>1, <1>2, <1>3

\* A decision resolves a review that exists.
LEMMA DecisionReview ==
  ASSUME ReviewInv, NEW d \in Reviewer,
         DecisionReads(d) \/ DecisionCommits(d) \/ DecisionEnqueues(d)
  PROVE  ReviewInv'
<1>0. TypeOK /\ RequestHasRead
  BY DEF ReviewInv
<1>1. TypeOK'
  BY <1>0, DecisionType
<1>2. CASE DecisionReads(d)
  <2>1. RequestHasRead'
    <3>1. PICK r \in Rows, resolution \in Resolution :
            /\ desk'[d].rev = r
            /\ desk'[d].resolution = resolution
            /\ \A c \in Reviewer \ {d} : desk'[c] = desk[c]
      BY <1>0, <1>2 DEF DecisionReads, TypeOK
    <3> QED BY <1>0, <1>2, <3>1 DEF DecisionReads, RequestHasRead, Rows, Exists
  <2>2. UNCHANGED <<review, run, rowLock>>
    BY <1>2 DEF DecisionReads, batchRow
  <2>3. (PauseHoldsRow /\ LookupIsFresh /\ ResolvedHasResolution
          /\ OneOpenReviewPerStage)'
    BY <2>2 DEF ReviewInv, PauseHoldsRow, LookupIsFresh, ResolvedHasResolution,
                OneOpenReviewPerStage, Open, Exists, SameKey, Matches
  <2> QED BY <1>1, <2>1, <2>3 DEF ReviewInv
<1>3. CASE DecisionCommits(d)
  <2> DEFINE q == desk[d].rev
  <2>1. q \in Review /\ Exists(q) /\ desk[d].resolution \in Resolution
    BY <1>0, <1>3 DEF DecisionCommits, RequestHasRead
  <2>2. /\ review'[q].st = "hitl_resolved"
        /\ review'[q].resolution = desk[d].resolution
        /\ review'[q].reason = review[q].reason
        /\ review'[q].stage = review[q].stage
        /\ \A r \in Review \ {q} : review'[r] = review[r]
    BY <1>0, <1>3, <2>1 DEF DecisionCommits, TypeOK, ReviewState
  <2>3. UNCHANGED <<run, rowLock>>
    BY <1>3 DEF DecisionCommits
  <2>4. RequestHasRead'
    <3>1. /\ desk'[d].st # "read"
          /\ \A c \in Reviewer \ {d} : desk'[c] = desk[c]
      BY <1>0, <1>3 DEF DecisionCommits, TypeOK, IdleDesk
    <3> QED BY <1>0, <2>2, <3>1 DEF RequestHasRead, Exists
  <2>5. PauseHoldsRow'
    BY <2>3 DEF ReviewInv, PauseHoldsRow
  <2>6. LookupIsFresh'
    BY <2>1, <2>2, <2>3 DEF ReviewInv, LookupIsFresh, Exists, Matches, Open
  <2>7. ResolvedHasResolution'
    BY <2>1, <2>2 DEF ReviewInv, ResolvedHasResolution, Resolution
  <2>8. OneOpenReviewPerStage'
    BY <2>2 DEF ReviewInv, OneOpenReviewPerStage, Open, SameKey
  <2> QED BY <1>1, <2>4, <2>5, <2>6, <2>7, <2>8 DEF ReviewInv
<1>4. CASE DecisionEnqueues(d)
  <2>1. /\ desk'[d].st # "read"
        /\ \A c \in Reviewer \ {d} : desk'[c] = desk[c]
    BY <1>0, <1>4 DEF DecisionEnqueues, TypeOK, IdleDesk
  <2> QED BY <1>1, <1>4, <2>1, QuietStep DEF DecisionEnqueues, batchRow
<1> QED BY <1>2, <1>3, <1>4

\* A fault rolls back the transaction of its own execution only.
LEMMA FaultReview ==
  ASSUME ReviewInv, Fault
  PROVE  ReviewInv'
<1>0. TypeOK /\ PauseHoldsRow
  BY DEF ReviewInv
<1>1. TypeOK'
  BY <1>0, FaultType
<1>2. ASSUME NEW e \in Exec, RunFails(e) \/ WorkerCrashes(e)
      PROVE  ReviewInv'
  <2>1. /\ run'[e].pc \notin {"paused", "looked"}
        /\ \A f \in Exec \ {e} : run'[f] = run[f]
    BY <1>0, <1>2, EndRunPoint, IdleType DEF RunFails, WorkerCrashes, TypeOK
  <2>2. \A f \in Exec \ {e} : rowLock = f => rowLock' = f
    BY <1>2 DEF RunFails, WorkerCrashes, ReleaseRow
  <2>3. UNCHANGED <<review, desk>>
    BY <1>2 DEF RunFails, WorkerCrashes
  <2> QED BY <1>1, <2>1, <2>2, <2>3, QuietStep
<1>3. ASSUME NEW d \in Reviewer, DecisionLost(d)
      PROVE  ReviewInv'
  <2>1. /\ desk'[d].st # "read"
        /\ \A c \in Reviewer \ {d} : desk'[c] = desk[c]
    BY <1>0, <1>3 DEF DecisionLost, TypeOK, IdleDesk
  <2> QED BY <1>1, <1>3, <2>1, QuietStep DEF DecisionLost, batchRow
<1> QED BY <1>2, <1>3 DEF Fault

\* Every step keeps the invariant.
LEMMA NextReviewInv == ReviewInv /\ [Next]_vars => ReviewInv'
<1> SUFFICES ASSUME ReviewInv, [Next]_vars PROVE ReviewInv'
  OBVIOUS
<1>1. CASE \E e \in Exec : NodeStep(e)
  BY <1>1, NodeStepReview
<1>2. CASE \E e \in Exec : HitlStep(e)
  BY <1>2, PauseReview, LookupReview, CommitReview, HitlQuietReview DEF HitlStep
<1>3. CASE \/ \E e \in Exec : StartGraph(e)
           \/ \E h \in Handler : HandlerGuard(h)
           \/ ResumeStarts \/ ResultExpires
  BY <1>3, StartReview DEF Exec
<1>4. CASE \E d \in Reviewer :
             DecisionReads(d) \/ DecisionCommits(d) \/ DecisionEnqueues(d)
  BY <1>4, DecisionReview
<1>5. CASE Fault
  BY <1>5, FaultReview
<1>6. CASE UNCHANGED vars
  BY <1>6, QuietStep DEF vars, batchRow, ReviewInv, TypeOK
<1> QED BY <1>1, <1>2, <1>3, <1>4, <1>5, <1>6 DEF Next, RunStep

\* The invariant holds of every behaviour of the batch.
THEOREM ReviewInvariant == Spec => []ReviewInv
BY InitReviewInv, NextReviewInv, PTL DEF Spec

\* Every variable keeps its type, in every behaviour.
THEOREM TypeCorrect == Spec => []TypeOK
<1>1. ReviewInv => TypeOK
  BY DEF ReviewInv
<1> QED BY <1>1, ReviewInvariant, PTL

\* However many executions pause the batch at once, a reason and stage have one
\* open review: the batches row, updated first, serialises lookup and insert.
THEOREM OneOpenReview == Spec => []OneOpenReviewPerStage
<1>1. ReviewInv => OneOpenReviewPerStage
  BY DEF ReviewInv
<1> QED BY <1>1, ReviewInvariant, PTL

-----------------------------------------------------------------------------
(* Resumes and approvals *)

\* Every step keeps approvals on record.
LEMMA NextApproval ==
  ReviewInv /\ ApprovalIsRecorded /\ [Next]_vars => ApprovalIsRecorded'
<1> SUFFICES ASSUME ReviewInv, ApprovalIsRecorded, [Next]_vars
             PROVE  ApprovalIsRecorded'
  OBVIOUS
<1>0. TypeOK /\ ResumeJob \in Exec
  BY DEF ReviewInv, Exec
<1>1. ASSUME UNCHANGED <<desk, decided>>, UNCHANGED job \/ job' = RetainedJob
      PROVE  ApprovalIsRecorded'
  BY <1>1 DEF ApprovalIsRecorded, RetainedJob
<1>2. ASSUME NEW e \in Exec, RunStep(e)
      PROVE  ApprovalIsRecorded'
  <2>1. UNCHANGED <<desk, decided>>
    BY <1>2 DEF RunStep, NodeStep, HitlStep, StartGraph, DataGateway, GeoAudit,
                Compliance, RiskScoring, RiskScoringRaises, FinalJudgment,
                FinalJudgmentReturns, Completed, NodeReturns, HitlPause,
                HitlLookup, HitlCommit, HitlInterrupt, HitlAnswered, HitlReturns,
                ResumeRow
  <2>2. UNCHANGED job \/ job' = RetainedJob
    BY <1>2 DEF RunStep, NodeStep, HitlStep, StartGraph, DataGateway, GeoAudit,
                Compliance, RiskScoring, RiskScoringRaises, FinalJudgment,
                FinalJudgmentReturns, Completed, NodeReturns, HitlPause,
                HitlLookup, HitlCommit, HitlInterrupt, HitlAnswered, HitlReturns,
                ResumeRow, EndRun
  <2> QED BY <1>1, <2>1, <2>2
<1>3. CASE ResumeStarts \/ ResultExpires
  <2>1. CASE ResumeNothing
    BY <1>1, <2>1 DEF ResumeNothing
  <2>2. CASE ResumeThread \/ ResumeLoadsRow
    <3>1. job.resolution = "approve" /\ job'.resolution = job.resolution
      BY <1>0, <2>2 DEF ResumeThread, ResumeLoadsRow, ResumeRefused, TypeOK, JobState
    <3>2. UNCHANGED <<desk, decided>>
      BY <2>2 DEF ResumeThread, ResumeLoadsRow
    <3> QED BY <3>1, <3>2 DEF ApprovalIsRecorded
  <2>3. CASE ResultExpires
    BY <2>3 DEF ResultExpires, ApprovalIsRecorded, NoJob
  <2> QED BY <1>3, <2>1, <2>2, <2>3 DEF ResumeStarts
<1>4. CASE \E h \in Handler : HandlerGuard(h)
  BY <1>1, <1>4 DEF HandlerGuard
<1>5. ASSUME NEW d \in Reviewer, DecisionReads(d)
      PROVE  ApprovalIsRecorded'
  <2>1. /\ desk'[d].st = "read"
        /\ \A c \in Reviewer \ {d} : desk'[c] = desk[c]
    BY <1>0, <1>5 DEF DecisionReads, TypeOK
  <2> QED BY <1>5, <2>1 DEF DecisionReads, ApprovalIsRecorded
<1>6. ASSUME NEW d \in Reviewer, DecisionCommits(d)
      PROVE  ApprovalIsRecorded'
  <2>1. /\ desk'[d].resolution \in {"none", desk[d].resolution}
        /\ \A c \in Reviewer \ {d} : desk'[c] = desk[c]
    BY <1>0, <1>6 DEF DecisionCommits, TypeOK, IdleDesk
  <2> QED BY <1>6, <2>1 DEF DecisionCommits, ApprovalIsRecorded
<1>7. ASSUME NEW d \in Reviewer, DecisionEnqueues(d)
      PROVE  ApprovalIsRecorded'
  <2>1. /\ desk'[d].st = "idle"
        /\ \A c \in Reviewer \ {d} : desk'[c] = desk[c]
    BY <1>0, <1>7 DEF DecisionEnqueues, TypeOK, IdleDesk
  <2> QED BY <1>7, <2>1 DEF DecisionEnqueues, ApprovalIsRecorded
<1>8. CASE Fault
  <2>1. ASSUME NEW e \in Exec, RunFails(e)
        PROVE  ApprovalIsRecorded'
    BY <1>1, <2>1 DEF RunFails, EndRun
  <2>2. ASSUME NEW e \in Exec, WorkerCrashes(e)
        PROVE  ApprovalIsRecorded'
    <3>1. job'.resolution = job.resolution /\ job'.st \in {"queued", job.st}
      BY <1>0, <2>2 DEF WorkerCrashes, TypeOK, JobState
    <3> QED BY <2>2, <3>1 DEF WorkerCrashes, ApprovalIsRecorded
  <2>3. ASSUME NEW d \in Reviewer, DecisionLost(d)
        PROVE  ApprovalIsRecorded'
    <3>1. /\ desk'[d].st = "idle"
          /\ \A c \in Reviewer \ {d} : desk'[c] = desk[c]
      BY <1>0, <2>3 DEF DecisionLost, TypeOK, IdleDesk
    <3> QED BY <2>3, <3>1 DEF DecisionLost, ApprovalIsRecorded
  <2> QED BY <1>8, <2>1, <2>2, <2>3 DEF Fault
<1>9. CASE UNCHANGED vars
  BY <1>1, <1>9 DEF vars
<1> QED BY <1>2, <1>3, <1>4, <1>5, <1>6, <1>7, <1>8, <1>9 DEF Next

\* The HITL worker runs the graph for a recorded approval and nothing else.
THEOREM ApprovalResumes == Spec => []OnlyApprovalResumes
<1>1. Init => ApprovalIsRecorded
  BY DEF Init, ApprovalIsRecorded, NoJob, IdleDesk
<1>2. ApprovalIsRecorded => OnlyApprovalResumes
  BY DEF ApprovalIsRecorded, OnlyApprovalResumes
<1> QED BY <1>1, <1>2, NextApproval, ReviewInvariant, PTL DEF Spec

-----------------------------------------------------------------------------
(* The review table implements ReviewGate *)

\* The initial states of the batch are initial states of the gate.
LEMMA GateInit == Init => Gate!Init
<1> SUFFICES ASSUME Init PROVE Gate!Init
  OBVIOUS
<1>0. TypeOK /\ ResolvedHasResolution
  BY InitReviewInv DEF ReviewInv
<1>1. \A r \in Review : review[r].st # "hitl_resolved"
  BY DEF Init, NoRow, PendingRow
<1>2. \A r \in Review : review[r].resolution = "none"
  BY <1>0, <1>1 DEF ResolvedHasResolution
<1>3. [r \in Review |-> <<review[r].reason, review[r].stage>>]
        \in [Review -> Reason \X Stage]
  BY <1>0 DEF TypeOK, ReviewState
<1>4. Rows = {} \/ \E r \in Review : Rows = {r}
  BY DEF Init, Rows, Exists, NoRow, PendingRow
<1> QED BY <1>2, <1>3, <1>4 DEF Gate!Init

\* A commit that creates a review opens it at the gate.
LEMMA GateCommit ==
  ASSUME ReviewInv, NEW e \in Exec, HitlCommit(e)
  PROVE  Gate!Next \/ UNCHANGED Gate!gateVars
<1> DEFINE row == PendingRow(ReviewReason(run[e].err), run[e].stage)
           q == run[e].rev
           k == <<ReviewReason(run[e].err), run[e].stage>>
<1>0. TypeOK /\ LookupIsFresh /\ ResolvedHasResolution /\ run[e] \in RunState
  BY DEF ReviewInv, TypeOK
<1>1. q \in Review
  BY <1>0 DEF HitlCommit, LookupIsFresh
<1>2. CASE run[e].created
  <2>1. review' = [review EXCEPT ![q] = row]
    BY <1>2 DEF HitlCommit
  <2>2. /\ review'[q] = row
        /\ \A r \in Review \ {q} : review'[r] = review[r]
    BY <1>0, <1>1, <2>1 DEF TypeOK
  <2>3. /\ row.st = "hitl_pending" /\ row.resolution = "none"
        /\ row.reason = ReviewReason(run[e].err) /\ row.stage = run[e].stage
    BY DEF PendingRow
  <2>4. ~ Exists(q) /\ \A r \in Review : ~ Matches(e, r)
    BY <1>0, <1>2 DEF HitlCommit, LookupIsFresh
  <2>5. review[q].resolution = "none"
    BY <1>0, <1>1, <2>4 DEF Exists, ResolvedHasResolution
  <2>6. k \in Reason \X Stage
    BY <1>0 DEF ReviewReason, Reason, RunState
  <2>7. Gate!OpenFor(k) = {}
    <3> SUFFICES ASSUME NEW r \in Rows,
                        <<review[r].reason, review[r].stage>> = k,
                        review[r].resolution = "none"
                 PROVE  FALSE
      BY DEF Gate!OpenFor, Rows
    <3>1. r \in Review /\ review[r].st \in {"hitl_pending", "hitl_resolved"}
      BY <1>0 DEF Rows, Exists, TypeOK, ReviewState
    <3>2. Open(r)
      BY <1>0, <3>1 DEF ResolvedHasResolution, Open
    <3> QED BY <2>4, <3>1, <3>2 DEF Matches
  <2>8. q \notin Rows /\ Rows' = Rows \cup {q}
    BY <1>1, <2>2, <2>3, <2>4 DEF Rows, Exists
  <2>9. [r \in Review |-> <<review[r].reason, review[r].stage>>]'
          = [[r \in Review |-> <<review[r].reason, review[r].stage>>]
               EXCEPT ![q] = k]
    BY <1>1, <2>2, <2>3
  <2>10. [r \in Review |-> review[r].resolution]'
           = [r \in Review |-> review[r].resolution]
    BY <2>2, <2>3, <2>5
  <2>11. Gate!OpenReview(q, k)
    BY <2>7, <2>8, <2>9, <2>10 DEF Gate!OpenReview
  <2> QED BY <1>1, <2>6, <2>11 DEF Gate!Next, Gate!OpenReview
<1>3. CASE ~ run[e].created
  BY <1>3 DEF HitlCommit, Gate!gateVars, Rows, Exists
<1> QED BY <1>2, <1>3

\* A decision is one at the gate.
LEMMA GateDecision ==
  ASSUME ReviewInv, NEW d \in Reviewer, DecisionCommits(d)
  PROVE  Gate!Next
<1> DEFINE q == desk[d].rev
<1>0. TypeOK
  BY DEF ReviewInv
<1>1. q \in Review /\ Exists(q) /\ desk[d].resolution \in Resolution
  BY DEF DecisionCommits, ReviewInv, RequestHasRead
<1>2. /\ review'[q].st = "hitl_resolved"
      /\ review'[q].resolution = desk[d].resolution
      /\ review'[q].reason = review[q].reason
      /\ review'[q].stage = review[q].stage
      /\ \A r \in Review \ {q} : review'[r] = review[r]
  BY <1>0, <1>1 DEF DecisionCommits, TypeOK, ReviewState
<1>3. q \in Rows /\ Rows' = Rows
  BY <1>1, <1>2 DEF Rows, Exists
<1>4. [r \in Review |-> <<review[r].reason, review[r].stage>>]'
        = [r \in Review |-> <<review[r].reason, review[r].stage>>]
  BY <1>2
<1>5. [r \in Review |-> review[r].resolution]'
        = [[r \in Review |-> review[r].resolution]
             EXCEPT ![q] = desk[d].resolution]
  BY <1>1, <1>2
<1>6. Gate!Decide(q, desk[d].resolution)
  BY <1>3, <1>4, <1>5 DEF Gate!Decide
<1> QED BY <1>1, <1>6 DEF Gate!Next, Gate!Decide

\* Every step of the batch is a step of the gate or leaves it alone.
LEMMA GateStep == ReviewInv /\ [Next]_vars => [Gate!Next]_Gate!gateVars
<1> SUFFICES ASSUME ReviewInv, [Next]_vars
             PROVE  Gate!Next \/ UNCHANGED Gate!gateVars
  OBVIOUS
<1>1. UNCHANGED review => UNCHANGED Gate!gateVars
  BY DEF Gate!gateVars, Rows, Exists
<1>2. CASE \E e \in Exec : HitlCommit(e)
  BY <1>2, GateCommit
<1>3. CASE \E d \in Reviewer : DecisionCommits(d)
  BY <1>3, GateDecision
<1>4. \/ UNCHANGED review
      \/ \E e \in Exec : HitlCommit(e)
      \/ \E d \in Reviewer : DecisionCommits(d)
  <2>1. ASSUME NEW e \in Exec, RunStep(e), ~ HitlCommit(e)
        PROVE  UNCHANGED review
    BY <2>1 DEF RunStep, NodeStep, HitlStep, StartGraph, DataGateway, GeoAudit,
                Compliance, RiskScoring, RiskScoringRaises, FinalJudgment,
                FinalJudgmentReturns, Completed, NodeReturns, HitlPause,
                HitlLookup, HitlInterrupt, HitlAnswered, HitlReturns, ResumeRow
  <2>2. ASSUME NEW h \in Handler, HandlerGuard(h)
        PROVE  UNCHANGED review
    BY <2>2 DEF HandlerGuard
  <2>3. ResumeStarts \/ ResultExpires => UNCHANGED review
    BY DEF ResumeStarts, ResumeNothing, ResumeThread, ResumeLoadsRow, ResultExpires
  <2>4. ASSUME NEW d \in Reviewer, DecisionReads(d) \/ DecisionEnqueues(d)
        PROVE  UNCHANGED review
    BY <2>4 DEF DecisionReads, DecisionEnqueues
  <2>5. Fault => UNCHANGED review
    BY DEF Fault, RunFails, WorkerCrashes, DecisionLost
  <2> QED BY <2>1, <2>2, <2>3, <2>4, <2>5 DEF Next, vars
<1> QED BY <1>1, <1>2, <1>3, <1>4

\* The pipeline, its executions and its decision requests implement ReviewGate:
\* whatever the interleaving and the faults, a review is opened for a key only
\* while none is open, is decided only once it exists, and never changes its
\* key, disappears or opens again.
THEOREM GateImplemented == Spec => GateSpec
BY GateInit, GateStep, ReviewInvariant, PTL DEF Spec, GateSpec, Gate!Spec

-----------------------------------------------------------------------------
(* The steps of an execution, by what they do to its control point *)

Others(e) == \A f \in Exec \ {e} : run'[f] = run[f]

\* Execution e leaves a checkpoint and goes to a node without an answer.
ToNode(e) ==
  /\ run'[e].pc \in Node /\ ~ run'[e].answer
  /\ thread'.st = "live" /\ thread'.by = e
  /\ Others(e)

\* A node returns: if it asks for a human, the interrupt is next.
NodeMove(e) ==
  /\ run[e].pc \in {"data_gateway", "geo_audit", "compliance", "risk_scoring",
                    "judged"}
  /\ ToNode(e)
  /\ owed' => owed \/ run'[e].pc = "hitl_interrupt"
  /\ UNCHANGED <<status, stageCol, review, job, desk, decided, faults>>

\* The judgment is stored.
JudgmentMove(e) ==
  /\ run[e].pc = "final_judgment" /\ run'[e].pc = "judged"
  /\ run'[e].answer = run[e].answer
  /\ Others(e)
  /\ stageCol' = "stage_judgment"
  /\ UNCHANGED <<status, review, thread, job, desk, decided, owed, faults>>

\* ainvoke is over, by an end, an interrupt or an exception.
EndMove(e) ==
  /\ run[e].pc \in {"risk_scoring", "completed", "committed"} \/ faults' # 0
  /\ Active(e)
  /\ run'[e].pc = (IF e = ResumeJob THEN "idle" ELSE "done")
  /\ ~ run'[e].answer
  /\ Others(e)
  /\ job' = IF e = ResumeJob THEN RetainedJob ELSE job
  /\ \/ UNCHANGED thread
     \/ thread'.st = "ended" /\ thread'.by = e
     \/ /\ run[e].pc = "committed" /\ ~ run[e].answer
        /\ thread.by = e /\ thread'.by = e
  /\ UNCHANGED <<status, stageCol, review, desk, decided, owed>>

\* The pause takes the row, and looks for a review.
PauseMove(e) ==
  /\ \/ run[e].pc = "hitl_interrupt" /\ run'[e].pc = "paused"
     \/ /\ run[e].pc = "paused" /\ run'[e].pc = "looked"
        /\ ~ run'[e].created => review[run'[e].rev].st # "absent"
  /\ run'[e].answer = run[e].answer
  /\ Others(e)
  /\ UNCHANGED <<status, stageCol, review, thread, job, desk, decided, owed,
                 faults>>

\* The pause is committed.
CommitMove(e) ==
  /\ run[e].pc = "looked" /\ run'[e].pc = "committed"
  /\ run'[e].answer = run[e].answer
  /\ Others(e)
  /\ status' = "batch_hitl_wait"
  /\ \/ ~ run[e].created /\ UNCHANGED review
     \/ /\ run[e].created
        /\ run[e].rev \in Review
        /\ review'[run[e].rev].st # "absent"
        /\ review'[run[e].rev].resolution = "none"
        /\ \A r \in Review \ {run[e].rev} : review'[r] = review[r]
  /\ UNCHANGED <<stageCol, thread, job, desk, decided, owed, faults>>

\* The HITL worker passes the interrupt, or the row that stands for it.
ResumeMove(e) ==
  /\ run[e].pc = "loaded" \/ (run[e].pc = "committed" /\ run[e].answer)
  /\ run'[e].pc = "resumed" /\ run'[e].answer = run[e].answer
  /\ Others(e)
  /\ status' = "batch_processing"
  /\ UNCHANGED <<stageCol, review, thread, job, desk, decided, owed, faults>>

\* The graph is started, or goes on behind the interrupt.
StartMove(e) ==
  /\ \/ run[e].pc = "resumed"
     \/ e \in Handler /\ run[e].pc = "guarded"
     \/ e \in PipelineJob
  /\ ToNode(e)
  /\ UNCHANGED <<status, stageCol, review, job, desk, decided, owed, faults>>

\* A delivery looks at the stage.
GuardMove(h) ==
  /\ run[h].pc = "idle" /\ ~ run'[h].answer
  /\ run'[h].pc = (IF stageCol = "stage_queued" THEN "guarded" ELSE "done")
  /\ Others(h)
  /\ UNCHANGED <<status, stageCol, review, thread, job, desk, decided, owed,
                 faults>>

\* The HITL worker takes the job of an approval.
JobMove ==
  /\ job.st = "queued" /\ job.resolution = "approve"
  /\ job'.st = "running" /\ job'.resolution = "approve"
  /\ run[ResumeJob].pc = "idle"
  /\ run'[ResumeJob].pc \in Node \cup {"loaded"}
  /\ Others(ResumeJob)
  /\ UNCHANGED thread \/ (thread'.st = "live" /\ thread'.by = ResumeJob)
  /\ UNCHANGED <<status, stageCol, review, desk, decided, owed, faults>>

\* The HITL worker refuses its job, or the retained result expires.
JobOver ==
  /\ \/ job.st = "queued" /\ job' = RetainedJob
     \/ /\ job.st = "retained" /\ job' = NoJob
        /\ \A d \in Reviewer : desk[d].st # "committed"
  /\ UNCHANGED <<status, stageCol, review, thread, run, desk, decided, owed,
                 faults>>

\* A worker dies and its job is queued again.
CrashMove(e) ==
  /\ faults' # 0
  /\ e \in PipelineJob \cup {ResumeJob} /\ Active(e)
  /\ run'[e].pc = "idle" /\ ~ run'[e].answer
  /\ Others(e)
  /\ job' = IF e = ResumeJob THEN [job EXCEPT !.st = "queued"] ELSE job
  /\ UNCHANGED <<status, stageCol, review, thread, desk, decided, owed>>

OthersOfDesk(d) == \A c \in Reviewer \ {d} : desk'[c] = desk[c]

\* A decision request reads, commits, enqueues, or is lost.
ReadMove(d) ==
  /\ desk'[d].st = "read" /\ Open(desk'[d].rev) /\ desk'[d].rev \in Rows
  /\ OthersOfDesk(d)
  /\ UNCHANGED <<status, stageCol, review, thread, run, job, decided, owed,
                 faults>>

DecideMove(d) ==
  LET q == desk[d].rev
      x == desk[d].resolution
  IN  /\ desk[d].st = "read" /\ q \in Rows
      /\ desk'[d].st # "read" /\ desk'[d].resolution \in {"none", x}
      /\ OthersOfDesk(d)
      /\ review'[q].st = "hitl_resolved" /\ review'[q].resolution = x
      /\ \A r \in Review \ {q} : review'[r] = review[r]
      /\ decided' = decided \cup {x}
      /\ owed' = (owed /\ x # "approve")
      /\ IF x = "reject" /\ status = "batch_hitl_wait"
           THEN status' = "batch_rejected" ELSE UNCHANGED status
      /\ UNCHANGED <<stageCol, thread, run, job, faults>>

EnqueueMove(d) ==
  /\ desk[d].st = "committed" /\ desk'[d].st = "idle"
  /\ OthersOfDesk(d)
  /\ job' = IF job.st = "none"
              THEN [st |-> "queued", resolution |-> desk[d].resolution]
              ELSE job
  /\ UNCHANGED <<status, stageCol, review, thread, run, decided, owed, faults>>

LostMove(d) ==
  /\ faults' # 0 /\ desk'[d].st = "idle"
  /\ OthersOfDesk(d)
  /\ UNCHANGED <<status, stageCol, review, thread, run, job, decided, owed>>

LEMMA ProceedMove ==
  ASSUME TypeOK, NEW e \in Exec, NEW s \in RunState, Proceed(e, s)
  PROVE  ToNode(e) /\ run'[e].pc = Route(s.stage, s.err)
<1>1. s.stage \in Stage /\ s.err \in ErrorReason
  BY DEF RunState
<1>2. Route(s.stage, s.err) \in Node
  BY <1>1, RouteType
<1>3. run'[e].pc = Route(s.stage, s.err) /\ ~ run'[e].answer
  BY DEF Proceed, TypeOK, RunState
<1>4. Others(e)
  BY DEF Proceed, TypeOK, Others
<1>5. thread'.st = "live" /\ thread'.by = e
  BY DEF Proceed, Checkpoint
<1> QED BY <1>2, <1>3, <1>4, <1>5 DEF ToNode

LEMMA NodeReturnsMove ==
  ASSUME TypeOK, NEW e \in Exec, NEW stage \in Stage, NEW err \in ErrorReason,
         NEW suppliers \in BOOLEAN, NodeReturns(e, stage, err, suppliers),
         run[e].pc \in {"data_gateway", "geo_audit", "compliance",
                        "risk_scoring", "judged"}
  PROVE  NodeMove(e)
<1> DEFINE s == [run[e] EXCEPT !.stage = stage, !.err = err,
                               !.suppliers = suppliers]
<1>1. s \in RunState /\ s.stage = stage /\ s.err = err
  BY DEF TypeOK, RunState
<1>2. Proceed(e, s)
  BY DEF NodeReturns
<1> HIDE DEF s
<1>3. ToNode(e) /\ run'[e].pc = Route(stage, err)
  BY <1>1, <1>2, ProceedMove
<1>4. err # "none" => Route(stage, err) = "hitl_interrupt"
  BY DEF Route, ErrorReason
<1>5. owed' = (owed \/ err # "none")
  BY DEF NodeReturns
<1>6. UNCHANGED <<status, stageCol, review, job, desk, decided, faults>>
  BY DEF NodeReturns, batchRow
<1> QED BY <1>3, <1>4, <1>5, <1>6 DEF NodeMove

LEMMA EndRunMove ==
  ASSUME TypeOK, NEW e \in Exec, EndRun(e)
  PROVE  /\ run'[e].pc = (IF e = ResumeJob THEN "idle" ELSE "done")
         /\ ~ run'[e].answer
         /\ Others(e)
         /\ job' = IF e = ResumeJob THEN RetainedJob ELSE job
<1>1. run'[e] = IF e = ResumeJob THEN IdleRun ELSE DoneRun
  BY DEF EndRun, TypeOK
<1>2. /\ IdleRun.pc = "idle" /\ ~ IdleRun.answer
      /\ DoneRun.pc = "done" /\ ~ DoneRun.answer
  BY DEF IdleRun, DoneRun
<1> QED BY <1>1, <1>2 DEF EndRun, TypeOK, Others

LEMMA NodeStepMoves ==
  ASSUME TypeOK, NEW e \in Exec, NodeStep(e)
  PROVE  NodeMove(e) \/ JudgmentMove(e) \/ EndMove(e)
<1>0. run[e] \in RunState /\ run[e].err \in ErrorReason
        /\ run[e].suppliers \in BOOLEAN
  BY DEF TypeOK, RunState
<1>1. CASE /\ run[e].pc \in {"data_gateway", "geo_audit", "compliance",
                             "risk_scoring", "judged"}
           /\ \E stage \in Stage, err \in ErrorReason, suppliers \in BOOLEAN :
                NodeReturns(e, stage, err, suppliers)
  BY <1>1, NodeReturnsMove
<1>2. CASE RiskScoringRaises(e)
  BY <1>2, EndRunMove DEF RiskScoringRaises, EndMove, batchRow, Active
<1>3. CASE Completed(e)
  BY <1>3, EndRunMove DEF Completed, EndMove, batchRow, Active, Checkpoint
<1>4. CASE FinalJudgment(e)
  BY <1>0, <1>4 DEF FinalJudgment, JudgmentMove, TypeOK, RunState, Others
<1>5. ASSUME DataGateway(e) \/ GeoAudit(e) \/ Compliance(e) \/ RiskScoring(e)
               \/ FinalJudgmentReturns(e)
      PROVE  /\ run[e].pc \in {"data_gateway", "geo_audit", "compliance",
                               "risk_scoring", "judged"}
             /\ \E stage \in Stage, err \in ErrorReason, suppliers \in BOOLEAN :
                  NodeReturns(e, stage, err, suppliers)
  BY <1>0, <1>5 DEF DataGateway, GeoAudit, Compliance, RiskScoring,
                    FinalJudgmentReturns, Stage, ErrorReason, Escalation
<1> QED BY <1>1, <1>2, <1>3, <1>4, <1>5 DEF NodeStep

LEMMA HitlStepMoves ==
  ASSUME ReviewInv, NEW e \in Exec, HitlStep(e)
  PROVE  \/ PauseMove(e) \/ CommitMove(e) \/ EndMove(e) \/ ResumeMove(e)
         \/ StartMove(e)
<1>0. TypeOK /\ LookupIsFresh /\ run[e] \in RunState
  BY DEF ReviewInv, TypeOK
<1>1. CASE HitlPause(e)
  BY <1>0, <1>1 DEF HitlPause, PauseMove, TypeOK, RunState, Others
<1>2. CASE HitlLookup(e)
  <2>1. PICK r \in Review, created \in BOOLEAN :
          /\ run' = [run EXCEPT ![e] = [run[e] EXCEPT !.pc = "looked", !.rev = r,
                                                      !.created = created]]
          /\ ~ created => Exists(r)
    BY <1>2 DEF HitlLookup, Matches, Open, Exists
  <2>2. /\ run'[e].pc = "looked" /\ run'[e].rev = r /\ run'[e].created = created
        /\ run'[e].answer = run[e].answer
    BY <1>0, <2>1 DEF TypeOK, RunState
  <2>3. Others(e)
    BY <1>0, <2>1 DEF TypeOK, Others
  <2>4. /\ run[e].pc = "paused"
        /\ UNCHANGED <<status, stageCol, review, thread, job, desk, decided, owed,
                       faults>>
    BY <1>2 DEF HitlLookup, batchRow
  <2> QED BY <2>1, <2>2, <2>3, <2>4 DEF PauseMove, Exists
<1>3. CASE HitlCommit(e)
  <2> DEFINE row == PendingRow(ReviewReason(run[e].err), run[e].stage)
  <2>1. run[e].pc = "looked" /\ run[e].rev \in Review
    BY <1>0, <1>3 DEF HitlCommit, LookupIsFresh
  <2>2. /\ run'[e].pc = "committed" /\ run'[e].answer = run[e].answer
        /\ Others(e)
    BY <1>0, <1>3 DEF HitlCommit, TypeOK, RunState, Others
  <2>3. row.st # "absent" /\ row.resolution = "none"
    BY DEF PendingRow
  <2>4. CASE run[e].created
    <3>1. /\ review'[run[e].rev] = row
          /\ \A r \in Review \ {run[e].rev} : review'[r] = review[r]
      BY <1>0, <1>3, <2>1, <2>4 DEF HitlCommit, TypeOK
    <3>2. run[e].created /\ review'[run[e].rev].st # "absent"
            /\ review'[run[e].rev].resolution = "none"
      BY <2>3, <2>4, <3>1
    <3> HIDE DEF row
    <3> QED BY <1>3, <2>1, <2>2, <3>1, <3>2 DEF HitlCommit, CommitMove
  <2>5. CASE ~ run[e].created
    BY <1>3, <2>1, <2>2, <2>5 DEF HitlCommit, CommitMove
  <2> QED BY <2>4, <2>5
<1>4. CASE HitlInterrupt(e)
  <2>1. \/ UNCHANGED thread
        \/ thread.by = e /\ thread'.by = e
    BY <1>0, <1>4 DEF HitlInterrupt, TypeOK, ThreadState
  <2> QED BY <1>0, <1>4, <2>1, EndRunMove DEF HitlInterrupt, EndMove, batchRow, Active
<1>5. CASE HitlAnswered(e) \/ ResumeRow(e)
  BY <1>0, <1>5 DEF HitlAnswered, ResumeRow, ResumeMove, TypeOK, RunState, Others
<1>6. CASE HitlReturns(e)
  <2>1. [run[e] EXCEPT !.err = "none"] \in RunState
    BY <1>0 DEF RunState, ErrorReason
  <2>2. ToNode(e)
    BY <1>0, <1>6, <2>1, ProceedMove DEF HitlReturns
  <2> QED BY <1>6, <2>2 DEF HitlReturns, StartMove, batchRow
<1> QED BY <1>1, <1>2, <1>3, <1>4, <1>5, <1>6 DEF HitlStep

LEMMA StartMoves ==
  ASSUME TypeOK, NEW e \in Exec, StartGraph(e)
  PROVE  StartMove(e)
<1>1. [IdleRun EXCEPT !.err = thread.err, !.suppliers = thread.suppliers]
        \in RunState
  BY IdleType DEF TypeOK, RunState, ThreadState
<1>2. ToNode(e)
  BY <1>1, ProceedMove DEF StartGraph
<1> QED BY <1>2 DEF StartGraph, StartMove, batchRow

LEMMA GuardMoves ==
  ASSUME TypeOK, NEW h \in Handler, HandlerGuard(h)
  PROVE  GuardMove(h)
<1>0. h \in Exec
  BY DEF Exec
<1>1. run'[h] = IF stageCol = "stage_queued" THEN [IdleRun EXCEPT !.pc = "guarded"]
                                             ELSE DoneRun
  BY <1>0 DEF HandlerGuard, TypeOK
<1>2. /\ ~ run'[h].answer
      /\ run'[h].pc = (IF stageCol = "stage_queued" THEN "guarded" ELSE "done")
  BY <1>1 DEF IdleRun, DoneRun
<1>3. Others(h)
  BY <1>0 DEF HandlerGuard, TypeOK, Others
<1> QED BY <1>2, <1>3 DEF HandlerGuard, GuardMove, batchRow

LEMMA ResumeMoves ==
  ASSUME TypeOK, ResumeStarts \/ ResultExpires
  PROVE  JobMove \/ JobOver
<1>0. ResumeJob \in Exec
  BY DEF Exec
<1>1. CASE ResumeNothing
  BY <1>1 DEF ResumeNothing, JobTaken, JobOver, batchRow
<1>2. CASE ResultExpires
  BY <1>2 DEF ResultExpires, JobOver, batchRow
<1>3. ASSUME ResumeThread \/ ResumeLoadsRow
      PROVE  /\ job.st = "queued" /\ job.resolution = "approve"
             /\ job'.st = "running" /\ job'.resolution = "approve"
             /\ run[ResumeJob].pc = "idle"
             /\ UNCHANGED <<status, stageCol, review, desk, decided, owed, faults>>
  <2>1. job' = [job EXCEPT !.st = "running"] /\ JobTaken /\ ~ ResumeRefused
    BY <1>3 DEF ResumeThread, ResumeLoadsRow
  <2>2. job'.st = "running" /\ job'.resolution = job.resolution
    BY <2>1 DEF TypeOK, JobState
  <2> QED BY <1>3, <2>1, <2>2 DEF ResumeThread, ResumeLoadsRow, JobTaken,
                                  ResumeRefused, batchRow
<1>4. CASE ResumeThread
  <2>1. PICK answer \in BOOLEAN :
          /\ thread.st = "interrupted" => answer
          /\ thread' = IF answer THEN thread ELSE [thread EXCEPT !.by = ResumeJob]
          /\ run' = [run EXCEPT ![ResumeJob] =
                       [IdleRun EXCEPT !.pc = Route(thread.stage, thread.err),
                                       !.stage = thread.stage, !.err = thread.err,
                                       !.suppliers = thread.suppliers,
                                       !.answer = answer]]
    BY <1>4 DEF ResumeThread
  <2>2. thread.stage \in Stage /\ thread.err \in ErrorReason
    BY DEF TypeOK, ThreadState
  <2>3. Route(thread.stage, thread.err) \in Node
    BY <2>2, RouteType
  <2>4. run'[ResumeJob].pc = Route(thread.stage, thread.err)
    BY <1>0, <2>1 DEF TypeOK, IdleRun
  <2>5. Others(ResumeJob)
    BY <1>0, <2>1 DEF TypeOK, Others
  <2>6. UNCHANGED thread \/ (thread'.st = "live" /\ thread'.by = ResumeJob)
    BY <1>4, <2>1 DEF ResumeThread, TypeOK, ThreadState
  <2> QED BY <1>3, <1>4, <2>3, <2>4, <2>5, <2>6 DEF JobMove
<1>5. CASE ResumeLoadsRow
  <2>1. run'[ResumeJob].pc = "loaded"
    BY <1>0, <1>5 DEF ResumeLoadsRow, TypeOK, IdleRun
  <2>2. Others(ResumeJob) /\ UNCHANGED thread
    BY <1>0, <1>5 DEF ResumeLoadsRow, TypeOK, Others
  <2> QED BY <1>3, <1>5, <2>1, <2>2 DEF JobMove
<1> QED BY <1>1, <1>2, <1>4, <1>5 DEF ResumeStarts

LEMMA DeskMoves ==
  ASSUME ReviewInv, NEW d \in Reviewer,
         DecisionReads(d) \/ DecisionCommits(d) \/ DecisionEnqueues(d)
  PROVE  ReadMove(d) \/ DecideMove(d) \/ EnqueueMove(d)
<1>0. TypeOK /\ RequestHasRead
  BY DEF ReviewInv
<1>1. CASE DecisionReads(d)
  <2>1. PICK r \in Rows, resolution \in Resolution, enqueue \in BOOLEAN :
          /\ Open(r)
          /\ desk' = [desk EXCEPT ![d] =
                        [st |-> "read", rev |-> r, resolution |-> resolution,
                         enqueue |-> enqueue]]
    BY <1>1 DEF DecisionReads, Accepts
  <2>2. desk'[d].st = "read" /\ desk'[d].rev = r /\ OthersOfDesk(d)
    BY <1>0, <2>1 DEF TypeOK, OthersOfDesk
  <2> QED BY <1>1, <2>1, <2>2 DEF DecisionReads, ReadMove, batchRow
<1>2. CASE DecisionCommits(d)
  <2> DEFINE q == desk[d].rev
  <2>1. desk[d].st = "read" /\ q \in Review /\ q \in Rows
    BY <1>0, <1>2 DEF DecisionCommits, RequestHasRead, Rows
  <2>2. /\ review'[q].st = "hitl_resolved"
        /\ review'[q].resolution = desk[d].resolution
        /\ \A r \in Review \ {q} : review'[r] = review[r]
    BY <1>0, <1>2, <2>1 DEF DecisionCommits, TypeOK, ReviewState
  <2>3. /\ desk'[d].st # "read"
        /\ desk'[d].resolution \in {"none", desk[d].resolution}
        /\ OthersOfDesk(d)
    BY <1>0, <1>2 DEF DecisionCommits, TypeOK, IdleDesk, OthersOfDesk
  <2>4. IF desk[d].resolution = "reject" /\ status = "batch_hitl_wait"
          THEN status' = "batch_rejected" ELSE UNCHANGED status
    BY <1>2 DEF DecisionCommits, RejectBatch
  <2> QED BY <1>2, <2>1, <2>2, <2>3, <2>4 DEF DecisionCommits, DecideMove
<1>3. CASE DecisionEnqueues(d)
  BY <1>0, <1>3 DEF DecisionEnqueues, EnqueueMove, TypeOK, IdleDesk, OthersOfDesk,
                    batchRow
<1> QED BY <1>1, <1>2, <1>3

LEMMA FaultMoves ==
  ASSUME TypeOK, Fault
  PROVE  \/ \E e \in Exec : EndMove(e) \/ CrashMove(e)
         \/ \E d \in Reviewer : LostMove(d)
<1>1. faults \in Nat
  BY BoundAssumption DEF TypeOK
<1>2. ASSUME NEW e \in Exec, RunFails(e)
      PROVE  EndMove(e)
  <2>1. faults' # 0
    BY <1>1, <1>2 DEF RunFails
  <2> QED BY <1>2, <2>1, EndRunMove DEF RunFails, EndMove
<1>3. ASSUME NEW e \in Exec, WorkerCrashes(e)
      PROVE  CrashMove(e)
  <2>1. faults' # 0
    BY <1>1, <1>3 DEF WorkerCrashes
  <2>2. run'[e] = IdleRun /\ Others(e)
    BY <1>3 DEF WorkerCrashes, TypeOK, Others
  <2> QED BY <1>3, <2>1, <2>2 DEF WorkerCrashes, CrashMove, IdleRun
<1>4. ASSUME NEW d \in Reviewer, DecisionLost(d)
      PROVE  LostMove(d)
  <2>1. faults' # 0
    BY <1>1, <1>4 DEF DecisionLost
  <2> QED BY <1>4, <2>1 DEF DecisionLost, LostMove, TypeOK, IdleDesk, OthersOfDesk,
                            batchRow
<1> QED BY <1>2, <1>3, <1>4 DEF Fault

\* Every step is one of these.
LEMMA StepMoves ==
  ASSUME ReviewInv, [Next]_vars
  PROVE  \/ \E e \in Exec :
              \/ NodeMove(e) \/ JudgmentMove(e) \/ EndMove(e) \/ PauseMove(e)
              \/ CommitMove(e) \/ ResumeMove(e) \/ StartMove(e) \/ CrashMove(e)
         \/ \E h \in Handler : GuardMove(h)
         \/ JobMove \/ JobOver
         \/ \E d \in Reviewer :
              ReadMove(d) \/ DecideMove(d) \/ EnqueueMove(d) \/ LostMove(d)
         \/ UNCHANGED vars
<1>0. TypeOK
  BY DEF ReviewInv
<1>1. CASE \E e \in Exec : RunStep(e)
  BY <1>0, <1>1, NodeStepMoves, HitlStepMoves, StartMoves DEF RunStep
<1>2. CASE \E h \in Handler : HandlerGuard(h)
  BY <1>0, <1>2, GuardMoves
<1>3. CASE ResumeStarts \/ ResultExpires
  BY <1>0, <1>3, ResumeMoves
<1>4. CASE \E d \in Reviewer :
             DecisionReads(d) \/ DecisionCommits(d) \/ DecisionEnqueues(d)
  BY <1>4, DeskMoves
<1>5. CASE Fault
  BY <1>0, <1>5, FaultMoves
<1> QED BY <1>1, <1>2, <1>3, <1>4, <1>5 DEF Next

\* A fault is counted.
LEMMA FaultsGrow ==
  ASSUME ReviewInv, [Next]_vars, faults' = 0
  PROVE  faults = 0
<1>1. faults \in Nat
  BY BoundAssumption DEF ReviewInv, TypeOK
<1>2. faults' = faults \/ faults' = faults + 1
  BY DEF Next, vars, RunStep, NodeStep, HitlStep, StartGraph, DataGateway,
         GeoAudit, Compliance, RiskScoring, RiskScoringRaises, FinalJudgment,
         FinalJudgmentReturns, Completed, NodeReturns, HitlPause, HitlLookup,
         HitlCommit, HitlInterrupt, HitlAnswered, HitlReturns, ResumeRow,
         HandlerGuard, ResumeStarts, ResumeNothing, ResumeThread,
         ResumeLoadsRow, ResultExpires, DecisionReads, DecisionCommits,
         DecisionEnqueues, Fault, RunFails, WorkerCrashes, DecisionLost
<1> QED BY <1>1, <1>2

-----------------------------------------------------------------------------
(* Interrupts are shown *)

\* The answer of an approval travels with the HITL worker only.
LEMMA NextAnswers ==
  ASSUME ReviewInv, AnswersAreResumes, [Next]_vars
  PROVE  AnswersAreResumes'
<1>0. ResumeJob \in Exec
  BY DEF Exec
<1>1. ASSUME NEW e \in Exec, Others(e),
             e = ResumeJob \/ (~ run'[e].answer /\ run'[e].pc \notin {"loaded", "resumed"})
      PROVE  AnswersAreResumes'
  BY <1>1 DEF AnswersAreResumes, Others
<1>2. ASSUME UNCHANGED run PROVE AnswersAreResumes'
  BY <1>2 DEF AnswersAreResumes
<1>3. ASSUME NEW e \in Exec, NodeMove(e) \/ StartMove(e)
      PROVE  AnswersAreResumes'
  BY <1>1, <1>3 DEF NodeMove, StartMove, ToNode, Node
<1>4. ASSUME NEW e \in Exec, EndMove(e) \/ CrashMove(e)
      PROVE  AnswersAreResumes'
  BY <1>1, <1>4 DEF EndMove, CrashMove
<1>5. ASSUME NEW e \in Exec, JudgmentMove(e) \/ PauseMove(e) \/ CommitMove(e)
      PROVE  AnswersAreResumes'
  BY <1>1, <1>5 DEF JudgmentMove, PauseMove, CommitMove, AnswersAreResumes
<1>6. ASSUME NEW e \in Exec, ResumeMove(e)
      PROVE  AnswersAreResumes'
  BY <1>1, <1>6 DEF ResumeMove, AnswersAreResumes
<1>7. ASSUME NEW h \in Handler, GuardMove(h)
      PROVE  AnswersAreResumes'
  BY <1>1, <1>7 DEF GuardMove, Exec
<1>8. CASE JobMove
  BY <1>0, <1>1, <1>8 DEF JobMove
<1>9. ASSUME \/ JobOver \/ UNCHANGED vars
             \/ \E d \in Reviewer :
                  ReadMove(d) \/ DecideMove(d) \/ EnqueueMove(d) \/ LostMove(d)
      PROVE  AnswersAreResumes'
  BY <1>2, <1>9 DEF JobOver, vars, ReadMove, DecideMove, EnqueueMove, LostMove
<1> QED BY <1>3, <1>4, <1>5, <1>6, <1>7, <1>8, <1>9, StepMoves

\* What the row shows of the thread: see PauseIsShown.
ShownInv == faults = 0 => PauseIsShown

\* Until something fails, no step hides a pause.
LEMMA NextShown ==
  ASSUME ReviewInv, AnswersAreResumes, ShownInv, [Next]_vars
  PROVE  ShownInv'
<1> DEFINE shown == \/ status \in {"batch_hitl_wait", "batch_rejected"}
                    \/ run[ResumeJob].pc = "resumed"
<1> SUFFICES ASSUME faults' = 0 PROVE PauseIsShown'
  BY DEF ShownInv
<1>0. ResumeJob \in Exec /\ ResumeJob \notin Handler
  BY ExecAssumption DEF Exec
<1>1. faults = 0
  BY FaultsGrow
<1>2. /\ thread.st = "interrupted" => shown
      /\ \A e \in Exec : run[e].pc = "committed" /\ thread.by = e => shown
  BY <1>1 DEF ShownInv, PauseIsShown
<1>3. ASSUME shown => shown',
             /\ thread'.st = "interrupted" => shown
             /\ \A e \in Exec : run'[e].pc = "committed" /\ thread'.by = e => shown
      PROVE  PauseIsShown'
  BY <1>3 DEF PauseIsShown
<1>4. ASSUME NEW e \in Exec, NodeMove(e) \/ StartMove(e)
      PROVE  PauseIsShown'
  <2>1. thread'.st = "live" /\ thread'.by = e /\ run'[e].pc # "committed"
    BY <1>4 DEF NodeMove, StartMove, ToNode, Node
  <2> QED BY <2>1 DEF PauseIsShown
<1>5. ASSUME NEW e \in Exec, JudgmentMove(e) \/ PauseMove(e)
      PROVE  PauseIsShown'
  <2>1. /\ run'[e].pc # "committed" /\ run[e].pc # "resumed"
        /\ Others(e) /\ UNCHANGED <<status, thread>>
    BY <1>5 DEF JudgmentMove, PauseMove
  <2>2. shown => shown'
    BY <1>0, <2>1 DEF Others
  <2> QED BY <1>2, <1>3, <2>1, <2>2 DEF Others
<1>6. ASSUME NEW e \in Exec, EndMove(e)
      PROVE  PauseIsShown'
  <2>1. /\ run[e].pc # "resumed" /\ run'[e].pc # "committed"
        /\ Others(e) /\ UNCHANGED status
    BY <1>6 DEF EndMove
  <2>2. shown => shown'
    BY <1>0, <2>1 DEF Others
  <2>3. \/ UNCHANGED thread
        \/ thread'.st = "ended" /\ thread'.by = e
        \/ run[e].pc = "committed" /\ thread.by = e /\ thread'.by = e
    BY <1>6 DEF EndMove
  <2>4. thread'.st = "interrupted" => shown
    BY <1>2, <2>3
  <2>5. \A f \in Exec : run'[f].pc = "committed" /\ thread'.by = f => shown
    BY <1>2, <2>1, <2>3 DEF Others
  <2> QED BY <1>3, <2>2, <2>4, <2>5
<1>7. ASSUME NEW e \in Exec, CommitMove(e)
      PROVE  PauseIsShown'
  BY <1>7 DEF CommitMove, PauseIsShown
<1>8. ASSUME NEW e \in Exec, ResumeMove(e)
      PROVE  PauseIsShown'
  <2>1. e = ResumeJob
    BY <1>8 DEF ResumeMove, AnswersAreResumes
  <2> QED BY <1>8, <2>1 DEF ResumeMove, PauseIsShown
<1>9. ASSUME NEW h \in Handler, GuardMove(h)
      PROVE  PauseIsShown'
  <2>1. /\ run'[h].pc # "committed" /\ h # ResumeJob
        /\ Others(h) /\ UNCHANGED <<status, thread>>
    BY <1>0, <1>9 DEF GuardMove
  <2>2. shown => shown'
    BY <1>0, <2>1 DEF Others
  <2> QED BY <1>2, <1>3, <2>1, <2>2 DEF Others
<1>10. CASE JobMove
  <2>1. /\ run[ResumeJob].pc # "resumed" /\ run'[ResumeJob].pc # "committed"
        /\ Others(ResumeJob) /\ UNCHANGED status
        /\ UNCHANGED thread \/ (thread'.st = "live" /\ thread'.by = ResumeJob)
    BY <1>10 DEF JobMove, Node
  <2>2. shown => shown'
    BY <1>0, <2>1 DEF Others
  <2> QED BY <1>2, <1>3, <2>1, <2>2 DEF Others
<1>11. ASSUME UNCHANGED <<thread, run>>,
              UNCHANGED status \/ status' = "batch_rejected"
       PROVE  PauseIsShown'
  BY <1>2, <1>11 DEF PauseIsShown
<1>12. ASSUME \/ JobOver \/ UNCHANGED vars
              \/ \E d \in Reviewer :
                   ReadMove(d) \/ DecideMove(d) \/ EnqueueMove(d) \/ LostMove(d)
       PROVE  PauseIsShown'
  BY <1>11, <1>12 DEF JobOver, vars, batchRow, ReadMove, DecideMove, EnqueueMove,
                      LostMove
<1>13. ~ \E e \in Exec : CrashMove(e)
  BY DEF CrashMove
<1> QED BY <1>4, <1>5, <1>6, <1>7, <1>8, <1>9, <1>10, <1>12, <1>13, StepMoves

\* Until something fails, however many deliveries and jobs start the graph and
\* however many decisions race, a thread left at its interrupt is shown by the
\* batches row (hitl_interrupt_node pauses the row before it interrupts, and only
\* the worker that brings the answer takes the pause back).
THEOREM InterruptVisible == Spec => []InterruptIsVisible
<1>1. Init => AnswersAreResumes /\ ShownInv
  <2> SUFFICES ASSUME Init PROVE AnswersAreResumes /\ PauseIsShown
    BY DEF ShownInv
  <2>1. \A e \in Exec : run[e].pc = "idle" /\ ~ run[e].answer
    BY DEF Init, IdleRun
  <2>2. thread.st = "none"
    BY DEF Init, NoThread
  <2> QED BY <2>1, <2>2 DEF AnswersAreResumes, PauseIsShown
<1>2. ReviewInv /\ AnswersAreResumes /\ ShownInv /\ [Next]_vars
        => AnswersAreResumes' /\ ShownInv'
  BY NextAnswers, NextShown
<1>3. ShownInv => InterruptIsVisible
  <2>1. ResumeJob \in Exec
    BY DEF Exec
  <2> QED BY <2>1 DEF ShownInv, PauseIsShown, InterruptIsVisible, Active
<1> QED BY <1>1, <1>2, <1>3, ReviewInvariant, PTL DEF Spec

-----------------------------------------------------------------------------
(* The HITL worker follows a review *)

\* Reviews are not removed.
LEMMA RowsStay ==
  ASSUME ReviewInv, [Next]_vars
  PROVE  Rows \subseteq Rows'
<1>1. ASSUME UNCHANGED review PROVE Rows \subseteq Rows'
  BY <1>1 DEF Rows, Exists
<1>2. ASSUME NEW e \in Exec, CommitMove(e) PROVE Rows \subseteq Rows'
  BY <1>2 DEF CommitMove, Rows, Exists
<1>3. ASSUME NEW d \in Reviewer, DecideMove(d) PROVE Rows \subseteq Rows'
  BY <1>3 DEF DecideMove, Rows, Exists
<1>4. \/ UNCHANGED review
      \/ \E e \in Exec : CommitMove(e)
      \/ \E d \in Reviewer : DecideMove(d)
  BY StepMoves DEF NodeMove, JudgmentMove, EndMove, PauseMove, ResumeMove,
       StartMove, CrashMove, GuardMove, JobMove, JobOver, ReadMove, EnqueueMove,
       LostMove, vars
<1> QED BY <1>1, <1>2, <1>3, <1>4

LEMMA NextFollows ==
  ASSUME ReviewInv, ApprovalIsRecorded, ResumeFollowsReview, [Next]_vars
  PROVE  ResumeFollowsReview'
<1>0. ResumeJob \in Exec /\ ResumeJob \notin Handler /\ job \in JobState
  BY ExecAssumption DEF Exec, ReviewInv, TypeOK
<1>1. "approve" \in decided' => Rows' # {}
  <2>1. ASSUME NEW d \in Reviewer, DecideMove(d) PROVE Rows # {}
    BY <2>1 DEF DecideMove
  <2>2. UNCHANGED decided \/ \E d \in Reviewer : DecideMove(d)
    BY StepMoves DEF NodeMove, JudgmentMove, EndMove, PauseMove, CommitMove,
         ResumeMove, StartMove, CrashMove, GuardMove, JobMove, JobOver, ReadMove,
         EnqueueMove, LostMove, vars
  <2> QED BY <2>1, <2>2, RowsStay DEF ResumeFollowsReview
<1>2. Active(ResumeJob)' => job'.st = "running"
  <2>1. ASSUME NEW e \in Exec, Active(e), Others(e), UNCHANGED job
        PROVE  Active(ResumeJob)' => job'.st = "running"
    BY <1>0, <2>1 DEF ResumeFollowsReview, Others, Active
  <2>2. ASSUME NEW e \in Exec,
               \/ NodeMove(e) \/ JudgmentMove(e) \/ PauseMove(e) \/ CommitMove(e)
               \/ ResumeMove(e)
        PROVE  Active(e) /\ Others(e) /\ UNCHANGED job
    BY <2>2 DEF NodeMove, JudgmentMove, PauseMove, CommitMove, ResumeMove, ToNode,
                Active
  <2>3. ASSUME NEW e \in Exec, e # ResumeJob, Others(e), UNCHANGED job
        PROVE  Active(ResumeJob)' => job'.st = "running"
    BY <1>0, <2>3 DEF ResumeFollowsReview, Others, Active
  <2>4. ASSUME NEW e \in Exec, StartMove(e)
        PROVE  Active(ResumeJob)' => job'.st = "running"
    <3>1. Active(e) \/ e # ResumeJob
      BY <2>4, ExecAssumption DEF StartMove, Active
    <3> QED BY <2>1, <2>3, <2>4, <3>1 DEF StartMove, ToNode
  <2>5. ASSUME NEW e \in Exec, EndMove(e) \/ CrashMove(e)
        PROVE  Active(ResumeJob)' => job'.st = "running"
    <3>1. CASE e = ResumeJob
      BY <2>5, <3>1 DEF EndMove, CrashMove, Active
    <3>2. CASE e # ResumeJob
      BY <2>3, <2>5, <3>2 DEF EndMove, CrashMove
    <3> QED BY <3>1, <3>2
  <2>6. ASSUME NEW h \in Handler, GuardMove(h)
        PROVE  Active(ResumeJob)' => job'.st = "running"
    BY <1>0, <2>3, <2>6 DEF GuardMove, Exec
  <2>7. CASE JobMove
    BY <2>7 DEF JobMove
  <2>8. CASE JobOver
    BY <2>8 DEF JobOver, ResumeFollowsReview, Active
  <2>9. ASSUME NEW d \in Reviewer,
               ReadMove(d) \/ DecideMove(d) \/ EnqueueMove(d) \/ LostMove(d)
        PROVE  Active(ResumeJob)' => job'.st = "running"
    <3>1. UNCHANGED run /\ (job.st = "running" => job'.st = "running")
      BY <1>0, <2>9 DEF ReadMove, DecideMove, EnqueueMove, LostMove
    <3> QED BY <3>1 DEF ResumeFollowsReview, Active
  <2>10. CASE UNCHANGED vars
    BY <2>10 DEF vars, ResumeFollowsReview, Active
  <2> QED BY <2>1, <2>2, <2>4, <2>5, <2>6, <2>7, <2>8, <2>9, <2>10, StepMoves
<1> QED BY <1>1, <1>2 DEF ResumeFollowsReview

\* Without a review the HITL worker is idle.
LEMMA IdleBeforeReview ==
  ASSUME ApprovalIsRecorded, ResumeFollowsReview, Rows = {}
  PROVE  ~ Active(ResumeJob) /\ "approve" \notin decided
BY DEF ApprovalIsRecorded, ResumeFollowsReview

LEMMA NextPrecedes ==
  ASSUME StartedOnce, ReviewInv, AnswersAreResumes, ApprovalIsRecorded,
         ResumeFollowsReview, StartPrecedesReview, [Next]_vars
  PROVE  StartPrecedesReview'
<1> DEFINE Over(h) == \/ run[h].pc \in {"committed", "done"}
                      \/ run[h].pc = "idle" /\ stageCol # "stage_queued"
<1> SUFFICES ASSUME Rows' # {}, NEW h \in Handler
             PROVE  Over(h)'
  BY DEF StartPrecedesReview
<1>0. h \in Exec /\ h # ResumeJob /\ \A e \in Exec : e \in {h, ResumeJob}
  BY ExecAssumption DEF Exec, StartedOnce
<1>1. CASE Rows = {}
  <2>1. run[ResumeJob].pc \in {"idle", "done"}
    BY <1>1, IdleBeforeReview DEF Active
  <2>2. ASSUME UNCHANGED review PROVE FALSE
    BY <1>1, <2>2 DEF Rows, Exists
  <2>3. ASSUME NEW d \in Reviewer, DecideMove(d) PROVE FALSE
    BY <1>1, <2>3 DEF DecideMove
  <2>4. ASSUME NEW e \in Exec, CommitMove(e) PROVE Over(h)'
    BY <1>0, <2>1, <2>4 DEF CommitMove
  <2> QED
    BY <2>2, <2>3, <2>4, StepMoves DEF NodeMove, JudgmentMove, EndMove, PauseMove,
         ResumeMove, StartMove, CrashMove, GuardMove, JobMove, JobOver, ReadMove,
         EnqueueMove, LostMove, vars
<1>2. CASE Rows # {}
  <2>0. Over(h)
    BY <1>2 DEF StartPrecedesReview
  <2>1. ASSUME run'[h] = run[h], stageCol' \in {stageCol, "stage_judgment"}
        PROVE  Over(h)'
    BY <2>0, <2>1
  <2>2. ASSUME NEW e \in Exec,
               \/ NodeMove(e) \/ JudgmentMove(e) \/ PauseMove(e) \/ CommitMove(e)
               \/ ResumeMove(e) \/ StartMove(e)
        PROVE  Over(h)'
    <3>1. e # h
      BY <1>0, <2>0, <2>2 DEF NodeMove, JudgmentMove, PauseMove, CommitMove,
           ResumeMove, StartMove, AnswersAreResumes, StartedOnce
    <3>2. /\ run'[h] = run[h]
          /\ stageCol' \in {stageCol, "stage_judgment"}
      BY <1>0, <2>2, <3>1 DEF NodeMove, JudgmentMove, PauseMove, CommitMove,
           ResumeMove, StartMove, ToNode, Others
    <3> QED BY <2>1, <3>2
  <2>3. ASSUME NEW e \in Exec, EndMove(e) \/ CrashMove(e)
        PROVE  Over(h)'
    <3>1. CASE e = h
      BY <1>0, <2>3, <3>1, ExecAssumption DEF EndMove, CrashMove, StartedOnce
    <3>2. CASE e # h
      BY <1>0, <2>1, <2>3, <3>2 DEF EndMove, CrashMove, Others
    <3> QED BY <3>1, <3>2
  <2>4. ASSUME NEW g \in Handler, GuardMove(g)
        PROVE  Over(h)'
    BY <2>0, <2>4 DEF GuardMove, StartedOnce
  <2>5. CASE JobMove
    BY <1>0, <2>1, <2>5 DEF JobMove, Others
  <2>6. ASSUME \/ JobOver \/ UNCHANGED vars
               \/ \E d \in Reviewer :
                    ReadMove(d) \/ DecideMove(d) \/ EnqueueMove(d) \/ LostMove(d)
        PROVE  Over(h)'
    BY <2>1, <2>6 DEF JobOver, vars, batchRow, ReadMove, DecideMove, EnqueueMove,
                      LostMove
  <2> QED BY <2>2, <2>3, <2>4, <2>5, <2>6, StepMoves
<1> QED BY <1>1, <1>2

\* What holds of a batch whose graph is started once.
OnceInv ==
  AnswersAreResumes /\ ApprovalIsRecorded /\ ResumeFollowsReview /\ StartPrecedesReview

LEMMA InitOnce == Init => OnceInv
<1> SUFFICES ASSUME Init PROVE OnceInv
  OBVIOUS
<1>0. ResumeJob \in Exec /\ \A h \in Handler : h \in Exec
  BY DEF Exec
<1>1. \A e \in Exec : run[e].pc = "idle" /\ ~ run[e].answer
  BY DEF Init, IdleRun
<1>2. Rows = {} \/ stageCol # "stage_queued"
  BY DEF Init, Rows, Exists, NoRow, SeededStage
<1>3. decided = {} /\ job = NoJob /\ \A d \in Reviewer : desk[d] = IdleDesk
  BY DEF Init
<1>4. AnswersAreResumes /\ ResumeFollowsReview /\ StartPrecedesReview
  BY <1>0, <1>1, <1>2, <1>3 DEF AnswersAreResumes, ResumeFollowsReview,
       StartPrecedesReview, Active
<1>5. ApprovalIsRecorded
  BY <1>3 DEF ApprovalIsRecorded, NoJob, IdleDesk
<1> QED BY <1>4, <1>5 DEF OnceInv

LEMMA NextOnce ==
  ASSUME StartedOnce
  PROVE  ReviewInv /\ OnceInv /\ [Next]_vars => OnceInv'
BY NextAnswers, NextApproval, NextFollows, NextPrecedes DEF OnceInv

-----------------------------------------------------------------------------
(* A waiting batch has a review *)

\* With one request at a time, an approval stands: see ApprovalStands.
LEMMA NextStands ==
  ASSUME OneRequest, ReviewInv, ApprovalStands, [Next]_vars
  PROVE  ApprovalStands'
<1> DEFINE Read == \A d \in Reviewer : desk[d].st = "read" => Open(desk[d].rev)
           Approved == "approve" \in decided =>
                         \E r \in Rows : review[r].resolution = "approve"
           Found == \A e \in Exec : run[e].pc = "looked" /\ ~ run[e].created =>
                      Exists(run[e].rev)
<1>0. /\ LookupIsFresh /\ RequestHasRead /\ Read /\ Approved /\ Found
      /\ Rows \subseteq Rows' /\ \A r \in Review : r \in Rows <=> Exists(r)
  BY RowsStay DEF ReviewInv, ApprovalStands, Rows
<1>1. Found'
  <2>1. ASSUME NEW e \in Exec, Others(e), run'[e].pc # "looked"
        PROVE  Found'
    <3> SUFFICES ASSUME NEW f \in Exec, run'[f].pc = "looked", ~ run'[f].created
                 PROVE  Exists(run[f].rev)'
      OBVIOUS
    <3>1. run'[f] = run[f]
      BY <2>1 DEF Others
    <3>2. run[f].rev \in Review /\ Exists(run[f].rev)
      BY <1>0, <3>1 DEF LookupIsFresh
    <3>3. run[f].rev \in Rows'
      BY <1>0, <3>2
    <3> QED BY <3>1, <3>3 DEF Rows, Exists
  <2>2. ASSUME NEW e \in Exec, PauseMove(e)
        PROVE  Found'
    <3> SUFFICES ASSUME NEW f \in Exec, run'[f].pc = "looked", ~ run'[f].created
                 PROVE  Exists(run[f].rev)'
      OBVIOUS
    <3>1. CASE f = e
      BY <2>2, <3>1 DEF PauseMove, Exists
    <3>2. CASE f # e
      BY <1>0, <2>2, <3>2 DEF PauseMove, Others, Exists
    <3> QED BY <3>1, <3>2
  <2>3. ASSUME UNCHANGED run PROVE Found'
    <3> SUFFICES ASSUME NEW f \in Exec, run'[f].pc = "looked", ~ run'[f].created
                 PROVE  Exists(run[f].rev)'
      OBVIOUS
    <3>1. run[f].rev \in Review /\ Exists(run[f].rev)
      BY <1>0, <2>3 DEF LookupIsFresh
    <3>2. run[f].rev \in Rows'
      BY <1>0, <3>1
    <3> QED BY <2>3, <3>2 DEF Rows, Exists
  <2>4. ASSUME NEW e \in Exec,
               \/ NodeMove(e) \/ JudgmentMove(e) \/ EndMove(e) \/ CommitMove(e)
               \/ ResumeMove(e) \/ StartMove(e) \/ CrashMove(e)
        PROVE  Others(e) /\ run'[e].pc # "looked"
    BY <2>4 DEF NodeMove, JudgmentMove, EndMove, CommitMove, ResumeMove, StartMove,
                CrashMove, ToNode, Node
  <2>5. ASSUME NEW h \in Handler, GuardMove(h)
        PROVE  h \in Exec /\ Others(h) /\ run'[h].pc # "looked"
    BY <2>5 DEF GuardMove, Exec
  <2>6. JobMove => run'[ResumeJob].pc # "looked"
    BY DEF JobMove, Node
  <2>7. ASSUME JobMove PROVE ResumeJob \in Exec /\ Others(ResumeJob)
    BY <2>7 DEF JobMove, Exec
  <2>8. ASSUME \/ JobOver \/ UNCHANGED vars
               \/ \E d \in Reviewer :
                    ReadMove(d) \/ DecideMove(d) \/ EnqueueMove(d) \/ LostMove(d)
        PROVE  UNCHANGED run
    BY <2>8 DEF JobOver, vars, ReadMove, DecideMove, EnqueueMove, LostMove
  <2> HIDE DEF Found
  <2> QED BY <2>1, <2>2, <2>3, <2>4, <2>5, <2>6, <2>7, <2>8, StepMoves
<1>2. Read' /\ Approved'
  <2>1. CASE UNCHANGED <<review, decided>> /\
             \A d \in Reviewer : desk'[d].st = "read" => desk'[d] = desk[d]
    BY <1>0, <2>1 DEF Open, Rows, Exists
  <2>2. ASSUME NEW d \in Reviewer, ReadMove(d) PROVE Read' /\ Approved'
    BY <1>0, <2>2 DEF ReadMove, OthersOfDesk, OneRequest, Open, Rows, Exists
  <2>3. ASSUME NEW d \in Reviewer, DecideMove(d) PROVE Read' /\ Approved'
    <3> DEFINE q == desk[d].rev
    <3>1. Open(q) /\ q \in Rows /\ q \in Review
      BY <1>0, <2>3 DEF DecideMove, Rows
    <3>2. Read'
      BY <2>3 DEF DecideMove, OneRequest
    <3>3. q \in Rows' /\ review'[q].resolution = desk[d].resolution
      BY <1>0, <2>3, <3>1 DEF DecideMove
    <3>4. review[q].resolution # "approve"
      BY <3>1 DEF ReviewInv, ResolvedHasResolution, Open
    <3>5. Approved'
      <4>1. CASE desk[d].resolution = "approve"
        BY <3>3, <4>1
      <4>2. CASE desk[d].resolution # "approve"
        <5>1. "approve" \in decided' => "approve" \in decided
          BY <2>3, <4>2 DEF DecideMove
        <5>2. \A r \in Rows : review[r].resolution = "approve" => review'[r] = review[r]
          BY <2>3, <3>4 DEF DecideMove, Rows
        <5> QED BY <1>0, <5>1, <5>2
      <4> QED BY <4>1, <4>2
    <3> QED BY <3>2, <3>5
  <2>4. ASSUME NEW e \in Exec, CommitMove(e) PROVE Read' /\ Approved'
    <3>1. UNCHANGED <<desk, decided>>
      BY <2>4 DEF CommitMove
    <3>2. \A r \in Rows : review'[r] = review[r]
      BY <1>0, <2>4 DEF CommitMove, LookupIsFresh, Rows
    <3>3. \A r \in Review : Open(r) => r \in Rows
      BY DEF Open, Rows, Exists
    <3> QED BY <1>0, <3>1, <3>2, <3>3 DEF RequestHasRead, Open
  <2>5. \/ UNCHANGED <<review, decided>> /\
             \A d \in Reviewer : desk'[d].st = "read" => desk'[d] = desk[d]
        \/ \E e \in Exec : CommitMove(e)
        \/ \E d \in Reviewer : ReadMove(d) \/ DecideMove(d)
    BY StepMoves DEF NodeMove, JudgmentMove, EndMove, PauseMove, ResumeMove,
         StartMove, CrashMove, GuardMove, JobMove, JobOver, EnqueueMove,
         LostMove, OthersOfDesk, vars
  <2> HIDE DEF Read, Approved
  <2> QED BY <2>1, <2>2, <2>3, <2>4, <2>5
<1> QED BY <1>1, <1>2 DEF ApprovalStands

LEMMA NextWaiting ==
  ASSUME StartedOnce, OneRequest, ReviewInv, OnceInv, ApprovalStands,
         WaitingBatchHasReview, [Next]_vars
  PROVE  WaitingBatchHasReview'
<1> DEFINE Has == \E r \in Review : Exists(r) /\ review[r].resolution # "reject"
<1>0. (status = "batch_hitl_wait" => Has) /\ LookupIsFresh
  BY DEF WaitingBatchHasReview, ReviewInv
<1>1. CASE UNCHANGED <<status, review>>
  BY <1>0, <1>1 DEF WaitingBatchHasReview, Exists
<1>2. CASE status' # "batch_hitl_wait"
  BY <1>2 DEF WaitingBatchHasReview
<1>3. ASSUME NEW d \in Reviewer, DecideMove(d)
      PROVE  WaitingBatchHasReview'
  <2> DEFINE q == desk[d].rev
  <2>1. CASE desk[d].resolution = "reject"
    BY <1>2, <1>3, <2>1 DEF DecideMove
  <2>2. CASE desk[d].resolution # "reject"
    <3>1. /\ q \in Review /\ review'[q].st = "hitl_resolved"
          /\ review'[q].resolution # "reject"
      BY <1>3, <2>2 DEF DecideMove, Rows
    <3> QED BY <3>1 DEF WaitingBatchHasReview, Exists
  <2> QED BY <2>1, <2>2
<1>4. ASSUME NEW e \in Exec, CommitMove(e)
      PROVE  Has'
  <2>1. run[e].pc = "looked" /\ run[e].rev \in Review
    BY <1>0, <1>4 DEF CommitMove, LookupIsFresh
  <2>2. CASE run[e].created
    BY <1>4, <2>1, <2>2 DEF CommitMove, Exists
  <2>3. CASE ~ run[e].created
    \* The HITL worker is past an approval; without one the only start of the
    \* graph is at its first pause, and finds no review.
    <3>1. run[e].rev \in Rows
      BY <2>1, <2>3 DEF ApprovalStands, Rows
    <3>2. e = ResumeJob
      BY <2>1, <3>1 DEF OnceInv, StartPrecedesReview, StartedOnce, Exec
    <3>3. "approve" \in decided
      BY <2>1, <3>2 DEF OnceInv, ResumeFollowsReview, ApprovalIsRecorded, Active
    <3>4. PICK r \in Rows : review[r].resolution = "approve"
      BY <3>3 DEF ApprovalStands
    <3>5. UNCHANGED review
      BY <1>4, <2>3 DEF CommitMove
    <3> QED BY <3>4, <3>5 DEF Rows, Exists
  <2> QED BY <2>2, <2>3
<1>5. \/ UNCHANGED <<status, review>>
      \/ status' = "batch_processing"
      \/ \E d \in Reviewer : DecideMove(d)
      \/ \E e \in Exec : CommitMove(e)
  <2>1. \/ \E e \in Exec : ResumeMove(e)
        \/ UNCHANGED <<status, review>>
        \/ \E d \in Reviewer : DecideMove(d)
        \/ \E e \in Exec : CommitMove(e)
    BY StepMoves DEF NodeMove, JudgmentMove, EndMove, PauseMove, StartMove,
         CrashMove, GuardMove, JobMove, JobOver, ReadMove, EnqueueMove, LostMove,
         vars, batchRow
  <2> QED BY <2>1 DEF ResumeMove
<1> QED BY <1>1, <1>2, <1>3, <1>4, <1>5 DEF WaitingBatchHasReview

\* When the graph is started once and requests come one at a time, with any
\* number of faults, a batch that waits has a review that was not rejected
\* (pause_batch_for_review and create_pending_hitl_review in one transaction,
\* resolve_batch's UPDATE of a batch that waits).
THEOREM WaitingHasReview ==
  ASSUME StartedOnce, OneRequest
  PROVE  Spec => []WaitingBatchHasReview
<1>1. Init => ApprovalStands /\ WaitingBatchHasReview
  <2> SUFFICES ASSUME Init PROVE ApprovalStands /\ WaitingBatchHasReview
    OBVIOUS
  <2>1. (\A e \in Exec : run[e].pc = "idle") /\ \A d \in Reviewer : desk[d].st = "idle"
    BY DEF Init, IdleRun, IdleDesk
  <2>2. decided = {}
    BY DEF Init
  <2>3. ApprovalStands
    BY <2>1, <2>2 DEF ApprovalStands
  <2>4. status = "batch_hitl_wait" =>
          \E r \in Review : review[r].st # "absent" /\ review[r].resolution = "none"
    BY DEF Init, PendingRow
  <2> QED BY <2>3, <2>4 DEF WaitingBatchHasReview, Exists
<1>2. ReviewInv /\ OnceInv /\ ApprovalStands /\ WaitingBatchHasReview /\ [Next]_vars
        => ApprovalStands' /\ WaitingBatchHasReview'
  BY NextStands, NextWaiting
<1>3. ReviewInv /\ OnceInv /\ [Next]_vars => OnceInv'
  BY NextOnce
<1> QED BY <1>1, <1>2, <1>3, InitOnce, ReviewInvariant, PTL DEF Spec

\* With the same provisos the checkpoint, the batches row and the review queue
\* agree on a pause.
THEOREM PauseVisible ==
  ASSUME StartedOnce, OneRequest
  PROVE  Spec => []PauseIsVisible
<1>1. WaitingBatchHasReview /\ InterruptIsVisible => PauseIsVisible
  BY DEF PauseIsVisible
<1> QED BY <1>1, WaitingHasReview, InterruptVisible, PTL

-----------------------------------------------------------------------------
(* No judgment while a human is owed *)

\* Until something fails, what is owed is held: see OwedIsHeld.
OwedInv == faults = 0 => OwedIsHeld

\* A node that asks for a human finds every other execution over, or at its end.
LEMMA NodeOwed ==
  ASSUME StartedOnce, ReviewInv, OnceInv, OwedIsHeld, NEW e \in Exec, NodeMove(e)
  PROVE  OwedIsHeld'
<1>0. ResumeJob \in Exec /\ ResumeJob \notin Handler
      /\ \A f \in Exec : f \in Handler \cup {ResumeJob}
  BY ExecAssumption DEF Exec, StartedOnce
<1>1. Active(e) /\ ~ owed
  BY DEF NodeMove, Active, OwedIsHeld
<1> SUFFICES ASSUME owed' PROVE OwedIsHeld'
  BY DEF OwedIsHeld
<1>2. run'[e].pc = "hitl_interrupt" /\ ~ run'[e].answer /\ Others(e)
        /\ UNCHANGED <<review, job, desk, decided>>
  BY <1>1 DEF NodeMove, ToNode
<1>3. CASE e = ResumeJob
  <2>1. job.st = "running" /\ "approve" \in decided /\ Rows # {}
    BY <1>1, <1>3 DEF OnceInv, ResumeFollowsReview, ApprovalIsRecorded
  <2>2. \A h \in Handler : run[h].pc \in {"committed", "done", "idle"} /\ ~ run[h].answer
    BY <1>0, <2>1 DEF OnceInv, StartPrecedesReview, AnswersAreResumes, Exec
  <2>3. \A f \in Exec \ {e} : run'[f].pc \in {"committed", "done", "idle"}
                              /\ ~ run'[f].answer
    BY <1>0, <1>2, <1>3, <2>2 DEF Others
  <2>4. Rows' # {} /\ job'.st = "running"
    BY <1>2, <2>1 DEF Rows, Exists
  <2> QED BY <1>2, <2>3, <2>4 DEF OwedIsHeld
<1>4. CASE e # ResumeJob
  <2>1. e \in Handler /\ \A h \in Handler : h = e
    BY <1>0, <1>4 DEF StartedOnce
  <2>2. Rows = {}
    BY <2>1 DEF NodeMove, OnceInv, StartPrecedesReview
  <2>3. run[ResumeJob].pc \in {"idle", "done"} /\ "approve" \notin decided
    BY <2>2, IdleBeforeReview DEF OnceInv, Active
  <2>4. \A f \in Exec \ {e} : run'[f].pc \in {"idle", "done"}
    BY <1>0, <1>2, <2>1, <2>3 DEF Others
  <2>5. /\ job'.resolution # "approve"
        /\ \A d \in Reviewer : ~ (desk'[d].st = "committed" /\ desk'[d].resolution = "approve")
    BY <1>2, <2>3 DEF OnceInv, ApprovalIsRecorded
  <2> QED BY <1>2, <2>1, <2>4, <2>5 DEF OwedIsHeld
<1> QED BY <1>3, <1>4

\* A step of one execution from one allowed point to the next.
LEMMA HeldStep ==
  ASSUME OwedIsHeld, UNCHANGED <<owed, job, desk>>, Rows \subseteq Rows',
         NEW e \in Exec, Others(e),
         owed => \/ run'[e].pc = "done"
                 \/ /\ run'[e].pc \in {"hitl_interrupt", "paused", "looked", "committed"}
                    /\ ~ run'[e].answer
  PROVE  OwedIsHeld'
<1>1. \A h \in Handler : h \in Exec
  BY DEF Exec
<1> QED BY <1>1 DEF OwedIsHeld, Others

LEMMA NextOwed ==
  ASSUME StartedOnce, ReviewInv, OnceInv, OwedInv, [Next]_vars
  PROVE  OwedInv'
<1> SUFFICES ASSUME faults' = 0 PROVE OwedIsHeld'
  BY DEF OwedInv
<1>0. /\ OwedIsHeld /\ Rows \subseteq Rows'
      /\ ResumeJob \in Exec /\ ResumeJob \notin Handler
      /\ \A h \in Handler : h \in Exec
  BY FaultsGrow, RowsStay, ExecAssumption DEF OwedInv, Exec
<1>1. ASSUME NEW e \in Exec, NodeMove(e)
      PROVE  OwedIsHeld'
  BY <1>0, <1>1, NodeOwed
<1>2. ASSUME NEW e \in Exec, JudgmentMove(e) \/ PauseMove(e) \/ CommitMove(e)
                               \/ ResumeMove(e)
      PROVE  OwedIsHeld'
  <2>1. UNCHANGED <<owed, job, desk>> /\ Others(e)
    BY <1>2 DEF JudgmentMove, PauseMove, CommitMove, ResumeMove
  <2>2. owed => /\ run'[e].pc \in {"hitl_interrupt", "paused", "looked", "committed"}
                /\ ~ run'[e].answer
    BY <1>0, <1>2 DEF JudgmentMove, PauseMove, CommitMove, ResumeMove, OwedIsHeld
  <2> QED BY <1>0, <2>1, <2>2, HeldStep
<1>3. ASSUME NEW e \in Exec, StartMove(e)
      PROVE  OwedIsHeld'
  <2>1. ~ owed
    BY <1>0, <1>3 DEF StartMove, OwedIsHeld, StartedOnce
  <2> QED BY <2>1, <1>3 DEF StartMove, OwedIsHeld
<1>4. ASSUME NEW e \in Exec, EndMove(e)
      PROVE  OwedIsHeld'
  <2>1. /\ UNCHANGED <<owed, desk>> /\ Others(e)
        /\ run'[e].pc = (IF e = ResumeJob THEN "idle" ELSE "done")
        /\ job' = IF e = ResumeJob THEN RetainedJob ELSE job
    BY <1>4 DEF EndMove
  <2> QED BY <1>0, <2>1 DEF OwedIsHeld, Others, RetainedJob
<1>5. ASSUME NEW h \in Handler, GuardMove(h)
      PROVE  OwedIsHeld'
  <2>1. owed => run'[h].pc = "done"
    BY <1>0, <1>5 DEF GuardMove, OwedIsHeld, OnceInv, StartPrecedesReview
  <2>2. UNCHANGED <<owed, job, desk>> /\ Others(h)
    BY <1>5 DEF GuardMove
  <2> QED BY <1>0, <2>1, <2>2, HeldStep
<1>6. CASE JobMove
  <2>1. ~ owed
    BY <1>0, <1>6 DEF JobMove, OwedIsHeld
  <2> QED BY <2>1, <1>6 DEF JobMove, OwedIsHeld
<1>7. CASE JobOver
  <2>1. /\ job'.resolution = "none"
        /\ job'.st = "none" => \A d \in Reviewer : desk[d].st # "committed"
        /\ UNCHANGED <<owed, desk, run, review>>
    BY <1>7 DEF JobOver, RetainedJob, NoJob
  <2> QED BY <1>0, <2>1 DEF OwedIsHeld
<1>8. ASSUME NEW d \in Reviewer, ReadMove(d)
      PROVE  OwedIsHeld'
  <2>1. /\ UNCHANGED <<owed, job, run>>
        /\ \A c \in Reviewer : desk'[c].st = "committed" => desk'[c] = desk[c]
    BY <1>8 DEF ReadMove, OthersOfDesk
  <2> QED BY <1>0, <2>1 DEF OwedIsHeld
<1>9. ASSUME NEW d \in Reviewer, DecideMove(d)
      PROVE  OwedIsHeld'
  <2>1. CASE desk[d].resolution = "approve"
    BY <1>9, <2>1 DEF DecideMove, OwedIsHeld
  <2>2. CASE desk[d].resolution # "approve"
    <3>1. /\ UNCHANGED <<owed, job, run>>
          /\ desk'[d].resolution # "approve"
          /\ \A c \in Reviewer \ {d} : desk'[c] = desk[c]
      BY <1>9, <2>2 DEF DecideMove, OthersOfDesk, ReviewInv, TypeOK
    <3> QED BY <1>0, <3>1 DEF OwedIsHeld
  <2> QED BY <2>1, <2>2
<1>10. ASSUME NEW d \in Reviewer, EnqueueMove(d)
       PROVE  OwedIsHeld'
  <2>1. /\ UNCHANGED <<owed, run>>
        /\ \A c \in Reviewer : desk'[c].st = "committed" => desk'[c] = desk[c]
    BY <1>10 DEF EnqueueMove, OthersOfDesk
  <2>2. CASE job.st = "none"
    <3>1. /\ job'.st = "queued" /\ job'.resolution = desk[d].resolution
          /\ desk[d].st = "committed"
      BY <1>10, <2>2 DEF EnqueueMove
    <3> QED BY <1>0, <2>1, <2>2, <3>1 DEF OwedIsHeld
  <2>3. CASE job.st # "none"
    <3>1. job' = job
      BY <1>10, <2>3 DEF EnqueueMove
    <3> QED BY <1>0, <2>1, <2>3, <3>1 DEF OwedIsHeld
  <2> QED BY <2>2, <2>3
<1>11. CASE UNCHANGED vars
  BY <1>0, <1>11 DEF vars, OwedIsHeld
<1>12. /\ ~ \E e \in Exec : CrashMove(e)
       /\ ~ \E d \in Reviewer : LostMove(d)
  BY DEF CrashMove, LostMove
<1> QED BY <1>1, <1>2, <1>3, <1>4, <1>5, <1>6, <1>7, <1>8, <1>9, <1>10, <1>11,
           <1>12, StepMoves

\* When the graph is started once, and until something fails, no judgment is
\* passed while a human is owed, however many decision requests race and whatever
\* the nodes find: the supervisor recomputes the route after every node, and an
\* approval reaches the interrupt it was given for.
THEOREM JudgmentIsNotOwed ==
  ASSUME StartedOnce
  PROVE  Spec => []NoJudgmentOwed
<1>1. Init => OwedInv
  <2> SUFFICES ASSUME Init PROVE OwedIsHeld
    BY DEF OwedInv
  <2>1. \A e \in Exec : run[e].pc = "idle"
    BY DEF Init, IdleRun
  <2>2. owed => Rows # {}
    BY DEF Init, Rows, Exists, PendingRow
  <2>3. job.resolution = "none" /\ \A d \in Reviewer : desk[d].st = "idle"
    BY DEF Init, NoJob, IdleDesk
  <2> QED BY <2>1, <2>2, <2>3 DEF OwedIsHeld
<1>2. ReviewInv /\ OnceInv /\ OwedInv /\ [Next]_vars => OnceInv' /\ OwedInv'
  BY NextOnce, NextOwed
<1>3. OwedInv => NoJudgmentOwed
  BY DEF OwedInv, OwedIsHeld, NoJudgmentOwed
<1> QED BY <1>1, <1>2, <1>3, InitOnce, ReviewInvariant, PTL DEF Spec
=============================================================================
