---------------------------- MODULE BatchPipeline ----------------------------
(***************************************************************************)
(* The life of one batch: the LangGraph pipeline that judges it, the human *)
(* review (HITL) that interrupts the pipeline, and the queue that resumes  *)
(* it.  Everything the code keys by batch id (the LangGraph thread, the    *)
(* batches row, the hitl_reviews rows, the ARQ job ids) belongs to exactly *)
(* one batch, so batches are independent and one of them is modelled.      *)
(*                                                                         *)
(* A graph execution is a call of ainvoke in some process: an event        *)
(* handler of a web worker, the pipeline worker, or the HITL worker.  The  *)
(* executions run concurrently; a step of one is a database transaction, a *)
(* statement of a longer transaction, or the write of a checkpoint.        *)
(***************************************************************************)
EXTENDS Naturals

CONSTANTS
  Handler,      \* event deliveries that may start the graph, one per event and web worker
  PipelineJob,  \* the job pipeline:{batch_id} of the pipeline worker: one or none
  ResumeJob,    \* the execution of the job hitl_resume:{batch_id} in the HITL worker
  Reviewer,     \* decision requests that may be under way at the same time
  Review,       \* identities the rows of hitl_reviews may take (a bound)
  Origins,      \* how the batch came to be in the database
  MaxFaults,    \* bound on crashes, timeouts and exceptions
  NoRun, NoReview

Exec == Handler \cup PipelineJob \cup {ResumeJob}

AllOrigins == {"created", "seed_compliance", "seed_risk"}

ASSUME ExecAssumption ==
  /\ ResumeJob \notin Handler \cup PipelineJob
  /\ Handler \cap PipelineJob = {}
  /\ NoRun \notin Handler \cup PipelineJob \cup {ResumeJob}
ASSUME ReviewAssumption == NoReview \notin Review
ASSUME BoundAssumption == Origins \subseteq AllOrigins /\ MaxFaults \in Nat

Stage == {"stage_queued", "stage_extraction", "stage_geo", "stage_compliance",
          "stage_risk", "stage_judgment"}
BatchStatus == {"batch_processing", "batch_hitl_wait", "batch_completed",
                "batch_rejected"}
Escalation == {"geographical_risk", "risk_escalated", "low_confidence"}
ErrorReason == Escalation \cup {"none"}
Resolution == {"approve", "reject", "escalate"}
Reason == {"gray_zone", "risk_escalated"}
Node == {"data_gateway", "geo_audit", "compliance", "risk_scoring",
         "final_judgment", "completed", "hitl_interrupt"}

VARIABLES
  status,    \* batches.status
  stageCol,  \* batches.current_stage
  rowLock,   \* the execution whose open transaction holds the batches row
  review,    \* hitl_reviews: the committed rows of the batch
  thread,    \* the latest checkpoint of the LangGraph thread
  run,       \* the graph executions
  job,       \* the ARQ job (or retained result) with id hitl_resume:{batch_id}
  desk,      \* the decision requests under way
  decided,   \* resolutions recorded in audit_trail by hitl_human_review
  owed,      \* history: a node asked for a human and nobody has approved since
  faults

batchRow == <<status, stageCol, rowLock>>
vars == <<status, stageCol, rowLock, review, thread, run, job, desk, decided,
          owed, faults>>

-----------------------------------------------------------------------------
(* States *)

\* Control points of an execution.  A node's name means the node is about to
\* run; the others lie inside on_submission_approved, hitl_interrupt_node,
\* final_judgment_node and resume_graph.
RunPoint == Node \cup {"idle", "guarded", "paused", "looked", "committed",
                       "resumed", "judged", "loaded", "done"}

RunState == [pc : RunPoint, stage : Stage, err : ErrorReason,
             suppliers : BOOLEAN,              \* extraction_result names suppliers
             answer : BOOLEAN,                 \* a resume value awaits the interrupt
             rev : Review \cup {NoReview}, created : BOOLEAN]

ThreadState == [st : {"none", "live", "interrupted", "ended"},
                stage : Stage, err : ErrorReason, suppliers : BOOLEAN,
                by : Exec \cup {NoRun}]         \* the execution that wrote it

ReviewState == [st : {"absent", "hitl_pending", "hitl_resolved"},
                reason : Reason, stage : Stage,
                resolution : Resolution \cup {"none"}]

JobState == [st : {"none", "queued", "running", "retained"},
             resolution : Resolution \cup {"none"}]

DeskState == [st : {"idle", "read", "committed"}, rev : Review \cup {NoReview},
              resolution : Resolution \cup {"none"}, enqueue : BOOLEAN]

IdleRun == [pc |-> "idle", stage |-> "stage_queued", err |-> "none",
            suppliers |-> FALSE, answer |-> FALSE, rev |-> NoReview,
            created |-> FALSE]
DoneRun == [IdleRun EXCEPT !.pc = "done"]
NoThread == [st |-> "none", stage |-> "stage_queued", err |-> "none",
             suppliers |-> FALSE, by |-> NoRun]
NoRow == [st |-> "absent", reason |-> "gray_zone", stage |-> "stage_queued",
          resolution |-> "none"]
NoJob == [st |-> "none", resolution |-> "none"]
RetainedJob == [st |-> "retained", resolution |-> "none"]
IdleDesk == [st |-> "idle", rev |-> NoReview,
             resolution |-> "none", enqueue |-> FALSE]

PendingRow(reason, stage) ==
  [st |-> "hitl_pending", reason |-> reason, stage |-> stage,
   resolution |-> "none"]

Open(r) == review[r].st = "hitl_pending"
Exists(r) == review[r].st # "absent"
Rows == {r \in Review : Exists(r)}
Active(e) == run[e].pc \notin {"idle", "done"}

\* A transaction that updates the batches row waits for the one that holds it.
RowFree == rowLock = NoRun

\* The batch is created by the submit endpoint, or is one of the two seeded
\* batches that wait for a review without a LangGraph thread behind them.
SeededStage(o) == IF o = "seed_risk" THEN "stage_risk" ELSE "stage_compliance"
SeededReason(o) == IF o = "seed_risk" THEN "risk_escalated" ELSE "gray_zone"

Init ==
  /\ \E o \in Origins :
       IF o = "created"
         THEN /\ status = "batch_processing"
              /\ stageCol = "stage_queued"
              /\ review = [r \in Review |-> NoRow]
              /\ owed = FALSE
         ELSE /\ status = "batch_hitl_wait"
              /\ stageCol = SeededStage(o)
              /\ \E r0 \in Review : review = [r \in Review |->
                   IF r = r0 THEN PendingRow(SeededReason(o), SeededStage(o))
                             ELSE NoRow]
              /\ owed = TRUE
  /\ rowLock = NoRun
  /\ thread = NoThread
  /\ run = [e \in Exec |-> IdleRun]
  /\ job = NoJob
  /\ desk = [d \in Reviewer |-> IdleDesk]
  /\ decided = {}
  /\ faults = 0

-----------------------------------------------------------------------------
(* The supervisor and the nodes *)

StageNode(stage) ==
  CASE stage = "stage_queued"     -> "data_gateway"
    [] stage = "stage_extraction" -> "geo_audit"
    [] stage = "stage_geo"        -> "compliance"
    [] stage = "stage_compliance" -> "risk_scoring"
    [] stage = "stage_risk"       -> "final_judgment"
    [] OTHER                      -> "completed"

RouteToReverify(stage, err) ==    \* mutant: low confidence goes to a node of an old design
  IF err = "low_confidence" THEN "supplier_reverify" ELSE StageNode(stage)

RouteIgnoringRisk(stage, err) ==  \* mutant: one of the error reasons is forgotten
  IF err \in Escalation \ {"risk_escalated"} THEN "hitl_interrupt"
                                             ELSE StageNode(stage)

\* An error reason sends the batch to a human; otherwise the stage decides.
Route(stage, err) ==
  IF err \in Escalation THEN "hitl_interrupt" ELSE StageNode(stage)

Checkpoint(e, st, s) ==
  [st |-> st, stage |-> s.stage, err |-> s.err, suppliers |-> s.suppliers,
   by |-> e]

\* A node returns state s: the checkpointer stores it and the supervisor routes.
Proceed(e, s) ==
  /\ run' = [run EXCEPT ![e] =
               [s EXCEPT !.pc = Route(s.stage, s.err), !.answer = FALSE,
                         !.rev = NoReview, !.created = FALSE]]
  /\ thread' = Checkpoint(e, "live", s)

\* ainvoke returns or raises.  ARQ keeps the result of the resume job for an
\* hour, and with it the job id.
EndRun(e) ==
  /\ run' = [run EXCEPT ![e] = IF e = ResumeJob THEN IdleRun ELSE DoneRun]
  /\ job' = IF e = ResumeJob THEN RetainedJob ELSE job

\* A node other than hitl_interrupt returns with the given stage and reason.
NodeReturns(e, stage, err, suppliers) ==
  /\ Proceed(e, [run[e] EXCEPT !.stage = stage, !.err = err,
                               !.suppliers = suppliers])
  /\ owed' = (owed \/ err # "none")
  /\ UNCHANGED <<batchRow, review, job, desk, decided, faults>>

\* Low confidence, missing fields or no extraction results ask for a human;
\* without a supply chain there are no suppliers either.
DataGateway(e) ==
  /\ run[e].pc = "data_gateway"
  /\ \E err \in {"none", "low_confidence"}, suppliers \in BOOLEAN :
       /\ err = "none" => suppliers
       /\ NodeReturns(e, "stage_extraction", err, suppliers)

\* The reason already in the state is kept when no risk is found.
GeoAudit(e) ==
  /\ run[e].pc = "geo_audit"
  /\ \E err \in {run[e].err, "geographical_risk"} :
       NodeReturns(e, "stage_geo", err, run[e].suppliers)

\* Skipped when no regulation applies; otherwise a judge may ask for a human.
Compliance(e) ==
  /\ run[e].pc = "compliance"
  /\ \E err \in {run[e].err, "none", "low_confidence"} :
       NodeReturns(e, "stage_compliance", err, run[e].suppliers)

RiskScoring(e) ==
  /\ run[e].pc = "risk_scoring"
  /\ run[e].suppliers
  /\ \E err \in {run[e].err, "risk_escalated"} :
       NodeReturns(e, "stage_risk", err, TRUE)

\* extraction_result without supplier_ids: the node raises and the run is over.
RiskScoringRaises(e) ==
  /\ run[e].pc = "risk_scoring"
  /\ ~ run[e].suppliers
  /\ EndRun(e)
  /\ UNCHANGED <<batchRow, review, thread, desk, decided, owed, faults>>

\* The judgment and batches.current_stage are committed together ...
FinalJudgment(e) ==
  /\ run[e].pc = "final_judgment"
  /\ RowFree
  /\ stageCol' = "stage_judgment"
  /\ run' = [run EXCEPT ![e].pc = "judged"]
  /\ UNCHANGED <<status, rowLock, review, thread, job, desk, decided, owed,
                 faults>>

\* ... and the checkpoint follows.
FinalJudgmentReturns(e) ==
  /\ run[e].pc = "judged"
  /\ NodeReturns(e, "stage_judgment", run[e].err, run[e].suppliers)

\* completed_node changes the graph state only; the graph is at its end.
Completed(e) ==
  /\ run[e].pc = "completed"
  /\ thread' = Checkpoint(e, "ended", run[e])
  /\ EndRun(e)
  /\ UNCHANGED <<batchRow, review, desk, decided, owed, faults>>

-----------------------------------------------------------------------------
(* hitl_interrupt_node *)

HitlPauseUnlocked(e) ==   \* mutant: the row is updated after the lookup, not before
  /\ run[e].pc = "hitl_interrupt"
  /\ run' = [run EXCEPT ![e].pc = "paused"]
  /\ UNCHANGED <<batchRow, review, thread, job, desk, decided, owed, faults>>

\* pause_batch_for_review: the UPDATE takes the row and keeps it to the commit.
HitlPause(e) ==
  /\ run[e].pc = "hitl_interrupt"
  /\ RowFree
  /\ rowLock' = e
  /\ run' = [run EXCEPT ![e].pc = "paused"]
  /\ UNCHANGED <<status, stageCol, review, thread, job, desk, decided, owed,
                 faults>>

ReviewReason(err) ==
  IF err = "risk_escalated" THEN "risk_escalated" ELSE "gray_zone"

\* r is a committed open review for the reason and stage execution e stopped at.
Matches(e, r) ==
  /\ Open(r)
  /\ review[r].reason = ReviewReason(run[e].err)
  /\ review[r].stage = run[e].stage

Reserved(r) == \E e \in Exec : run[e].rev = r

\* create_pending_hitl_review: one statement finds an open review or inserts a
\* row, which others see only after the commit.
HitlLookup(e) ==
  /\ run[e].pc = "paused"
  /\ \E r \in Review :
       \/ /\ Matches(e, r)
          /\ run' = [run EXCEPT ![e].pc = "looked", ![e].rev = r,
                                ![e].created = FALSE]
       \/ /\ \A q \in Review : ~ Matches(e, q)
          /\ ~ Exists(r) /\ ~ Reserved(r)
          /\ run' = [run EXCEPT ![e].pc = "looked", ![e].rev = r,
                                ![e].created = TRUE]
  /\ UNCHANGED <<batchRow, review, thread, job, desk, decided, owed, faults>>

HitlCommitHoldsRow(e) ==   \* mutant: the transaction is left open
  /\ run[e].pc = "looked"
  /\ status' = "batch_hitl_wait"
  /\ review' = IF run[e].created
                 THEN [review EXCEPT ![run[e].rev] =
                         PendingRow(ReviewReason(run[e].err), run[e].stage)]
                 ELSE review
  /\ run' = [run EXCEPT ![e].pc = "committed", ![e].rev = NoReview,
                        ![e].created = FALSE]
  /\ UNCHANGED <<stageCol, rowLock, thread, job, desk, decided, owed, faults>>

HitlCommitKeepsStatus(e) ==   \* mutant: the pause is not written
  /\ run[e].pc = "looked"
  /\ rowLock' = NoRun
  /\ review' = IF run[e].created
                 THEN [review EXCEPT ![run[e].rev] =
                         PendingRow(ReviewReason(run[e].err), run[e].stage)]
                 ELSE review
  /\ run' = [run EXCEPT ![e].pc = "committed", ![e].rev = NoReview,
                        ![e].created = FALSE]
  /\ UNCHANGED <<status, stageCol, thread, job, desk, decided, owed, faults>>

\* The pause and the review become visible together and the row is released.
HitlCommit(e) ==
  /\ run[e].pc = "looked"
  /\ status' = "batch_hitl_wait"
  /\ rowLock' = NoRun
  /\ review' = IF run[e].created
                 THEN [review EXCEPT ![run[e].rev] =
                         PendingRow(ReviewReason(run[e].err), run[e].stage)]
                 ELSE review
  /\ run' = [run EXCEPT ![e].pc = "committed", ![e].rev = NoReview,
                        ![e].created = FALSE]
  /\ UNCHANGED <<stageCol, thread, job, desk, decided, owed, faults>>

\* interrupt() without a resume value stops the graph at this node.  It marks
\* the checkpoint the execution works on, which may no longer be the latest.
HitlInterrupt(e) ==
  /\ run[e].pc = "committed"
  /\ ~ run[e].answer
  /\ thread' = IF thread.by = e THEN [thread EXCEPT !.st = "interrupted"]
                               ELSE thread
  /\ EndRun(e)
  /\ UNCHANGED <<batchRow, review, desk, decided, owed, faults>>

\* interrupt() returns the resume value: the node has replayed from its start.
HitlAnswered(e) ==
  /\ run[e].pc = "committed"
  /\ run[e].answer
  /\ RowFree
  /\ status' = "batch_processing"
  /\ run' = [run EXCEPT ![e].pc = "resumed"]
  /\ UNCHANGED <<stageCol, rowLock, review, thread, job, desk, decided, owed,
                 faults>>

\* The node returns with the error reason cleared and the stage unchanged.
HitlReturns(e) ==
  /\ run[e].pc = "resumed"
  /\ Proceed(e, [run[e] EXCEPT !.err = "none"])
  /\ UNCHANGED <<batchRow, review, job, desk, decided, owed, faults>>

-----------------------------------------------------------------------------
(* Starting and resuming the graph *)

\* on_submission_approved reads batches.current_stage; the graph is invoked
\* afterwards, outside that transaction.
HandlerGuard(h) ==
  /\ run[h].pc = "idle"
  /\ run' = [run EXCEPT ![h] =
               IF stageCol = "stage_queued" THEN [IdleRun EXCEPT !.pc = "guarded"]
                                            ELSE DoneRun]
  /\ UNCHANGED <<batchRow, review, thread, job, desk, decided, owed, faults>>

\* start_graph: the input overwrites the stage of the thread, and what the
\* input does not name (error_reason, extraction_result) keeps its value.
StartGraph(e) ==
  /\ \/ e \in Handler /\ run[e].pc = "guarded"
     \/ e \in PipelineJob /\ run[e].pc = "idle"
  /\ Proceed(e, [IdleRun EXCEPT !.err = thread.err,
                                !.suppliers = thread.suppliers])
  /\ UNCHANGED <<batchRow, review, job, desk, decided, owed, faults>>

JobTaken == job.st = "queued" /\ run[ResumeJob].pc = "idle"

ResumeRefusedNever == FALSE   \* mutant: every resolution resumes

\* resume_graph returns at once unless the resolution is approve; on a thread
\* that has run to its end the resume command does nothing.
ResumeRefused == job.resolution # "approve" \/ thread.st = "ended"

ResumeNothing ==
  /\ JobTaken
  /\ ResumeRefused
  /\ job' = RetainedJob
  /\ UNCHANGED <<batchRow, review, thread, run, desk, decided, owed, faults>>

\* The graph goes on at its next node.  An interrupted thread receives the
\* resume value; on any other the value reaches the interrupt only if the
\* supervisor had already routed to it, and is lost if the supervisor runs first.
ResumeThread ==
  /\ JobTaken
  /\ ~ ResumeRefused
  /\ thread.st \in {"live", "interrupted"}
  /\ \E answer \in BOOLEAN :
       /\ thread.st = "interrupted" => answer
       /\ answer => Route(thread.stage, thread.err) = "hitl_interrupt"
       /\ thread' = IF answer THEN thread ELSE [thread EXCEPT !.by = ResumeJob]
       /\ run' = [run EXCEPT ![ResumeJob] =
                    [IdleRun EXCEPT !.pc = Route(thread.stage, thread.err),
                                    !.stage = thread.stage, !.err = thread.err,
                                    !.suppliers = thread.suppliers,
                                    !.answer = answer]]
  /\ job' = [job EXCEPT !.st = "running"]
  /\ UNCHANGED <<batchRow, review, desk, decided, owed, faults>>

\* Without a checkpoint the state is read from the batches row ...
ResumeLoadsRow ==
  /\ JobTaken
  /\ ~ ResumeRefused
  /\ thread.st = "none"
  /\ run' = [run EXCEPT ![ResumeJob] =
               [IdleRun EXCEPT !.pc = "loaded", !.stage = stageCol]]
  /\ job' = [job EXCEPT !.st = "running"]
  /\ UNCHANGED <<batchRow, review, thread, desk, decided, owed, faults>>

\* ... and the batch is set to processing before the graph is invoked anew.
ResumeRow(e) ==
  /\ run[e].pc = "loaded"
  /\ RowFree
  /\ status' = "batch_processing"
  /\ run' = [run EXCEPT ![e].pc = "resumed"]
  /\ UNCHANGED <<stageCol, rowLock, review, thread, job, desk, decided, owed,
                 faults>>

\* ARQ drops the retained result after keep_result and the job id is free
\* again.  The retention is an hour: no request takes that long from its commit
\* to its enqueue.
ResultExpires ==
  /\ job.st = "retained"
  /\ \A d \in Reviewer : desk[d].st # "committed"
  /\ job' = NoJob
  /\ UNCHANGED <<batchRow, review, thread, run, desk, decided, owed, faults>>

-----------------------------------------------------------------------------
(* Decision requests: resolve_batch and the endpoints that call it *)

\* Which decisions their endpoint enqueues: /resolve enqueues all but reject,
\* /review/{id}/decision neither reject nor escalate, /approve always.
MayEnqueue(resolution, enqueue) ==
  /\ resolution = "approve" => enqueue
  /\ resolution = "reject" => ~ enqueue

\* HitlStateMachine.resolve_review refuses a review that is already resolved.
Accepts(r) == Open(r)

\* A request addresses the batch or one of its reviews; get_by_batch_id returns
\* any review of the batch in either case, whichever was meant, and does not
\* lock it.
DecisionReads(d) ==
  /\ desk[d].st = "idle"
  /\ \E r \in Rows, resolution \in Resolution, enqueue \in BOOLEAN :
       /\ Accepts(r)
       /\ MayEnqueue(resolution, enqueue)
       /\ desk' = [desk EXCEPT ![d] =
                     [st |-> "read", rev |-> r, resolution |-> resolution,
                      enqueue |-> enqueue]]
  /\ UNCHANGED <<batchRow, review, thread, run, job, decided, owed, faults>>

RejectLeavesBatch(resolution) ==   \* mutant: reject leaves the batches row alone
  UNCHANGED status

\* UPDATE ... WHERE status = 'batch_hitl_wait': a batch that waits is rejected
\* once its row is free; in any other status the statement passes over it.
RejectBatch(resolution) ==
  IF resolution = "reject" /\ status = "batch_hitl_wait"
    THEN RowFree /\ status' = "batch_rejected"
    ELSE UNCHANGED status

EscalationReopens(d) ==   \* mutant: an escalated review goes back to the queue
  /\ desk[d].st = "read"
  /\ RejectBatch(desk[d].resolution)
  /\ review' = [review EXCEPT ![desk[d].rev] =
                  IF desk[d].resolution = "escalate"
                    THEN PendingRow(@.reason, @.stage)
                    ELSE [@ EXCEPT !.st = "hitl_resolved",
                                   !.resolution = desk[d].resolution]]
  /\ decided' = decided \cup {desk[d].resolution}
  /\ owed' = (owed /\ desk[d].resolution # "approve")
  /\ desk' = [desk EXCEPT ![d] = IF desk[d].enqueue
                                   THEN [IdleDesk EXCEPT !.st = "committed",
                                          !.resolution = desk[d].resolution]
                                   ELSE IdleDesk]
  /\ UNCHANGED <<stageCol, rowLock, thread, run, job, faults>>

\* The review read earlier is overwritten, the batch rejected with it if it
\* waits, and the decision recorded in the audit trail: one transaction.
DecisionCommits(d) ==
  /\ desk[d].st = "read"
  /\ RejectBatch(desk[d].resolution)
  /\ review' = [review EXCEPT ![desk[d].rev].st = "hitl_resolved",
                              ![desk[d].rev].resolution = desk[d].resolution]
  /\ decided' = decided \cup {desk[d].resolution}
  /\ owed' = (owed /\ desk[d].resolution # "approve")
  /\ desk' = [desk EXCEPT ![d] = IF desk[d].enqueue
                                   THEN [IdleDesk EXCEPT !.st = "committed",
                                          !.resolution = desk[d].resolution]
                                   ELSE IdleDesk]
  /\ UNCHANGED <<stageCol, rowLock, thread, run, job, faults>>

DecisionNotEnqueued(d) ==   \* mutant: the endpoint forgets to enqueue
  /\ desk[d].st = "committed"
  /\ desk' = [desk EXCEPT ![d] = IdleDesk]
  /\ UNCHANGED <<batchRow, review, thread, run, job, decided, owed, faults>>

\* The enqueue is dropped while a job, or a result, with the same id exists.
DecisionEnqueues(d) ==
  /\ desk[d].st = "committed"
  /\ job' = IF job.st = "none"
              THEN [st |-> "queued", resolution |-> desk[d].resolution]
              ELSE job
  /\ desk' = [desk EXCEPT ![d] = IdleDesk]
  /\ UNCHANGED <<batchRow, review, thread, run, decided, owed, faults>>

-----------------------------------------------------------------------------
(* Faults *)

ReleaseRow(e) == rowLock' = IF rowLock = e THEN NoRun ELSE rowLock

\* A node or a statement raises, or ARQ cancels the job at its timeout: the
\* open transaction is rolled back and the execution is not repeated.
RunFails(e) ==
  /\ Active(e)
  /\ faults < MaxFaults
  /\ faults' = faults + 1
  /\ ReleaseRow(e)
  /\ EndRun(e)
  /\ UNCHANGED <<status, stageCol, review, thread, desk, decided, owed>>

\* An ARQ worker dies: its job is run again from the start.
WorkerCrashes(e) ==
  /\ e \in PipelineJob \cup {ResumeJob}
  /\ Active(e)
  /\ faults < MaxFaults
  /\ faults' = faults + 1
  /\ ReleaseRow(e)
  /\ run' = [run EXCEPT ![e] = IdleRun]
  /\ job' = IF e = ResumeJob THEN [job EXCEPT !.st = "queued"] ELSE job
  /\ UNCHANGED <<status, stageCol, review, thread, desk, decided, owed>>

\* A web worker dies, or the client goes away, before the job is enqueued.
DecisionLost(d) ==
  /\ desk[d].st # "idle"
  /\ faults < MaxFaults
  /\ faults' = faults + 1
  /\ desk' = [desk EXCEPT ![d] = IdleDesk]
  /\ UNCHANGED <<batchRow, review, thread, run, job, decided, owed>>

-----------------------------------------------------------------------------
NodeStep(e) ==
  \/ DataGateway(e) \/ GeoAudit(e) \/ Compliance(e) \/ RiskScoring(e)
  \/ RiskScoringRaises(e) \/ FinalJudgment(e) \/ FinalJudgmentReturns(e)
  \/ Completed(e)

HitlStep(e) ==
  \/ HitlPause(e) \/ HitlLookup(e) \/ HitlCommit(e) \/ HitlInterrupt(e)
  \/ HitlAnswered(e) \/ HitlReturns(e) \/ ResumeRow(e)

RunStep(e) == NodeStep(e) \/ HitlStep(e) \/ StartGraph(e)

ResumeStarts == ResumeNothing \/ ResumeThread \/ ResumeLoadsRow

Fault ==
  \/ \E e \in Exec : RunFails(e) \/ WorkerCrashes(e)
  \/ \E d \in Reviewer : DecisionLost(d)

Next ==
  \/ \E e \in Exec : RunStep(e)
  \/ \E h \in Handler : HandlerGuard(h)
  \/ ResumeStarts
  \/ ResultExpires
  \/ \E d \in Reviewer : DecisionReads(d) \/ DecisionCommits(d) \/ DecisionEnqueues(d)
  \/ Fault

Spec == Init /\ [][Next]_vars

\* Processes that are up go on: executions, the workers' polling, a request
\* past its first read, and the clock that expires results.  Nobody is obliged
\* to decide, to submit, or to fail.
Fairness ==
  /\ \A e \in Exec : WF_vars(Active(e) /\ RunStep(e))
  /\ WF_vars(ResumeStarts)
  /\ WF_vars(ResultExpires)
  /\ \A d \in Reviewer : WF_vars(DecisionCommits(d) \/ DecisionEnqueues(d))

FairSpec == Spec /\ Fairness

-----------------------------------------------------------------------------
(* Properties *)

\* Every variable has its type.
TypeOK ==
  /\ status \in BatchStatus
  /\ stageCol \in Stage
  /\ rowLock \in Exec \cup {NoRun}
  /\ review \in [Review -> ReviewState]
  /\ thread \in ThreadState
  /\ run \in [Exec -> RunState]
  /\ job \in JobState
  /\ desk \in [Reviewer -> DeskState]
  /\ decided \in SUBSET Resolution
  /\ owed \in BOOLEAN
  /\ faults \in 0..MaxFaults

SameKey(q, r) ==
  review[q].reason = review[r].reason /\ review[q].stage = review[r].stage

\* However many executions stop at the same place at the same time, a reason
\* and stage never have two open reviews.  The table has no unique index; the
\* row that pause_batch_for_review updates first is what keeps the lookup and
\* the insert of create_pending_hitl_review of two transactions apart.
OneOpenReviewPerStage ==
  \A q, r \in Review : Open(q) /\ Open(r) /\ SameKey(q, r) => q = r

\* The HITL worker runs the graph for an approval and nothing else, and only
\* after the approval was committed to the audit trail, although /resolve
\* enqueues escalations under the same job id.
OnlyApprovalResumes ==
  job.st = "running" => job.resolution = "approve" /\ "approve" \in decided

\* When the graph is started once and decisions come one at a time, whatever
\* fails, a batch shown as waiting for a review has one that is open or was
\* approved or escalated: a rejection, however it races a pause, never leaves the
\* batch waiting behind rejected reviews only.
WaitingBatchHasReview ==
  status = "batch_hitl_wait" =>
    \E r \in Review : Exists(r) /\ review[r].resolution # "reject"

\* When the graph is started once, and until something fails, no judgment is
\* passed while a human was asked for and nobody has approved since, however
\* many decisions race.
NoJudgmentOwed ==
  faults = 0 =>
    \A e \in Exec : run[e].pc \in {"final_judgment", "judged"} => ~ owed

\* Until something fails, and however often the graph is started, a thread left
\* at its interrupt is visible as such in the batches row (and so in the review
\* queue), or the batch was rejected.
InterruptIsVisible ==
  faults = 0 /\ thread.st = "interrupted" /\ (\A e \in Exec : ~ Active(e)) =>
    status \in {"batch_hitl_wait", "batch_rejected"}

\* The three places that know of a pause, the checkpoint, the batches row and the
\* review queue, agree on it.
PauseIsVisible == WaitingBatchHasReview /\ InterruptIsVisible

\* The bound on reviews leaves no row to insert.
OutOfReviews == Rows = Review /\ \E e \in Exec : run[e].pc = "paused"

\* Every execution of the graph comes to its end, an interrupt or an error: no
\* execution waits for the batches row for ever, and routing does not cycle.
EveryRunSettles ==
  \A e \in Exec : Active(e) ~> ~ Active(e) \/ OutOfReviews

\* With one decision at a time and no faults, an approval that finds the job
\* id free takes the batch out of its wait.
FirstApprovalResumes ==
  \A d \in Reviewer :
    (/\ desk[d].st = "committed" /\ desk[d].resolution = "approve"
     /\ job.st = "none" /\ thread.st = "interrupted" /\ status = "batch_hitl_wait")
      ~> status # "batch_hitl_wait" \/ OutOfReviews

\* A request that has read holds a review that exists, and a resolution.
RequestHasRead ==
  \A d \in Reviewer : desk[d].st = "read" =>
    /\ desk[d].rev \in Review
    /\ Exists(desk[d].rev)
    /\ desk[d].resolution \in Resolution

\* From its update of the batches row to its commit, hitl_interrupt_node holds it.
PauseHoldsRow ==
  \A e \in Exec : run[e].pc \in {"paused", "looked"} => rowLock = e

\* What the lookup found missing is still missing when its transaction commits.
LookupIsFresh ==
  \A e \in Exec : run[e].pc = "looked" =>
    /\ run[e].rev \in Review
    /\ run[e].created => ~ Exists(run[e].rev) /\ \A r \in Review : ~ Matches(e, r)

\* A review has a resolution once it is resolved.
ResolvedHasResolution ==
  \A r \in Review :
    review[r].st = "hitl_resolved" <=> review[r].resolution # "none"

\* Wherever an approval waits, in a request or as a job, it has been recorded.
ApprovalIsRecorded ==
  /\ \A d \in Reviewer :
       desk[d].st = "committed" /\ desk[d].resolution = "approve" =>
         "approve" \in decided
  /\ job.resolution = "approve" => "approve" \in decided
  /\ job.st = "running" => job.resolution = "approve"

\* The inductive invariant: what the review table owes to the lock on the
\* batches row.  A lookup stays true until its commit although nothing locks
\* hitl_reviews, because every other pause waits for the row.
ReviewInv ==
  /\ TypeOK
  /\ RequestHasRead
  /\ PauseHoldsRow
  /\ LookupIsFresh
  /\ ResolvedHasResolution
  /\ OneOpenReviewPerStage

\* The graph is started by one delivery of one event and by no job.
StartedOnce == PipelineJob = {} /\ \A g, h \in Handler : g = h

\* No two decision requests are under way together.
OneRequest == \A c, d \in Reviewer : c = d

\* Only the HITL worker brings an answer to the interrupt.
AnswersAreResumes ==
  \A e \in Exec \ {ResumeJob} :
    ~ run[e].answer /\ run[e].pc \notin {"loaded", "resumed"}

\* An interrupted thread, and one about to be marked so, is shown by the row,
\* unless the HITL worker is past the interrupt with the answer.
PauseIsShown ==
  LET shown == \/ status \in {"batch_hitl_wait", "batch_rejected"}
               \/ run[ResumeJob].pc = "resumed"
  IN  /\ thread.st = "interrupted" => shown
      /\ \A e \in Exec : run[e].pc = "committed" /\ thread.by = e => shown

\* The HITL worker runs for its job, and approvals are of reviews.
ResumeFollowsReview ==
  /\ Active(ResumeJob) => job.st = "running"
  /\ "approve" \in decided => Rows # {}

\* When the graph is started once, its start is over when a review exists.
StartPrecedesReview ==
  Rows # {} =>
    \A h \in Handler :
      \/ run[h].pc \in {"committed", "done"}
      \/ run[h].pc = "idle" /\ stageCol # "stage_queued"

\* What a single request has read stays open until it commits, an approval is
\* not written over, and a review that a lookup found is not removed.
ApprovalStands ==
  /\ \A d \in Reviewer : desk[d].st = "read" => Open(desk[d].rev)
  /\ "approve" \in decided => \E r \in Rows : review[r].resolution = "approve"
  /\ \A e \in Exec : run[e].pc = "looked" /\ ~ run[e].created => Exists(run[e].rev)

\* While a human is owed, every execution is over or at its interrupt without an
\* answer, and an approval that waits to be enqueued or taken is none of the past.
OwedIsHeld ==
  /\ owed => \A e \in Exec :
       \/ run[e].pc \in {"idle", "done"}
       \/ /\ run[e].pc \in {"hitl_interrupt", "paused", "looked", "committed"}
          /\ ~ run[e].answer
  /\ owed => \A h \in Handler : run[h].pc = "idle" => Rows # {}
  /\ job.st = "queued" /\ job.resolution = "approve" => ~ owed
  /\ job.st = "none" => \A d \in Reviewer :
       desk[d].st = "committed" /\ desk[d].resolution = "approve" => ~ owed

\* The review table keeps the promise of ReviewGate.
Gate == INSTANCE ReviewGate WITH
          Key <- Reason \X Stage,
          opened <- Rows,
          key <- [r \in Review |-> <<review[r].reason, review[r].stage>>],
          decision <- [r \in Review |-> review[r].resolution]
GateSpec == Gate!Spec
=============================================================================
