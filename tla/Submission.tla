------------------------------ MODULE Submission ------------------------------
(***************************************************************************)
(* One data request to a supplier (a row of data_request_log): the calls   *)
(* of the endpoints that move it through its states, each with a session   *)
(* of its own, and the start of the pipeline for the batch it submits.     *)
(*                                                                         *)
(* transition_submission locks the row, checks the transition, and its     *)
(* caller commits: between lock and commit nobody else writes the row, so  *)
(* the three are one step.  But submit and approve have loaded the row     *)
(* before, and a session that has loaded a row keeps its values when a     *)
(* later SELECT ... FOR UPDATE returns the row again: they check what they *)
(* saw then.  Events are not replayed and may start the graph by           *)
(* themselves; BatchPipeline says what the graph does with them.           *)
(***************************************************************************)
EXTENDS Naturals

CONSTANTS
  Call,       \* requests to the endpoints that may be under way at the same time
  Batch,      \* batches that submit may create (a bound)
  Ops,        \* the operations that are called
  Seeds,      \* states a request has in the seeded database, or when it is created
  MaxFaults,  \* bound on processes that die in the middle of a call
  NoBatch

Endpoints == {"submit", "approve", "reject", "rework"}

\* update_submission_status for the two states that no endpoint moves to.
Manual == {"begin", "review"}

ASSUME OpsAssumption == Ops \subseteq Endpoints \cup Manual
ASSUME BatchAssumption == NoBatch \notin Batch
ASSUME BoundAssumption == MaxFaults \in Nat

SubmissionStatus == {"requested", "in_progress", "submitted", "review",
                     "approved", "rework", "rejected"}

ASSUME SeedsAssumption == Seeds \subseteq SubmissionStatus

VARIABLES
  status,    \* data_request_log.submission_status
  batch,     \* data_request_log.batch_id
  batches,   \* the rows of batches created for this request
  call,      \* the calls under way
  trigger,   \* processed_jobs has submission_approved:{request_id}
  jobs,      \* the batches for which pipeline:{batch_id} was enqueued
  enqueues,  \* history: how often the pipeline was enqueued for this request
  started,   \* the batches that SubmissionCompleted and SubmissionApproved named
  stored,    \* history: the batches data_request_log.batch_id has held
  faults

vars == <<status, batch, batches, call, trigger, jobs, enqueues, started,
          stored, faults>>

\* What a call that is not about the request leaves alone.
row == <<status, batch, stored>>
pipeline == <<trigger, jobs, enqueues>>

CallPoint == {"idle", "batched", "loaded", "committed", "published",
              "unrecorded", "recorded"}

CallState == [pc : CallPoint, op : Endpoints \cup Manual \cup {"none"},
              seen : SubmissionStatus,          \* the status the session has loaded
              batch : Batch \cup {NoBatch}]

IdleCall == [pc |-> "idle", op |-> "none", seen |-> "requested",
             batch |-> NoBatch]

Init ==
  /\ status \in Seeds
  /\ batch = NoBatch
  /\ batches = {}
  /\ call = [c \in Call |-> IdleCall]
  /\ trigger = FALSE
  /\ jobs = {}
  /\ enqueues = 0
  /\ started = {}
  /\ stored = {}
  /\ faults = 0

-----------------------------------------------------------------------------
(* The state machine *)

\* SUBMISSION_TRANSITIONS
Transitions(from) ==
  CASE from = "requested"   -> {"in_progress"}
    [] from = "in_progress" -> {"submitted"}
    [] from = "submitted"   -> {"review"}
    [] from = "review"      -> {"approved", "rework", "rejected"}
    [] from = "rework"      -> {"in_progress"}
    [] OTHER                -> {}

Target(op) ==
  CASE op = "begin"   -> "in_progress"
    [] op = "submit"  -> "submitted"
    [] op = "review"  -> "review"
    [] op = "approve" -> "approved"
    [] op = "rework"  -> "rework"
    [] OTHER          -> "rejected"

SeenAlwaysLoaded(c) ==   \* mutant: every endpoint loads the row first
  call[c].seen

\* The status the check is made with: the row as first loaded by the session.
Seen(c) == IF call[c].op \in {"submit", "approve"} THEN call[c].seen ELSE status

\* The call ends, with a response or an error.
Ends(c) == call' = [call EXCEPT ![c] = IdleCall]

-----------------------------------------------------------------------------
(* The endpoints *)

\* submit creates and commits the batch before it looks at the request.
SubmitCreatesBatch(c) ==
  /\ call[c].pc = "idle"
  /\ "submit" \in Ops
  /\ \E b \in Batch \ batches :
       /\ batches' = batches \cup {b}
       /\ call' = [call EXCEPT ![c] = [pc |-> "batched", op |-> "submit",
                                       seen |-> IdleCall.seen, batch |-> b]]
  /\ UNCHANGED <<row, pipeline, started, faults>>

\* The request is loaded for its supplier's completeness: below 100 percent,
\* or without files and fields, the submission is refused.
SubmitLoads(c) ==
  /\ call[c].pc = "batched"
  /\ \/ call' = [call EXCEPT ![c].pc = "loaded", ![c].seen = status]
     \/ Ends(c)
  /\ UNCHANGED <<row, batches, pipeline, started, faults>>

ApproveRecordsFirst(c) ==   \* mutant: the trigger is recorded before the check
  /\ call[c].pc = "idle"
  /\ "approve" \in Ops
  /\ call' = [call EXCEPT ![c] = [pc |-> "loaded", op |-> "approve",
                                  seen |-> status, batch |-> batch]]
  /\ trigger' = TRUE
  /\ UNCHANGED <<row, batches, jobs, enqueues, started, faults>>

\* approve loads the request for its batch.
ApproveLoads(c) ==
  /\ call[c].pc = "idle"
  /\ "approve" \in Ops
  /\ call' = [call EXCEPT ![c] = [pc |-> "loaded", op |-> "approve",
                                  seen |-> status, batch |-> batch]]
  /\ UNCHANGED <<row, batches, pipeline, started, faults>>

\* The others go straight to the transition, which loads the row it locks.
OtherArrives(c) ==
  /\ call[c].pc = "idle"
  /\ \E op \in Ops \ {"submit", "approve"} :
       call' = [call EXCEPT ![c] = [pc |-> "loaded", op |-> op,
                                    seen |-> status, batch |-> NoBatch]]
  /\ UNCHANGED <<row, batches, pipeline, started, faults>>

TransitionsUnrefused(c) ==   \* mutant: a refusal is taken for success
  /\ call[c].pc = "loaded"
  /\ LET valid == Target(call[c].op) \in Transitions(Seen(c)) IN
       /\ status' = IF valid THEN Target(call[c].op) ELSE status
       /\ batch' = IF valid /\ call[c].op = "submit" THEN call[c].batch ELSE batch
       /\ stored' = IF valid /\ call[c].op = "submit" THEN stored \cup {call[c].batch}
                                                      ELSE stored
  /\ call' = [call EXCEPT ![c].pc = "committed"]
  /\ UNCHANGED <<batches, pipeline, started, faults>>

\* The row is locked, the transition checked, and the new state committed with
\* its history; submit stores its batch.  Or the transition is refused.
TransitionSubmission(c) ==
  /\ call[c].pc = "loaded"
  /\ IF Target(call[c].op) \in Transitions(Seen(c))
       THEN /\ status' = Target(call[c].op)
            /\ batch' = IF call[c].op = "submit" THEN call[c].batch ELSE batch
            /\ stored' = IF call[c].op = "submit" THEN stored \cup {call[c].batch}
                                                  ELSE stored
            /\ call' = [call EXCEPT ![c].pc = "committed"]
       ELSE /\ Ends(c)
            /\ UNCHANGED row
  /\ UNCHANGED <<batches, pipeline, started, faults>>

\* SubmissionCompleted and SubmissionApproved carry the batch to the handler
\* that starts its graph.  An approval goes on to the pipeline queue.
Publishes(c) ==
  /\ call[c].pc = "committed"
  /\ started' = IF call[c].op \in {"submit", "approve"}
                  THEN started \cup ({call[c].batch} \ {NoBatch})
                  ELSE started
  /\ IF call[c].op = "approve" /\ call[c].batch # NoBatch
       THEN call' = [call EXCEPT ![c].pc = "published"]
       ELSE Ends(c)
  /\ UNCHANGED <<row, batches, pipeline, faults>>

\* check_and_record_pipeline_trigger: the SELECT ...
TriggerChecks(c) ==
  /\ call[c].pc = "published"
  /\ IF trigger THEN Ends(c)
                ELSE call' = [call EXCEPT ![c].pc = "unrecorded"]
  /\ UNCHANGED <<row, batches, pipeline, started, faults>>

TriggerRecordsTwice(c) ==   \* mutant: ON CONFLICT DO NOTHING, the outcome ignored
  /\ call[c].pc = "unrecorded"
  /\ trigger' = TRUE
  /\ call' = [call EXCEPT ![c].pc = "recorded"]
  /\ UNCHANGED <<row, batches, jobs, enqueues, started, faults>>

\* ... and the INSERT with its commit.  The primary key lets one call through;
\* the others get an IntegrityError, which is answered with a server error.
TriggerRecords(c) ==
  /\ call[c].pc = "unrecorded"
  /\ IF trigger THEN Ends(c)
                ELSE call' = [call EXCEPT ![c].pc = "recorded"]
  /\ trigger' = TRUE
  /\ UNCHANGED <<row, batches, jobs, enqueues, started, faults>>

\* start_batch_pipeline is enqueued for the batch the call has loaded.
PipelineEnqueues(c) ==
  /\ call[c].pc = "recorded"
  /\ jobs' = jobs \cup {call[c].batch}
  /\ enqueues' = enqueues + 1
  /\ Ends(c)
  /\ UNCHANGED <<row, batches, trigger, started, faults>>

\* The web worker dies or a statement fails: what was not committed is gone.
CallDies(c) ==
  /\ call[c].pc # "idle"
  /\ faults < MaxFaults
  /\ faults' = faults + 1
  /\ Ends(c)
  /\ UNCHANGED <<row, batches, pipeline, started>>

-----------------------------------------------------------------------------
CallStep(c) ==
  \/ SubmitLoads(c) \/ TransitionSubmission(c) \/ Publishes(c)
  \/ TriggerChecks(c) \/ TriggerRecords(c) \/ PipelineEnqueues(c)

CallArrives(c) == SubmitCreatesBatch(c) \/ ApproveLoads(c) \/ OtherArrives(c)

Next == \E c \in Call : CallArrives(c) \/ CallStep(c) \/ CallDies(c)

Spec == Init /\ [][Next]_vars

\* A call that has arrived is carried out; nobody is obliged to call.
FairSpec == Spec /\ \A c \in Call : WF_vars(CallStep(c))

-----------------------------------------------------------------------------
(* Properties *)

\* Every variable has its type.
TypeOK ==
  /\ status \in SubmissionStatus
  /\ batch \in Batch \cup {NoBatch}
  /\ batches \in SUBSET Batch
  /\ call \in [Call -> CallState]
  /\ trigger \in BOOLEAN
  /\ jobs \in SUBSET Batch
  /\ enqueues \in Nat
  /\ started \in SUBSET Batch
  /\ stored \in SUBSET Batch
  /\ faults \in 0..MaxFaults

\* However many approvals of the request race each other, pass the check of
\* the state machine together, or die on the way, its pipeline is enqueued at
\* most once.
PipelineEnqueuedOnce == enqueues <= 1

\* No graph is started for a batch that the request has never held: the
\* batches that refused submissions leave behind stay as they are.
OnlyStoredBatchesStart == jobs \cup started \subseteq stored

\* A rejection, a rework or any other call that does not load the row first
\* obeys the state machine whatever the calls it waits for do to the row.
LockedCallsFollowMatrix ==
  [][\A c \in Call :
       call[c].op \notin {"submit", "approve"} /\ call[c].pc = "loaded"
       /\ call'[c].pc = "committed"
         => status' \in Transitions(status)]_vars

\* Unless a call dies, an approval of a request that has a batch gets its
\* pipeline enqueued, by itself or by the approval it raced with.
ApprovalStartsPipeline ==
  \A c \in Call :
    (/\ call[c].pc = "committed" /\ call[c].op = "approve"
     /\ call[c].batch # NoBatch) ~> enqueues > 0 \/ faults > 0

\* The primary key of processed_jobs is the only thing that separates racing
\* approvals: one of them has recorded the trigger, and until it enqueues
\* nothing has been enqueued.
TriggerIsExclusive ==
  /\ trigger = FALSE => enqueues = 0 /\ \A c \in Call : call[c].pc # "recorded"
  /\ \A c \in Call : call[c].pc = "recorded" =>
       /\ enqueues = 0
       /\ \A d \in Call : call[d].pc = "recorded" => c = d

\* Where a batch comes from: what the request holds was stored, and so was what
\* an approval has loaded or a submission has committed.
BatchIsStored ==
  /\ batch \in stored \cup {NoBatch}
  /\ \A c \in Call :
       /\ call[c].op = "approve" => call[c].batch \in stored \cup {NoBatch}
       /\ call[c].op = "submit" /\ call[c].pc = "committed" =>
            call[c].batch \in stored
       /\ call[c].op = "submit" =>
            call[c].pc \in {"batched", "loaded", "committed"} /\ call[c].batch \in Batch
       /\ call[c].pc \in {"published", "unrecorded", "recorded"} =>
            call[c].op = "approve" /\ call[c].batch # NoBatch

\* The inductive invariant.
SubmissionInv ==
  /\ TypeOK
  /\ TriggerIsExclusive
  /\ PipelineEnqueuedOnce
  /\ BatchIsStored
  /\ OnlyStoredBatchesStart

(* What documents and comments say that the code does not do *)

\* domains/submission/models.py: the matrix is the defence of every transition.
FollowsMatrix == [][status' # status => status' \in Transitions(status)]_vars
=============================================================================
