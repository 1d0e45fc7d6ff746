# A TLA+ model of the supply-chain compliance backend

The program under `src/` collects data from battery suppliers, judges a batch against
regulations with a pipeline of AI agents, and stops for a human where the agents are not
sure. It is a FastAPI service (two uvicorn workers), four ARQ workers on Redis, and one
PostgreSQL database that also carries the events (LISTEN/NOTIFY) and the checkpoints of
LangGraph. This directory models the parts whose correctness depends on the order in which
these processes act, and the queries and rules whose result a reader of the code could
argue about.

Line numbers are those of the sources at the commit modelled. `PROJECT.json` maps every
definition to the code it stands for, and lists the runs, hazards, findings and theorems.

## 1. Inventory

| component | state it keeps | operations | hard behaviour | module |
|---|---|---|---|---|
| batch pipeline: `agents/graph.py`, `supervisor.py`, `state.py`, `handlers/batch_trigger.py`, `workers/pipeline_worker.py`, `hitl_worker.py` | LangGraph thread of the batch, `batches` row | start, one node per stage, route, interrupt, resume | several executions of one thread; replay of a node on resume; state in two places | `BatchPipeline` |
| agents: `agents/*.py` | stage, error reason, extraction result; `compliance_results` | one node each | which error reason survives which node; rows and reason told apart | `BatchPipeline`, `Compliance`, `DocumentIngest` |
| human review: `hitl/*`, `audit/state_machine.py`, `audit/repository.py:257` | `hitl_reviews` | open, approve, reject, escalate | read without lock; commit before enqueue; one job id for all approvals | `BatchPipeline`, `ReviewGate` |
| audit trail: `infrastructure/trace.py`, `domains/audit/*` | `audit_trail` | append after each traced call, verify | unlocked read of the last row | `AuditTrail` |
| data requests: `domains/submission/*` | `data_request_log`, trigger key | submit, approve, reject, rework | rows loaded before they are locked; commit, event, record, enqueue in four steps | `Submission` |
| document ingest and parse: `handlers/supplier_document_ingest.py`, `workers/document_parse_worker.py` | `submission_documents`, extraction rows, claims | ingest, parse, confirm | check-then-insert, commit-then-enqueue, claims that outlive failures | `DocumentIngest` |
| notifications: `workers/notification_worker.py`, `submission_worker.py`, `handlers/*` | `notifications`, their keys, reminder counters | notify, remind, invite | key committed before the mail; one queue, two kinds of worker | `Notification`, `Supplier`, `SupplyChain` |
| supply chain map: `domains/supplychain/*` | `supply_chain_map`, `supply_chain_maps` | register, declare a source, confirm, verify; tree, map, gaps, contributions | cycle check and insert are two statements; five walks of one graph by five rules | `SupplyChain` |
| suppliers: `domains/supplier/*`; risk profile: `domains/risk/*` | supplier, factories, contacts, onboarding, accounts, profile | invite, onboard, master form, patch, score | two rows locked in two orders; unlocked read-modify-write | `Supplier` |
| products: `domains/product/*` | versions, customers, parts, BOM items | activate, deprecate, import, tree | select, then update; events after a commit; NULLs in a recursive query | `Product` |
| compliance and regulations: `agents/compliance.py`, `domains/regulation/*` | rules, clauses, results | seed, index, judge, show | two statements without a snapshot; a model that answers what it likes | `Compliance` |
| reports: `domains/report/*` | report, approval steps | create, submit, approve, reject | steps decided on what was loaded earlier | `ReportApproval` |
| due diligence and files: `domains/due_diligence/*`, `domains/files/*` | audit record, file rows, objects in the bucket | upload, delete, corrective actions | three stores, one after the other | `DueDiligence` |
| event bus: `infrastructure/event_bus.py`; job queue: `infrastructure/queue.py` (ARQ) | subscribers; jobs and retained results | publish, dispatch; enqueue | one copy per web worker, not stored; an id blocks a second job for an hour; a job whose worker died runs again | inside the modules that use them |
| consent, queries, users, access lists, LLM clients, configuration | none, or single inserts | – | – | – |

How they interact: an endpoint commits its own transaction, then publishes an event or
enqueues a job; nothing makes the two atomic. Each web worker listens to the events and
starts the handlers as concurrent tasks, so every event is handled once *per worker*. The
handlers and the ARQ workers call the same functions (`start_graph`, `resume_graph`), which
share the thread, the `batches` row and the review rows of the batch. Locks are few: some
calls take `FOR UPDATE`, and an `UPDATE` holds its row until its transaction ends.
Everything else is kept apart by a unique key or by nothing.

`PROJECT.json` lists under `hazards` the places where this is hard to test, each with the
properties that watch it, or with the reason why none does.
Known, and not on the list because no property of these runs is about them: a rejection that
overtakes an approved batch between its commit and the resume (`graph.py:89`); a decision or
a trigger that is committed and whose enqueue is lost in a crash (`hitl/router.py:64`,
`submission/router.py:239`), which the liveness properties except as a fault; a decision
taken by batch id (`hitl/router.py:210`); the end of the graph, which is in the checkpoint
and not in the row (`graph.py:41`); `route` writing into the state it is given
(`supervisor.py:13`); states of a request nobody moves to (`submission/models.py:179`); an
event lost while the listener is down, or too large for NOTIFY (`event_bus.py:90`, `:47`);
failed jobs, which are kept nowhere (`queue.py:19`); the advisory lock around the migration of
the checkpoint tables (`graph.py:276`); a confirmation between the two extraction rows of a
document (`document_parse_worker.py:78`); an approval and a rejection that race a pause
(`hitl/service.py:99`).

## 2. Modules

| module | models | with |
|---|---|---|
| `BatchPipeline` | one batch: graph executions, reviews, decisions, the resume job, faults | `MCBatchPipeline`, `BatchPipeline_proofs` |
| `ReviewGate` | what the review table promises, whoever works on it (an abstraction of `BatchPipeline`) | – |
| `AuditTrail` | the audit chain of one batch | `Records_proofs` |
| `Submission` | one data request up to the start of its pipeline | `Requests_proofs` |
| `DocumentIngest` | one uploaded file, from the PATCH to its extraction rows | `Evidence_proofs` |
| `Notification` | the notices and reminders of one request | `Requests_proofs` |
| `SupplyChain` | the map of a BOM version and the queries over it | `MCSupplyChain`, `SupplyChain_proofs` |
| `Supplier` | one supplier, its accounts, factories and risk profile | `Supplier_proofs` |
| `Product` | the versions, imports and BOM tree of one product | `MCProduct`, `Product_proofs` |
| `Compliance` | the compliance node of one batch, and the indexing script | `MCCompliance`, `Evidence_proofs` |
| `DueDiligence` | one audit record and its files | `Records_proofs` |
| `ReportApproval` | one report and its approval line | `Records_proofs` |
| `MCReports` | the last two side by side, as the same workers serve them | – |
| `Recursion` | no code: lemmas on functions defined by recursion over the numbers | used by `SupplyChain_proofs`, `Product_proofs` |

Modules whose proofs are short share a proof module; that is why their specifications have
names of their own (`AuditSpec`, `ReportSpec`, `NoticeSpec`, `ComplianceSpec`).
An `MC` module gives symmetry and sets of values for the runs. Definitions marked `mutant`
are broken variants of the definition after them; no specification uses them: they show
that each property can fail.

### 2.1 BatchPipeline

Everything the code keys by batch id belongs to one batch, so one batch is modelled.

| variable | code |
|---|---|
| `status`, `stageCol` | `batches.status`, `batches.current_stage` |
| `rowLock` | the transaction that has updated the `batches` row and not ended |
| `review` | the committed rows of `hitl_reviews` |
| `thread` | the latest LangGraph checkpoint: live, interrupted, ended, with the stage, error reason and whether suppliers were extracted |
| `run` | each call of `ainvoke`, by process: event deliveries (`Handler`), the job of the pipeline worker (`PipelineJob`), the resume job (`ResumeJob`) |
| `job` | the ARQ job `hitl_resume:{batch_id}`, or its retained result |
| `desk` | decision requests between their read, their commit and their enqueue |
| `decided`, `owed` | history: resolutions in the audit trail; a node asked for a human and nobody has approved since |

An action is one transaction, one statement of a longer transaction when others can see or
wait for it, or one checkpoint. `hitl_interrupt_node` is `HitlPause` (the UPDATE of
`batches` takes the row), `HitlLookup` (the statement that finds or inserts the review),
`HitlCommit`, and then either `HitlInterrupt` or `HitlAnswered` and `HitlReturns`. Since
LangGraph starts an interrupted node over when it is resumed, an answered execution goes
through the first three again. `resolve_batch` is `DecisionReads` and `DecisionCommits`;
`DecisionEnqueues` is the enqueue of its endpoint. `ResumeNothing`, `ResumeThread` and
`ResumeLoadsRow` are the three ways through `resume_graph`.

The work inside an agent is a choice among its outcomes: a node may set any error reason
its code can set, keep the old one where its code keeps it, or raise (`RiskScoringRaises`).

LangGraph, ARQ and PostgreSQL are outside the repository. What is assumed of them: a node
is checkpointed when it returns; a start on an existing thread merges its input over the
stored values; an interrupt marks the checkpoint the execution works on; a resume command
on an interrupted thread restarts the node with the answer; a job id that is queued,
running or retained makes ARQ drop an enqueue; a job whose worker dies is run again, a job
that raises is not; an UPDATE waits for the transaction that holds the row.

### 2.2 ReviewGate

The abstract review table: a review is opened for a key (reason and stage) only while no
other review with that key is open; a decision falls on a review that was opened; a review
does not disappear, change its key or open again. `BatchPipeline!GateSpec` instantiates it
with the rows of `hitl_reviews`. It does not promise that a decision is final, because the
code does not keep that (section 5).

### 2.3 AuditTrail

`AuditReads` is the SELECT of `_write_audit` (any row with the highest step, since the
order of equal steps is not defined), `AuditCommits` its INSERT and COMMIT, `AuditFails` a
failure that `trace_node` swallows. `Listings` are the orders in which `list_full_chain`
may return the rows, `ValidLinks` and `UniqueSteps` what `verify_chain` looks for. There is
no tampering in the model: whatever is reported was written by honest calls.

### 2.4 Submission

One row of `data_request_log`. Each call of an endpoint has its own session. Between the
lock and the commit nobody else writes the row, so `TransitionSubmission` is one step; what
it checks is `Seen`: the current status for calls that load the row when they lock it, the
status loaded *earlier* for submit and approve, because an SQLAlchemy session keeps the
attributes of an object it holds (`expire_on_commit=False`, no `populate_existing`). After
the commit come `Publishes`, the two halves of `check_and_record_pipeline_trigger`, and the
enqueue, with other calls in between. The refused branches of the endpoints (missing
reason, incomplete data) end the call. `PATCH /submissions/{id}/approve`,
`rework` and `reject` run the same statements in the same order as their twins under
`/data-requests`, and are the same operations here. `Manual` are calls of `update_submission_status`
for `in_progress` and `review`: the function supports them, nothing in the repository
makes them (section 5), and without them no request would ever reach an approval.

`Submission` leads to `BatchPipeline`: a batch it names in an event becomes a `Handler`
per web worker there, and `PipelineEnqueuedOnce` is why `PipelineJob` has one element.

### 2.5 DocumentIngest

One S3 key: the PATCH that stores it (`PatchReads`, `PatchCommits`, `PatchPublishes`), the
handler in each web worker (`HandlerLooks` for the key, `HandlerStores` its rows,
`HandlerEnqueues` the parse), and the parse job of each document row. `JobStarts` is ARQ's
start and the claim in `processed_jobs`, in one transaction with the worker's first
statement; `ParseCommits` is the first commit, made inside `parse_document` and carrying
the claim as `processing`; `ParseFlags` and `WorkerRecords` are the second part. `RolledBack`
is where a claim goes that was not committed. A worker that dies leaves its job to ARQ's
next try; one that raises ends it. `ParseRequested` is the endpoint that asks again.

### 2.6 Notification

A job is one call of `enqueue`, a key one deduplication key. The notification worker stores
the row and commits (`NoticeStored`), and then mails (`MailSent`) and marks (`MailMarked`), or
returns if the notice is for the app only (`WorkerReturns`); a job that finds its key ends
`known`, with nothing shown to anybody. `TakenBySubmissionWorker` is the other ARQ worker on
the same queue, which fails jobs it has no function for. The senders are the request and any
number of reminder runs, which count themselves when they end; `owner` is a history variable,
the senders whose job stored a row.

### 2.7 SupplyChain

`Checks` is the acceptance of a relation and its cycle check, `Inserts` the header upsert
and the row with its hop level; between them other calls insert. `Follows`, `Paths` and
`Tree` are the recursion of `get_n_tier_supply_chain`; `MapRows`, `GapNodes`, `Shares`,
`ReadyForFinal` the other four walks. `NeverReturns` is a cycle check whose `UNION ALL`
meets an existing cycle. Confirmation, verification, discovery and header status are
`Update`s, bounded by `MaxUpdates` as a group.

### 2.8 Supplier

Every call writes in one transaction; `lock` holds the two rows that matter. Onboarding and
the master form lock the supplier row first, `PATCH risk-score` the profile first: the two
orders can meet, and then PostgreSQL ends one of them (`Deadlocked`, `CallFails`). A graph
node reads the profile and writes it back without a lock (`StageReads`, `StageWrites`), which
`overlap` and `raised` record. Every web worker handles an invitation on a date of its own
(`Date`): the key that `InviteClaims` inserts names it, and workers on either side of midnight
claim a key each.

### 2.9 Product

`Reads` is the load and the check of the transition; `Selects` and `Locks` are the UPDATE of
the other active versions, which sees what was committed when it started and then waits for
the rows; `Writes` is the update of the version itself and the commit. `Upserts` waits on
the customer's row as `ON CONFLICT` does, and `xmax = 0` is `~ stored`. The tree is a set of
operators over `parent` and `items`, which are constant in a behaviour and range over every
forest and every BOM. `DepthLimit` is 5 in the code and 2 in the run: four parts cannot pass 5.

### 2.10 Compliance

The node takes the regulations of the destination one at a time: search, judge, insert, one
commit at the end. The model's answer is one of the records in `Answers`, which stand for
the cases the code tells apart: a warning that asks for a human itself, a pass without a
clause, a verdict of JSON null (with a clause it is stored: the column accepts NULL), a verdict
outside the list, none at all; a plain pass is what the stubs give. Beside the node run the indexing script, which may be killed at any
step, and a supplier who replaces carbon declarations between the two statements of
`judge_carbon_footprint` (`WeighCarbon`, `CountMissing`). The two statements about rows that
have to agree, what the node returns and what the results page marks, are `Returns` and
`NeedsReview`.

### 2.11 ReportApproval and DueDiligence

A call on a report loads the report, loads the step it points to, decides on both and writes
the columns it changed (`LoadsReport`, `LoadsStep`, `Commits`); `raced` records whether a
write fell on a row that had changed since. `Inbox`, `PreviousReviewers` and `RejectReasons`
are what the pages read.

An upload puts bytes in the bucket, commits a file row, and only then updates the audit
(`UploadPuts`, `UploadStores`, `UploadLinks`, whose COALESCE keeps what the form leaves out);
a deletion removes the bytes and then the row, which a foreign key may refuse. A call may
raise or die between any two of these.

## 3. Runs

| run | instance | states | what it shows |
|---|---|---|---|
| `solo` | one start, one decision at a time, created and seeded batches, fairness | 43 000 | a waiting batch has a review that is not rejected; no judgment while an approval is owed; an interrupt shows in the row; executions settle; an approval whose job id is free resumes |
| `gate` | pipeline job, two racing decisions, one fault | 1.8 M | the inductive invariant; the graph is resumed only for a recorded approval; the review table implements `ReviewGate` |
| `audit` | three writers, four rows, two hash values | 206 000 | the trail is a tree; without a duplicate step it verifies in every listing |
| `requests` | two calls, two batches, one fault, all seeded states, fairness | 168 000 | the pipeline is enqueued once, for an accepted batch; calls that lock before they load obey the state machine; an approval with a batch enqueues the pipeline unless a call dies |
| `documents` | one PATCH, two web workers, two documents, two tries, two faults, fairness | 52 000 | no document is parsed twice; no death leaves a claim that blocks an unparsed one; jobs settle; without faults an upload is parsed |
| `notices` | one user, a request and two reminder runs, two tries, two faults, fairness | 642 000 | no mail twice, none marked sent that was not mailed; a row is one job's; the count never runs ahead of the reminders enqueued, and of those counted at most one is shown; what is enqueued is stored unless it is lost to the wrong worker, a failure or another run's key |
| `chain` | three suppliers, one map, two overlapping calls, three edges, one update | 847 000 | hops are continuous; a cycle, and a cycle check that does not return, take an overlap or a self-declaration; a map registered from the root down is shown whole, weighed and checked for gaps; the owner is told of complete maps only |
| `suppliers` | two calls of any kind, three factories, two addresses, two web workers, two dates, fairness | 606 000 | a record is one call's; account, agreement and status come together; the cached level is the profile's; one invitation mail a date; calls end in spite of two locking orders |
| `catalog` | two versions, three calls, one customer, every forest of four parts | 218 000 | one active version and no revival unless calls overlap; one announcement per customer; the tree shows each part once and loses none that hangs below another |
| `assess` | three destinations with two regulations each, one regulation without a row, five answers, two starts of the node and of the script | 5.3 M | no verdict without a clause counts; partial data asks for a human; reason and rows fit; rows are stored together; clauses are indexed before they are judged over |
| `reports` | two calls on an audit, two at a time on a report with one or three approvers | 1.1 M | a shown report opens and is one upload's; corrective actions keep what a caller was told; the line is decided in order, is not stuck, and its outcome fits its steps |
| `matrix` | two calls | 694 | a finding (section 5) |

Several properties of a run are conjunctions of named parts that fail for different reasons;
each part is stated and commented in its module. `PauseIsVisible` is `WaitingBatchHasReview`
and `InterruptIsVisible`; `SupplierInv` is the type invariant, `RecordIsOneCalls`,
`OnboardedIsWhole` and `OneMail`; `TreeShowsBom` is `PartsAreShownOnce` and `ItemsAreShown`;
`WalksAgree` is `MapIsWeighed` and `TreeIsChecked`; `ResultsInv` is the type invariant,
`UncitedIsRejected` and `PartialIsFlagged`. The `…Inv` of the other modules are their
inductive invariants, with the type invariant and the safety properties in them. Several
parts have a mutant of their own in `PROJECT.json`.

**Bounds.** `Review` bounds the rows of `hitl_reviews`; each resume may insert one, so two
rows give an interrupt, its approval and the review of the replay, three a further
escalation or a second round. At the bound `HitlLookup` has no row to insert and the
execution stops there; the liveness properties except that case by name (`OutOfReviews`).
`MaxFaults` bounds crashes, timeouts and exceptions: in the runs of the pipeline and of the
requests one fault at any point exercises every recovery path; in `documents` and `notices`
two faults and two tries reach the last try and the error after it. Two calls are what a race
takes; `catalog` has three so that a version can be deprecated while two others hold what
they read. Three suppliers and three edges are the least for a cycle of length three, a
supplier at two hops, and an edge stored before its parent. Two runs of the node let one
raise half-way and another repeat it. Where a theorem exists it holds for every bound.

Deadlock checking is on for `Submission` only: everywhere else the system may rightly stop
(a batch nobody decides about, a trail with its rows used up, a report that is settled).

**Fairness.** Weak fairness, and only of what has begun: an execution under way goes on, a
worker takes a queued job, a request that has read or committed goes on, the clock reaches
the expiry of a retained result. Nobody is obliged to submit, to decide or to fail.
`RunFails` and the other faults have no fairness, with one exception: in `Supplier` a call
that PostgreSQL must end (a deadlock, a taken e-mail address) is ended, which the server
guarantees. A queued notice is taken by one of the two workers, and which one is open.

**Timing.** `ResultExpires` waits until no request stands between its commit and its
enqueue: results are retained for an hour, requests take seconds. Nothing else depends on time.

## 4. What is proved

All for arbitrary values of the constants, from the named assumptions on them only: the
values `NoCall`, `NoReview`, … are none of the values they stand beside, bounds are natural
numbers, approval lines are sequences of approvers, and the suppliers of a map and the parts
of a BOM are finitely many. Two theorems on pauses have a further hypothesis, named below.
Every safety and action property that a passing run checks is stated by a theorem.

*Reviews.* `OneOpenReviewPerStage` is not inductive: there is no unique index, and between
the lookup and the commit of one execution another could commit the same review. `ReviewInv`
adds why it does not: from `HitlPause` to its commit an execution holds the `batches` row
(`PauseHoldsRow`), so at most one is between lookup and commit, and what it found missing is
still missing (`LookupIsFresh`). Decisions do not lock the row when they approve, but they
only close reviews, and a review they hold exists (`RequestHasRead`). Theorems:
`ReviewInvariant`, `TypeCorrect`, `OneOpenReview`. `GateImplemented` shows with the same
invariant that every step is a step of `ReviewGate` or leaves the table alone.

*Approvals.* `ApprovalResumes`: a job with an approval in it was enqueued by a request that
had committed one (`ApprovalIsRecorded` is inductive with `TypeOK`), and a crash puts the
same job back.

*Pauses.* `InterruptVisible` needs no hypothesis: until something fails, an interrupted
thread is shown by the row, for any number of deliveries, jobs and racing decisions. Its
strengthening speaks of the step before: an execution that has committed its pause and is
about to interrupt is shown as well, or the HITL worker has passed the interrupt with the
answer (`PauseIsShown`); and nobody but that worker brings answers (`AnswersAreResumes`).
`WaitingHasReview` and `PauseVisible` assume that the graph is started once (`StartedOnce`)
and that decision requests come one at a time (`OneRequest`), as run `solo` does, and hold
with any number of faults. TLC refutes the property without either: with a job and two
deliveries, a batch already rejected has its other review rejected between the lookup and
the commit of a further start, which then waits for nobody; with two requests, an approval
is written over. Under the hypotheses the start is over when a review exists
(`StartPrecedesReview`) and an approval stands (`ApprovalStands`). `JudgmentIsNotOwed` needs
`StartedOnce` only (a second start asks for a human while the first is judging), and holds with racing
requests until something fails: while a human is owed, an execution that is not over stands
before its interrupt without an answer, and no approval of the past is on its way
(`OwedIsHeld`).

*Audit trail.* `TrailInvariant`: rows are only added, so the row a call has read is there
when its row arrives; every row hangs on one that is one step lower. From it
`UniqueStepsVerified`: in a listing by step without duplicates the predecessor of row *i*
comes before it and no step lies between them, so it is row *i* − 1.

*Requests.* `SubmissionInvariant`: a recorded trigger belongs to one call, nothing has been
enqueued while that call holds it, and after it nobody can record again
(`TriggerIsExclusive`); batches in jobs and events come from accepted submissions
(`BatchIsStored`). From it `EnqueuedOnce`, `StartsAreStored` and `LockedCallsObey`.

*Notices.* `NoticesInvariant`: "mailed at most once" needs that a job which may mail has
itself stored the row of its key, and has not mailed yet (`MailerHoldsRow`); two such jobs
would have stored one row twice. `RowIsOneJobs` says whose a row is: a retry that finds the key
may find its own row, and then its mail is given up, but no second sender ever owns it.
`CountAgainstNoticesHolds` relates the counter to the queue: as many runs have ended as were
counted, each of them has enqueued a reminder to every user, and so the count is at most the
number of those jobs (cardinalities of finite sets); a job that stored or returned owns the row
of its key, so at most one of them is shown.

*Documents.* `DocumentInvariant`: "parsed once" is not inductive, because a second start of
the job would add rows if it could claim. `ClaimIsHeld` says that the claim is open exactly
while a worker holds its transaction and that a worker past its first commit has left a
claim no other start can take. `DocumentParsedOnce` follows.

*Compliance.* `ResultsInvariant` follows the node through one regulation (`JudgeFits`: what it
weighed is what is declared, unless suppliers replaced it meanwhile) and through its list
(`RowsFit`: the rows of the run are, once each, what has been judged and has a regulation,
and a flag that was raised has a row or a regulation that could not be stored behind it).
It holds for every set of answers, a null verdict included: such a row may be stored, but only
with a citation, and with its flag when the declarations behind it were partial.
`ReasonIsFounded` and `RowsOfARunAreWhole` are what remains of this when the node ends.
`ShelfFits` (a script that did not raise has left clauses, one that finished has left them
indexed) gives `ClausesAreJudgedOver`.

*Recursion.* The queries of the map and of the BOM tree are functions that recurse on the
number of steps. The library's induction theorems are not available to the provers (they take
an operator), so `Recursion` derives induction over a *set* of numbers from `<` being well-founded
(`Smallest`, `Largest`, `SetInduction`). `Iteration` shows that such a function exists and
obeys its equations, and `Saturation` that a growing chain of subsets of a finite set is
complete after as many steps as the set has elements.

*Supply chain.* `ChainInvariant`: hop levels are continuous (`MapInv`), by cases on what an
insertion may hang on; a call whose check has seen the whole map as it is stored closes no
cycle (`ChecksHold`); an edge inserted below another hangs one hop under one, and none lies
lower than the edges before it allow (`OrderlyHangs`). For cycles, `Descendants` is shown to
be the least set that contains the children and is closed under them (`WalkCloses`); a new
edge then adds to what is below a supplier only what is below the edge (`NewEdgeWalk`), so it
closes a cycle only if its parent was below its child, which a check of that very map refuses.
Hence `CyclesTakeOverlap`, for cycles of every length. `OrderlyMapsAreShown`: by induction on
the hop every edge is reached by a path of the tree, and without a cycle no path is cut.
`WalksDoAgree` relates the paths of the tree to those of the contributions and of the gap
check. `ChecksReturn`: a cycle check that does not return has met a cycle (`HangMeetsCycle`), and
walks only grow when an edge is added (`WalkGrows`), so the cycle is still there and
`CyclesTakeOverlap` applies. `NoticeEarned` is an action property.

*Suppliers.* `SupplierInvariant`: a call that has begun to write the company holds its row, and what
it has done with the factories so far is nothing or covers every one of them (`CallsFit`), so
what a commit stores is one call's. A claim of an invitation's key that is under way is the only
one of its date, and nothing has been mailed for it yet (`OneMail`). `CachedLevelFollows` and `LevelFitsScore` are inductive
with it, since only two steps write the risk; the second needs that the two copies of the
thresholds agree on every score (`LevelsAgree`).

*Products.* `CatalogueInvariant`: while no call has written after what it read had changed,
versions only move forward (draft, active, deprecated). What a call saw lies behind what is
stored (`SeenEarlier`), so a write that finds what it saw moves some version ahead of what
every other call saw; and a call that finds what it saw has taken off all other active
versions. For the imports, `LocksAreHeld` and `NewIsOwn`: an import that finds no row of a
customer holds its lock until the row is stored. `OneActiveVersion`, `DeprecatedForGood` and
`AnnouncedAtMostOnce` follow. `TreeShowsTheBom` holds over every BOM and every forest of parts:
steps above add up along a line, so what the furthest anchor above a part is a root of shows
the part, a root's parent is no node (an anchor above it would be a further one), and the
walk from an item up through items that hang below parts ends, at an anchor.

*Reports.* `ReportInvariant` adds to the three promises what a call has loaded: a step that
was loaded pending and decided since is decided for good, and a report a call has loaded
points to a place in the line already reached (`Loaded`). As long as no write was stale, what a
call writes is then what one call after the other would have written. `LineInOrder` needs no
such proviso. `NotStuck`, `OutcomeIsEarned` and `SettledForGood` follow.

*Due diligence.* `AuditInvariant` adds where a call stands (`Stands`): before its row, an
upload's bytes are in the bucket; past the bucket, a deletion's are not; a row's bytes are in
the bucket unless somebody has asked to delete it. `ReportOpens`, `OneUpload` and
`NoOrphanBytes` follow.

The theorems on reports and due diligence are about `ReportSpec` and `AuditSpec`; run
`reports` checks the two side by side, where each moves while the other stands still.

**Only model-checked**: liveness under fairness, which is outside the prover together with
ENABLED: `EveryRunSettles`, `FirstApprovalResumes`, `ApprovalStartsPipeline`,
`EveryJobSettles`, `UploadIsParsed`, `EnqueuedIsStored`, `EveryCallEnds`. `FollowsMatrix` has
no theorem because it does not hold (section 5).

## 5. Where code and documents disagree

One disagreement is a run: `matrix` – the state machine of a data request is called the
backend's defence of its transitions (`submission/models.py:175`), and an approval that has
waited for a rejection turns the rejected request into an approved one, because the locked
row is not reloaded.

Read in the code while modelling, without a run of their own:

*Pipeline and review*
- the lookup in `create_pending_hitl_review` is said to keep a replayed node from inserting
  a duplicate (`audit/repository.py:266`); at the replay the first review is resolved, so a
  second is inserted and stays open;
- the guard on `current_stage` (`batch_trigger.py:12`) does not stop a second invocation:
  the column keeps `stage_queued` until the final judgment;
- a resolved review is decided again by a request that read it open (`hitl/service.py:85`);
- a second approval within an hour is dropped with its job id (`hitl/README.md:49`);
- a broken link in the audit chain is called tampering (`audit/service.py:45`); overlapping
  calls produce one;
- a batch that passes all stages is said to become `batch_completed` (`README.md:162`);
  `completed_node` sets it in the graph state and nothing writes it to the row;
- a reject is said not to resume (`agents/graph.py:241`); `resume_batch_processing` updates
  the row whatever its status;
- `/hitl/review/{id}/decision` uses the id to find the batch, and decides any review of it;
- `get_hitl_context_by_review` takes `comp[0]` of what `hitl/service.py:136-158` returns as a
  dict: a `KeyError`.

*Requests, documents, notices*
- the pipeline starts when the request is submitted, not when it is approved
  (`submission/router.py:206`);
- a request is said to move to `in_progress` when the supplier logs in
  (`submission/README.md:16`); nothing makes that transition;
- two web workers register one file twice, though a docstring says no duplicate rows; a
  parsed document gets two extraction rows, and confirmation reaches the latest only;
- the claim is committed as `processing` with the first extraction row, while a comment calls
  claim, rows and `done` one atomic commit;
- the schema's comment gives the reminder's key a date (`docker/01_schema.sql:773`); the code
  gives it none (`submission/service.py:424`), so a second reminder is counted and shown to
  nobody. `CountAgainstNotices` states what the code does: of all counted reminders at most one
  is shown;
- a crash between the commit of a notice and its mail loses the mail: the retry finds the key.

*Supply chain*
- two overlapping registrations can close a cycle, and a self-declaration is one; the cycle
  check then never returns, since it uses `UNION ALL`;
- a child registered before its parent's edge keeps hop 1 and vanishes from the tree;
- `confirm_pool` confirms any edge of hop 1, orphans too; a completed map may still get edges;
- a map is called ready by the suppliers reachable from its root, and vacuously without ratios;
- contributions leave out the row that closes a cycle, which the tree shows.

*Suppliers and risk*
- two onboardings can create two accounts of one supplier, with different addresses;
- `transition_supplier_status` and `verify_supplier` are never called: the status moves past
  its transition matrix;
- a factory that was soft-deleted and comes back by id stays inactive;
- a score raised by a graph node does not reach `suppliers.risk_level`, and a node that writes
  over a profile it did not read may leave a level that does not fit the score;
- a failed invitation mail is not sent again that day, and one invitation is mailed twice when
  two workers handle its event on either side of midnight UTC (`supplier_invited.py:68`).

*Products*
- one active version is called an invariant (`product/state_machine.py:16-19`); overlapping
  activations leave two, or revive a deprecated one;
- anchors are said to be parts without a parent (`product/repository.py:530`); `NOT IN` with
  NULL drops root parts as soon as an item hangs below a part;
- a crash after the commit of an import loses its `CustomerImported` events.

*Compliance*
- the judges of CBAM, conflict minerals and CRMA pass everything;
- a verdict outside the list raises outside the judge's `try` and loses all rows of the run;
- a verdict of null with a citation raises nothing and is stored as NULL, which the CHECK for
  the four verdicts accepts (`docker/01_schema.sql:593`): the row has no verdict and, if the
  model was sure and asked for nobody, no human is asked;
- a row without a confidence is called a candidate for review (`regulation/repository.py:510`);
  the condition below the comment asks for a confidence;
- two runs of the node give a regulation two rows;
- the node's flag and the page's mark (confidence below 0.85) may differ;
- declarations replaced between the two statements leave partial weights unflagged.

*Reports and files*
- an overlapping second approval can set `current_step` back and leave the report stuck; a
  late submit can reopen a one-step report that was settled;
- an approval that overlaps a rejection leaves a returned report without a reason;
- a returned report cannot be submitted again;
- deleting the file of an audit's report removes the bytes before the foreign key refuses
  the row;
- an upload that leaves fields out mixes with the one before.

## 6. Not modelled

The answers of language models, prompts, extraction of fields, geocoding and the geographic
rules: a choice between outcomes. The figures and the text of reports and notifications. The
import of products, parts and items row by row, and lists, statistics and query pages.
Authentication and access lists, which decide each request by one read; LLM clients, object
storage and configuration, which keep no state of their own. Data consents are single rows
that nothing else reads. The event bus has no module: what it does to a handler (a copy per
worker, concurrency, loss) is in the modules of the handlers; reconnection and the size limit
of a payload are left out. A failing INSERT of an audit row inside a decision's transaction
is listed as a hazard and left out.

## 7. What could come next

`Submission` and `DocumentIngest` composed with a module of the event bus; the theorems on
pauses for two deliveries of one event (on the instance of `solo` TLC finds
`WaitingBatchHasReview` kept by two starts); what a recovery restores after the faults that
those theorems exclude; the composition of `ReportApproval` and `DueDiligence` as a theorem.
