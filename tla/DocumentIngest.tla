---------------------------- MODULE DocumentIngest ----------------------------
(***************************************************************************)
(* The life of one uploaded file, named by its S3 key: the PATCH that      *)
(* stores the key in the supplier's row and publishes an event, the        *)
(* handler that every web worker runs for the event, the parse job that    *)
(* the parse worker claims in processed_jobs, the extraction rows it       *)
(* leaves and the supplier's confirmation.  Every document row here is for *)
(* that one key.                                                           *)
(*                                                                         *)
(* parse_document inserts an extraction row and commits by itself, inside  *)
(* the worker's call; the worker then inserts its own row.  ARQ runs a job *)
(* again when its worker dies and never when it raises.                    *)
(***************************************************************************)
EXTENDS Naturals, Sequences

CONSTANTS
  Patch,       \* PATCH calls that carry the file's key
  Web,         \* web workers, each with a listener
  Document,    \* identities the rows of submission_documents may take (a bound)
  NoDocument,
  MaxTries,    \* WorkerSettings.max_tries
  MaxFaults    \* bound on deaths of processes and on parses that raise

ASSUME DocumentAssumption == NoDocument \notin Document
ASSUME TriesAssumption == MaxTries \in Nat \ {0} /\ MaxFaults \in Nat

VARIABLES
  url,       \* has the supplier's row the file's key?
  patch,     \* the PATCH calls
  handler,   \* on_supplier_document_uploaded, per delivery
  stored,    \* the document row a delivery has committed
  docs,      \* submission_documents: the committed rows
  job,       \* the ARQ job document_parse:{document_id}, or its kept result
  tries,     \* how often ARQ has started it
  worker,    \* process_document_parse, per document
  claim,     \* processed_jobs: the row document_parse:{document_id}
  rows,      \* extraction rows in order of creation: is each confirmed?
  faults

upload == <<url, patch>>
ingest == <<handler, stored, docs>>
queue == <<job, tries>>
parse == <<worker, claim>>
vars == <<url, patch, handler, stored, docs, job, tries, worker, claim, rows, faults>>

PatchPoint == {"idle", "read", "committed", "over"}
HandlerPoint == {"none", "arrived", "looked", "stored", "over"}
JobState == {"none", "queued", "running", "done", "failed"}
WorkerPoint == {"idle", "claimed", "parsed", "flagged"}
\* "open" is a row of a transaction that has not committed.
ClaimState == {"none", "open", "processing", "done"}

Init ==
  /\ url = FALSE
  /\ patch = [p \in Patch |-> "idle"]
  /\ handler = [x \in Patch \X Web |-> "none"]
  /\ stored = [x \in Patch \X Web |-> NoDocument]
  /\ docs = {}
  /\ job = [d \in Document |-> "none"]
  /\ tries = [d \in Document |-> 0]
  /\ worker = [d \in Document |-> "idle"]
  /\ claim = [d \in Document |-> "none"]
  /\ rows = [d \in Document |-> <<>>]
  /\ faults = 0

-----------------------------------------------------------------------------
(* update_supplier_detail *)

PatchReads(p) ==
  /\ patch[p] = "idle"
  \* a key the row already has is no upload
  /\ patch' = [patch EXCEPT ![p] = IF url THEN "over" ELSE "read"]
  /\ UNCHANGED <<url, ingest, queue, parse, rows, faults>>

PatchCommits(p) ==
  /\ patch[p] = "read"
  /\ url' = TRUE
  /\ patch' = [patch EXCEPT ![p] = "committed"]
  /\ UNCHANGED <<ingest, queue, parse, rows, faults>>

PublishesFirst(p) ==   \* mutant: the event leaves before the commit
  /\ patch[p] \in {"read", "committed"}
  /\ patch' = [patch EXCEPT ![p] = "over"]
  /\ handler' = [x \in Patch \X Web |-> IF x[1] = p THEN "arrived" ELSE handler[x]]
  /\ UNCHANGED <<url, stored, docs, queue, parse, rows, faults>>

\* NOTIFY reaches the listener of every web worker.
PatchPublishes(p) ==
  /\ patch[p] = "committed"
  /\ patch' = [patch EXCEPT ![p] = "over"]
  /\ handler' = [x \in Patch \X Web |-> IF x[1] = p THEN "arrived" ELSE handler[x]]
  /\ UNCHANGED <<url, stored, docs, queue, parse, rows, faults>>

-----------------------------------------------------------------------------
(* on_supplier_document_uploaded *)

\* get_submission_document_by_file_url: a known key is skipped.
HandlerLooks(x) ==
  /\ handler[x] = "arrived"
  /\ handler' = [handler EXCEPT ![x] = IF docs = {} THEN "looked" ELSE "over"]
  /\ UNCHANGED <<upload, stored, docs, queue, parse, rows, faults>>

\* The request row and the document row are committed together.
HandlerStores(x) ==
  /\ handler[x] = "looked"
  /\ \E d \in Document \ docs :
       /\ docs' = docs \cup {d}
       /\ stored' = [stored EXCEPT ![x] = d]
  /\ handler' = [handler EXCEPT ![x] = "stored"]
  /\ UNCHANGED <<upload, queue, parse, rows, faults>>

\* enqueue: ARQ drops a job whose id is queued, running or kept as a result.
Enqueue(d) ==
  IF job[d] = "none"
    THEN /\ job' = [job EXCEPT ![d] = "queued"]
         /\ tries' = [tries EXCEPT ![d] = 0]
    ELSE UNCHANGED queue

EnqueuesNothing(x) ==   \* mutant: the handler returns after the commit
  /\ handler[x] = "stored"
  /\ handler' = [handler EXCEPT ![x] = "over"]
  /\ UNCHANGED <<upload, stored, docs, queue, parse, rows, faults>>

HandlerEnqueues(x) ==
  /\ handler[x] = "stored"
  /\ Enqueue(stored[x])
  /\ handler' = [handler EXCEPT ![x] = "over"]
  /\ UNCHANGED <<upload, stored, docs, parse, rows, faults>>

\* trigger_document_parse_endpoint
ParseRequested(d) ==
  /\ d \in docs
  /\ job[d] = "none"
  /\ Enqueue(d)
  /\ UNCHANGED <<upload, ingest, parse, rows, faults>>

-----------------------------------------------------------------------------
(* process_document_parse *)

StartsUnclaimed(d) ==   \* mutant: the outcome of the claim is not looked at
  /\ job[d] = "queued"
  /\ tries[d] < MaxTries
  /\ tries' = [tries EXCEPT ![d] = @ + 1]
  /\ job' = [job EXCEPT ![d] = "running"]
  /\ claim' = [claim EXCEPT ![d] = "open"]
  /\ worker' = [worker EXCEPT ![d] = "claimed"]
  /\ UNCHANGED <<upload, ingest, rows, faults>>

\* claim_job: the primary key lets the first claim pass.
JobStarts(d) ==
  /\ job[d] = "queued"
  /\ tries[d] < MaxTries
  /\ tries' = [tries EXCEPT ![d] = @ + 1]
  /\ IF claim[d] = "none"
       THEN /\ job' = [job EXCEPT ![d] = "running"]
            /\ claim' = [claim EXCEPT ![d] = "open"]
            /\ worker' = [worker EXCEPT ![d] = "claimed"]
       ELSE /\ job' = [job EXCEPT ![d] = "done"]
            /\ UNCHANGED parse
  /\ UNCHANGED <<upload, ingest, rows, faults>>

\* parse_document inserts a row and commits, the claim with it.
ParseCommits(d) ==
  /\ worker[d] = "claimed"
  /\ worker' = [worker EXCEPT ![d] = "parsed"]
  /\ claim' = [claim EXCEPT ![d] = "processing"]
  /\ rows' = [rows EXCEPT ![d] = Append(@, FALSE)]
  /\ UNCHANGED <<upload, ingest, queue, faults>>

\* A file it cannot read makes it return a flag, with nothing stored.
ParseFlags(d) ==
  /\ worker[d] = "claimed"
  /\ worker' = [worker EXCEPT ![d] = "flagged"]
  /\ UNCHANGED <<upload, ingest, queue, claim, rows, faults>>

\* The worker's own row, mark_job_done and the commit.
WorkerRecords(d) ==
  /\ worker[d] \in {"parsed", "flagged"}
  /\ worker' = [worker EXCEPT ![d] = "idle"]
  /\ claim' = [claim EXCEPT ![d] = "done"]
  /\ rows' = [rows EXCEPT ![d] = Append(@, FALSE)]
  /\ job' = [job EXCEPT ![d] = "done"]
  /\ UNCHANGED <<upload, ingest, tries, faults>>

\* What a rollback leaves of the claim.
RolledBack(d) ==
  claim' = [claim EXCEPT ![d] = IF @ = "open" THEN "none" ELSE @]

RaiseKeepsJob(d) ==   \* mutant: a parse that raises leaves its job marked running
  /\ worker[d] # "idle"
  /\ faults < MaxFaults
  /\ faults' = faults + 1
  /\ worker' = [worker EXCEPT ![d] = "idle"]
  /\ RolledBack(d)
  /\ UNCHANGED <<upload, ingest, queue, rows>>

\* S3, the model or the database raises: ARQ does not run the job again.
WorkerRaises(d) ==
  /\ worker[d] # "idle"
  /\ faults < MaxFaults
  /\ faults' = faults + 1
  /\ worker' = [worker EXCEPT ![d] = "idle"]
  /\ RolledBack(d)
  /\ job' = [job EXCEPT ![d] = "failed"]
  /\ UNCHANGED <<upload, ingest, tries, rows>>

WorkerDies(d) ==
  /\ worker[d] # "idle"
  /\ faults < MaxFaults
  /\ faults' = faults + 1
  /\ worker' = [worker EXCEPT ![d] = "idle"]
  /\ RolledBack(d)
  /\ job' = [job EXCEPT ![d] = IF tries[d] < MaxTries THEN "queued" ELSE "failed"]
  /\ UNCHANGED <<upload, ingest, tries, rows>>

\* ARQ keeps a result for an hour.
ResultExpires(d) ==
  /\ job[d] \in {"done", "failed"}
  /\ job' = [job EXCEPT ![d] = "none"]
  /\ UNCHANGED <<upload, ingest, tries, parse, rows, faults>>

\* confirm_extraction_result: the latest row of the document.
Confirm(d) ==
  /\ rows[d] # <<>>
  /\ rows' = [rows EXCEPT ![d] = [@ EXCEPT ![Len(@)] = TRUE]]
  /\ UNCHANGED <<upload, ingest, queue, parse, faults>>

\* The web worker that runs a PATCH or a delivery dies.
PatchDies(p) ==
  /\ patch[p] \in {"read", "committed"}
  /\ faults < MaxFaults
  /\ faults' = faults + 1
  /\ patch' = [patch EXCEPT ![p] = "over"]
  /\ UNCHANGED <<url, ingest, queue, parse, rows>>

HandlerDies(x) ==
  /\ handler[x] \in {"arrived", "looked", "stored"}
  /\ faults < MaxFaults
  /\ faults' = faults + 1
  /\ handler' = [handler EXCEPT ![x] = "over"]
  /\ UNCHANGED <<upload, stored, docs, queue, parse, rows>>

-----------------------------------------------------------------------------
PatchStep(p) == PatchCommits(p) \/ PatchPublishes(p)
HandlerStep(x) == HandlerLooks(x) \/ HandlerStores(x) \/ HandlerEnqueues(x)
ParseStep(d) ==
  JobStarts(d) \/ ParseCommits(d) \/ ParseFlags(d) \/ WorkerRecords(d)

Next ==
  \/ \E p \in Patch : PatchReads(p) \/ PatchStep(p) \/ PatchDies(p)
  \/ \E x \in Patch \X Web : HandlerStep(x) \/ HandlerDies(x)
  \/ \E d \in Document :
       \/ ParseStep(d) \/ WorkerRaises(d) \/ WorkerDies(d)
       \/ ParseRequested(d) \/ ResultExpires(d) \/ Confirm(d)

Spec == Init /\ [][Next]_vars

\* A call, a delivery or a job that has begun goes on.
FairSpec ==
  /\ Spec
  /\ \A p \in Patch : WF_vars(PatchStep(p))
  /\ \A x \in Patch \X Web : WF_vars(HandlerStep(x))
  /\ \A d \in Document : WF_vars(ParseStep(d))

-----------------------------------------------------------------------------
(* Properties *)

\* Every variable has its type.
TypeOK ==
  /\ url \in BOOLEAN
  /\ patch \in [Patch -> PatchPoint]
  /\ handler \in [Patch \X Web -> HandlerPoint]
  /\ stored \in [Patch \X Web -> Document \cup {NoDocument}]
  /\ docs \in SUBSET Document
  /\ job \in [Document -> JobState]
  /\ tries \in [Document -> 0..MaxTries]
  /\ worker \in [Document -> WorkerPoint]
  /\ claim \in [Document -> ClaimState]
  /\ rows \in [Document -> Seq(BOOLEAN)]
  /\ faults \in 0..MaxFaults

\* A file is registered only after the PATCH that names it was committed: an
\* event is never ahead of its row.
IngestFollowsCommit ==
  /\ \A p \in Patch : patch[p] = "committed" => url
  /\ \A x \in Patch \X Web : handler[x] # "none" => url
  /\ docs # {} => url

\* A document is parsed at most once however often its job is started, by a
\* worker that died, by hand, or after the result was forgotten: its rows are
\* those of one call, and the claim tells how far that call got.
ParsedOnce ==
  \A d \in Document :
    /\ claim[d] \in {"none", "open"} => rows[d] = <<>>
    /\ claim[d] = "processing" => Len(rows[d]) = 1
    /\ claim[d] = "done" => Len(rows[d]) \in {1, 2}

\* The claim is open exactly while a worker holds its transaction, so that no
\* death leaves a claim behind that blocks a document nobody has parsed.
ClaimIsHeld ==
  \A d \in Document :
    /\ claim[d] = "open" <=> worker[d] \in {"claimed", "flagged"}
    /\ worker[d] = "parsed" => claim[d] = "processing"
    /\ worker[d] # "idle" <=> job[d] = "running"
    /\ job[d] = "queued" => tries[d] < MaxTries

\* Only registered documents have a job, a claim or rows.
JobsAreStored ==
  /\ \A x \in Patch \X Web : handler[x] = "stored" => stored[x] \in docs
  /\ \A d \in Document \ docs : job[d] = "none" /\ claim[d] = "none" /\ rows[d] = <<>>

\* The inductive invariant.
DocumentInv ==
  /\ TypeOK
  /\ IngestFollowsCommit
  /\ ParsedOnce
  /\ ClaimIsHeld
  /\ JobsAreStored

\* A job that was queued ends, whatever dies or raises on the way.
EveryJobSettles ==
  \A d \in Document : job[d] = "queued" ~> job[d] \in {"none", "done", "failed"}

\* While nothing dies and no parse raises, a file whose key was committed gets
\* its extraction: at least one of the documents registered for it is parsed.
UploadIsParsed == url ~> (\E d \in Document : claim[d] = "done") \/ faults > 0
=============================================================================
