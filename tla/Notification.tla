----------------------------- MODULE Notification -----------------------------
(***************************************************************************)
(* Notices to the people of one supplier: the notice and the mail that     *)
(* announce a data request, and the reminders of an overdue request.       *)
(* Notices are jobs of notification_queue, kept in one row per             *)
(* deduplication key.                                                      *)
(*                                                                         *)
(* Two ARQ workers poll notification_queue, each with one function: a job  *)
(* taken by the worker that does not know its function fails for good.     *)
(***************************************************************************)
EXTENDS Naturals, FiniteSets

CONSTANTS
  User,        \* active accounts of the supplier
  Reminder,    \* runs of send_overdue_reminders, by cron or by the endpoint
  MaxTries,    \* WorkerSettings.max_tries
  MaxMishaps   \* bound on deaths of processes and on jobs that raise

ASSUME TriesAssumption == MaxTries \in Nat \ {0} /\ MaxMishaps \in Nat
ASSUME ReminderAssumption == "request" \notin Reminder /\ IsFiniteSet(Reminder)

Sender == Reminder \cup {"request"}
Kind == {"sla_reminder", "data_request_sent", "data_request_email"}

\* dedup_key names the request, which is fixed here, the kind and the user.
Key == Kind \X User

\* A job is one call of enqueue: a sender sends one per kind of its and user.
KindsOf(s) == IF s = "request" THEN {"data_request_sent", "data_request_email"}
                               ELSE {"sla_reminder"}
Job == UNION {{s} \X (KindsOf(s) \X User) : s \in Sender}

VARIABLES
  sender,    \* create_and_request_submission and the reminder runs
  job,       \* the jobs of notification_queue
  tries,
  notice,    \* notifications: status of the row with a key
  owner,     \* history: the senders whose job stored the row with a key
  mails,     \* mails SES has accepted for a key
  count,     \* data_request_log.reminder_count
  mishaps

requests == <<sender, count>>
notices == <<notice, owner, mails>>
queue == <<job, tries>>
noticeVars == <<sender, job, tries, notice, owner, mails, count, mishaps>>

\* "stored": the job has committed its row and its worker goes on; "mailed": SES
\* has the mail; "known": the key was there, the job ends without a row of its own.
JobState == {"none", "queued", "stored", "mailed", "done", "known", "unknown", "failed"}
SenderState == {"idle", "sending", "over", "dead"}

NoticeInit ==
  /\ sender = [s \in Sender |-> "idle"]
  /\ job = [j \in Job |-> "none"]
  /\ tries = [j \in Job |-> 0]
  /\ notice = [k \in Key |-> "none"]
  /\ owner = [k \in Key |-> {}]
  /\ mails = [k \in Key |-> 0]
  /\ count = 0
  /\ mishaps = 0

-----------------------------------------------------------------------------
(* create_and_request_submission, send_overdue_reminders *)

\* The request is committed first; only a committed request can be overdue.
SenderStarts(s) ==
  /\ sender[s] = "idle"
  /\ s \in Reminder => sender["request"] # "idle"
  /\ sender' = [sender EXCEPT ![s] = "sending"]
  /\ UNCHANGED <<queue, notices, count, mishaps>>

SenderEnqueues(s) ==
  /\ sender[s] = "sending"
  /\ \E k \in KindsOf(s) \X User :
       /\ job[<<s, k>>] = "none"
       /\ job' = [job EXCEPT ![<<s, k>>] = "queued"]
  /\ UNCHANGED <<requests, tries, notices, mishaps>>

CountsFirst(s) ==   \* mutant: the run counts before its last job is enqueued
  /\ sender[s] = "sending"
  /\ sender' = [sender EXCEPT ![s] = "over"]
  /\ count' = IF s \in Reminder THEN count + 1 ELSE count
  /\ UNCHANGED <<queue, notices, mishaps>>

\* A reminder run counts after the last user, and commits.
SenderEnds(s) ==
  /\ sender[s] = "sending"
  /\ \A k \in KindsOf(s) \X User : job[<<s, k>>] # "none"
  /\ sender' = [sender EXCEPT ![s] = "over"]
  /\ count' = IF s \in Reminder THEN count + 1 ELSE count
  /\ UNCHANGED <<queue, notices, mishaps>>

\* A run that dies has counted nothing and leaves its jobs; what ARQ starts again
\* of the cron job is a run of its own.
SenderDies(s) ==
  /\ sender[s] = "sending"
  /\ mishaps < MaxMishaps
  /\ mishaps' = mishaps + 1
  /\ sender' = [sender EXCEPT ![s] = "dead"]
  /\ UNCHANGED <<queue, notices, count>>

-----------------------------------------------------------------------------
(* process_notification *)

StoredAnyway(j) ==   \* mutant: a known key is not noticed
  LET k == j[2] IN
  /\ job[j] = "queued"
  /\ tries[j] < MaxTries
  /\ tries' = [tries EXCEPT ![j] = @ + 1]
  /\ notice' = [notice EXCEPT ![k] = IF @ = "none" THEN "pending" ELSE @]
  /\ owner' = [owner EXCEPT ![k] = @ \cup {j[1]}]
  /\ job' = [job EXCEPT ![j] = "stored"]
  /\ UNCHANGED <<requests, mails, mishaps>>

StoresNothing(j) ==   \* mutant: the transaction is left without a commit
  /\ job[j] = "queued"
  /\ tries[j] < MaxTries
  /\ tries' = [tries EXCEPT ![j] = @ + 1]
  /\ job' = [job EXCEPT ![j] = IF notice[j[2]] = "none" THEN "stored" ELSE "known"]
  /\ UNCHANGED <<requests, notices, mishaps>>

\* INSERT ... ON CONFLICT DO NOTHING, then the commit: a known key ends the job.
NoticeStored(j) ==
  LET k == j[2] IN
  /\ job[j] = "queued"
  /\ tries[j] < MaxTries
  /\ tries' = [tries EXCEPT ![j] = @ + 1]
  /\ \/ /\ notice[k] = "none"
        /\ notice' = [notice EXCEPT ![k] = "pending"]
        /\ owner' = [owner EXCEPT ![k] = @ \cup {j[1]}]
        /\ job' = [job EXCEPT ![j] = "stored"]
     \/ /\ notice[k] # "none"
        /\ job' = [job EXCEPT ![j] = "known"]
        /\ UNCHANGED <<notice, owner>>
  /\ UNCHANGED <<requests, mails, mishaps>>

Mailed(k) == k[1] = "data_request_email"

\* An in-app notice is only stored; the worker returns.
WorkerReturns(j) ==
  /\ job[j] = "stored"
  /\ ~ Mailed(j[2])
  /\ job' = [job EXCEPT ![j] = "done"]
  /\ UNCHANGED <<requests, tries, notices, mishaps>>

\* send_email never raises: mail is off, has no address or is refused, and the
\* row stays pending; or SES takes it.
MailSent(j) ==
  /\ job[j] = "stored"
  /\ Mailed(j[2])
  /\ \/ /\ mails' = [mails EXCEPT ![j[2]] = @ + 1]
        /\ job' = [job EXCEPT ![j] = "mailed"]
     \/ /\ UNCHANGED mails
        /\ job' = [job EXCEPT ![j] = "done"]
  /\ UNCHANGED <<requests, tries, notice, owner, mishaps>>

MailMarked(j) ==
  /\ job[j] = "mailed"
  /\ notice' = [notice EXCEPT ![j[2]] = "sent"]
  /\ job' = [job EXCEPT ![j] = "done"]
  /\ UNCHANGED <<requests, tries, owner, mails, mishaps>>

\* A job whose worker raises is not run again; nothing raises after the commit
\* of an in-app notice.
WorkerRaises(j) ==
  /\ job[j] \in {"queued", "stored", "mailed"}
  /\ job[j] = "stored" => Mailed(j[2])
  /\ mishaps < MaxMishaps
  /\ mishaps' = mishaps + 1
  /\ job' = [job EXCEPT ![j] = "failed"]
  /\ UNCHANGED <<requests, tries, notices>>

\* A start that dies before the commit has used a try and left nothing else.
Starts(j) == IF job[j] = "queued" THEN tries[j] + 1 ELSE tries[j]

WorkerDiesForever(j) ==   \* mutant: the last try is taken for one that can be repeated
  /\ job[j] \in {"queued", "stored", "mailed"}
  /\ Starts(j) <= MaxTries
  /\ mishaps < MaxMishaps
  /\ mishaps' = mishaps + 1
  /\ tries' = [tries EXCEPT ![j] = Starts(j)]
  /\ job' = [job EXCEPT ![j] = "queued"]
  /\ UNCHANGED <<requests, notices>>

\* The worker dies and ARQ starts the job again, MaxTries times in all.
WorkerDies(j) ==
  /\ job[j] \in {"queued", "stored", "mailed"}
  /\ Starts(j) <= MaxTries
  /\ mishaps < MaxMishaps
  /\ mishaps' = mishaps + 1
  /\ tries' = [tries EXCEPT ![j] = Starts(j)]
  /\ job' = [job EXCEPT ![j] = IF Starts(j) < MaxTries THEN "queued" ELSE "failed"]
  /\ UNCHANGED <<requests, notices>>

\* submission_worker polls the same queue and has no process_notification.
TakenBySubmissionWorker(j) ==
  /\ job[j] = "queued"
  /\ job' = [job EXCEPT ![j] = "unknown"]
  /\ UNCHANGED <<requests, tries, notices, mishaps>>

\* mark_notification_read: the list shows a user the in-app notices only.
MarkRead(k) ==
  /\ notice[k] = "pending"
  /\ ~ Mailed(k)
  /\ notice' = [notice EXCEPT ![k] = "read"]
  /\ UNCHANGED <<requests, queue, owner, mails, mishaps>>

-----------------------------------------------------------------------------
JobStep(j) == NoticeStored(j) \/ WorkerReturns(j) \/ MailSent(j) \/ MailMarked(j)
SenderStep(s) == SenderEnqueues(s) \/ SenderEnds(s)

NoticeNext ==
  \/ \E s \in Sender : SenderStarts(s) \/ SenderStep(s) \/ SenderDies(s)
  \/ \E j \in Job : JobStep(j) \/ WorkerRaises(j) \/ WorkerDies(j) \/ TakenBySubmissionWorker(j)
  \/ \E k \in Key : MarkRead(k)

NoticeSpec == NoticeInit /\ [][NoticeNext]_noticeVars

\* The notification worker polls; calls and deliveries that have begun go on.
FairNoticeSpec ==
  /\ NoticeSpec
  /\ \A s \in Sender : WF_noticeVars(SenderStep(s))
  /\ \A j \in Job : WF_noticeVars(JobStep(j))

-----------------------------------------------------------------------------
(* Properties *)

\* Every variable has its type.
NoticeTypeOK ==
  /\ sender \in [Sender -> SenderState]
  /\ job \in [Job -> JobState]
  /\ tries \in [Job -> 0..MaxTries]
  /\ notice \in [Key -> {"none", "pending", "sent", "read"}]
  /\ owner \in [Key -> SUBSET Sender]
  /\ mails \in [Key -> Nat]
  /\ count \in Nat
  /\ mishaps \in 0..MaxMishaps

\* No mail is sent twice, wherever a worker dies and however often ARQ starts
\* its job again: the row is committed before the mail and found by the retry.
MailedAtMostOnce == \A k \in Key : mails[k] <= 1

\* A notice marked sent was mailed.
SentIsMailed == \A k \in Key : notice[k] = "sent" => mails[k] = 1

\* Only the job that stored the row of a mail sends it, and marks it only then.
MailerHoldsRow ==
  /\ \A j \in Job :
       /\ job[j] = "mailed" => Mailed(j[2])
       /\ job[j] \in {"stored", "mailed"} /\ Mailed(j[2]) => notice[j[2]] = "pending"
       /\ job[j] = "stored" => mails[j[2]] = 0
       /\ job[j] = "mailed" => mails[j[2]] = 1
  /\ \A k \in Key : notice[k] = "none" \/ ~ Mailed(k) => mails[k] = 0

\* A row is the work of one job, also when that job was started again; a job that
\* is through has stored the row, or found it: its own only after a death between
\* the commit and its end, which is how a mail is given up unsent.
RowIsOneJobs ==
  /\ \A k \in Key :
       /\ notice[k] = "none" <=> owner[k] = {}
       /\ \A s, t \in owner[k] : s = t
  /\ \A j \in Job :
       /\ job[j] \in {"stored", "mailed", "done"} => j[1] \in owner[j[2]]
       /\ job[j] = "known" => notice[j[2]] # "none"
       /\ j[1] \in owner[j[2]] => tries[j] >= 1 /\ job[j] # "none"
       /\ job[j] = "known" /\ j[1] \in owner[j[2]] => tries[j] >= 2

\* The inductive invariant.
NotificationInv ==
  NoticeTypeOK /\ MailedAtMostOnce /\ SentIsMailed /\ MailerHoldsRow /\ RowIsOneJobs

\* The reminder runs whose notice to a user is in one of these states.
RemindersIn(u, states) == {s \in Reminder : job[<<s, <<"sla_reminder", u>>>>] \in states}

\* reminder_count tells nobody how often a user was reminded.  It never runs ahead
\* of the notices enqueued for any one user, however runs, deaths and the two
\* workers interleave; while the user has been shown none, as many as were counted
\* are queued or lost; and of all that were counted at most one is ever shown,
\* for the key of a reminder has no date.
CountAgainstNotices ==
  \A u \in User :
    /\ count <= Cardinality(RemindersIn(u, JobState \ {"none"}))
    /\ notice[<<"sla_reminder", u>>] = "none"
       => count <= Cardinality(RemindersIn(u, {"queued", "unknown", "failed"}))
    /\ Cardinality(RemindersIn(u, {"stored", "done"})) <= 1

\* In the end every job that was enqueued has stored the row of its key itself,
\* unless the worker that does not know the function took it, it failed, or, among
\* reminders only, another run's notice has the key: such a job ends unshown, also
\* when its run was counted (process_notification, send_overdue_reminders).
EnqueuedIsStored ==
  <>[] \A j \in Job : job[j] # "none" =>
         \/ j[1] \in owner[j[2]]
         \/ job[j] \in {"unknown", "failed"}
         \/ j[1] \in Reminder /\ owner[j[2]] \cap (Reminder \ {j[1]}) # {}
=============================================================================
