---------------------------- MODULE Requests_proofs ----------------------------
(***************************************************************************)
(* The inductive invariants of a data request (Submission) and of its      *)
(* notices and reminders (Notification).  No name of one is a name of the  *)
(* other, and no theorem here is about both.                               *)
(***************************************************************************)
EXTENDS Submission, Notification, FiniteSetTheorems, TLAPS

-----------------------------------------------------------------------------
(***************************************************************************)
(* Submission: racing calls enqueue the pipeline of a request at most      *)
(* once, and only for a batch that the request has held.  One lemma for    *)
(* each group of actions.                                                  *)
(***************************************************************************)
\* Nothing has arrived, nothing is recorded, stored or started.
LEMMA InitSubmission == Init => SubmissionInv
<1>. SUFFICES ASSUME Init PROVE SubmissionInv
  OBVIOUS
<1>1. IdleCall \in CallState
  BY DEF IdleCall, CallState, CallPoint, SubmissionStatus
<1>2. TypeOK
  <2>1. status \in SubmissionStatus /\ 0 \in 0..MaxFaults
    BY SeedsAssumption, BoundAssumption DEF Init
  <2>2. call \in [Call -> CallState]
    BY <1>1 DEF Init
  <2>. QED
    BY <2>1, <2>2 DEF Init, TypeOK
<1>3. \A c \in Call : call[c].pc = "idle" /\ call[c].op = "none"
  BY DEF Init, IdleCall
<1>. QED
  BY <1>2, <1>3 DEF Init, SubmissionInv, TriggerIsExclusive,
     PipelineEnqueuedOnce, BatchIsStored, OnlyStoredBatchesStart

\* A call that arrives or loads the request changes nothing but itself, and
\* brings a batch that is new, or the one the request holds.
LEMMA ArrivalPreserves ==
  ASSUME SubmissionInv, NEW c \in Call, CallArrives(c) \/ SubmitLoads(c)
  PROVE  SubmissionInv'
<1> USE DEF SubmissionInv
<1>1. CASE SubmitCreatesBatch(c)
  <2>1. PICK b \in Batch :
          /\ batches' = batches \cup {b}
          /\ call' = [call EXCEPT ![c] = [pc |-> "batched", op |-> "submit",
                                          seen |-> IdleCall.seen, batch |-> b]]
    BY <1>1 DEF SubmitCreatesBatch
  <2>2. call' = [call EXCEPT ![c] = [pc |-> "batched", op |-> "submit",
                                     seen |-> "requested", batch |-> b]]
    BY <2>1 DEF IdleCall
  <2>3. TypeOK'
    <3>1. [pc |-> "batched", op |-> "submit", seen |-> "requested", batch |-> b]
            \in CallState
      BY DEF CallState, CallPoint, Endpoints, SubmissionStatus
    <3>2. call' \in [Call -> CallState]
      BY <2>2, <3>1 DEF TypeOK
    <3>3. batches' \subseteq Batch
      BY <2>1 DEF TypeOK
    <3>. QED
      BY <1>1, <3>2, <3>3 DEF SubmitCreatesBatch, row, pipeline, TypeOK
  <2>. QED
    BY <1>1, <2>2, <2>3 DEF SubmitCreatesBatch, row, pipeline, TypeOK,
       TriggerIsExclusive, PipelineEnqueuedOnce, BatchIsStored,
       OnlyStoredBatchesStart
<1>2. CASE ApproveLoads(c)
  BY <1>2 DEF ApproveLoads, row, pipeline, TypeOK, CallState, CallPoint,
     Endpoints, SubmissionStatus, TriggerIsExclusive, PipelineEnqueuedOnce,
     BatchIsStored, OnlyStoredBatchesStart
<1>3. CASE OtherArrives(c)
  <2>1. PICK op \in (Endpoints \cup Manual) \ {"submit", "approve"} :
          call' = [call EXCEPT ![c] = [pc |-> "loaded", op |-> op,
                                       seen |-> status, batch |-> NoBatch]]
    BY <1>3, OpsAssumption DEF OtherArrives
  <2>2. TypeOK'
    <3>1. [pc |-> "loaded", op |-> op, seen |-> status, batch |-> NoBatch]
            \in CallState
      BY DEF TypeOK, CallState, CallPoint
    <3>2. call' \in [Call -> CallState]
      BY <2>1, <3>1 DEF TypeOK
    <3>. QED
      BY <1>3, <3>2 DEF OtherArrives, row, pipeline, TypeOK
  <2>. QED
    BY <1>3, <2>1, <2>2 DEF OtherArrives, row, pipeline, TypeOK,
       TriggerIsExclusive, PipelineEnqueuedOnce, BatchIsStored,
       OnlyStoredBatchesStart
<1>4. CASE SubmitLoads(c)
  BY <1>4 DEF SubmitLoads, Ends, row, pipeline, TypeOK, CallState, CallPoint,
     IdleCall, Endpoints, SubmissionStatus, TriggerIsExclusive,
     PipelineEnqueuedOnce, BatchIsStored, OnlyStoredBatchesStart
<1>. QED
  BY <1>1, <1>2, <1>3, <1>4 DEF CallArrives

\* A submission that commits stores its batch; the trigger is not touched.
LEMMA TransitionPreserves ==
  ASSUME SubmissionInv, NEW c \in Call, TransitionSubmission(c)
  PROVE  SubmissionInv'
<1> USE DEF SubmissionInv
<1>1. CASE Target(call[c].op) \in Transitions(Seen(c))
  <2>1. /\ call' = [call EXCEPT ![c].pc = "committed"]
        /\ status' = Target(call[c].op)
        /\ batch' = IF call[c].op = "submit" THEN call[c].batch ELSE batch
        /\ stored' = IF call[c].op = "submit" THEN stored \cup {call[c].batch}
                                              ELSE stored
        /\ UNCHANGED <<batches, trigger, jobs, enqueues, started, faults>>
    BY <1>1 DEF TransitionSubmission, pipeline
  <2>2. Target(call[c].op) \in SubmissionStatus
    BY DEF Target, SubmissionStatus
  <2>3. call[c].pc = "loaded" /\ call[c] \in CallState
    BY DEF TransitionSubmission, TypeOK
  <2>4. \A d \in Call : /\ call'[d].op = call[d].op
                        /\ call'[d].batch = call[d].batch
                        /\ d # c => call'[d].pc = call[d].pc
                        /\ d = c => call'[d].pc = "committed"
    BY <2>1 DEF TypeOK, CallState
  <2>5. call[c].op = "submit" => call[c].batch \in Batch
    BY DEF BatchIsStored
  <2>6. TypeOK'
    <3>1. call' \in [Call -> CallState]
      BY <2>1, <2>3 DEF TypeOK, CallState, CallPoint
    <3>2. batch' \in Batch \cup {NoBatch} /\ stored' \subseteq Batch
      BY <2>1, <2>5 DEF TypeOK
    <3>. QED
      BY <2>1, <2>2, <3>1, <3>2 DEF TypeOK
  <2>7. TriggerIsExclusive'
    BY <2>1, <2>4 DEF TriggerIsExclusive
  <2>8. BatchIsStored'
    BY <2>1, <2>3, <2>4 DEF BatchIsStored
  <2>. QED
    BY <2>1, <2>6, <2>7, <2>8 DEF PipelineEnqueuedOnce, OnlyStoredBatchesStart
<1>2. CASE Target(call[c].op) \notin Transitions(Seen(c))
  BY <1>2 DEF TransitionSubmission, Ends, row, pipeline, TypeOK, CallState,
     CallPoint, IdleCall, SubmissionStatus, TriggerIsExclusive,
     PipelineEnqueuedOnce, BatchIsStored, OnlyStoredBatchesStart
<1>. QED
  BY <1>1, <1>2

\* The events name the batch the call has committed or loaded.
LEMMA PublishPreserves ==
  ASSUME SubmissionInv, NEW c \in Call, Publishes(c)
  PROVE  SubmissionInv'
<1> USE DEF SubmissionInv
<1>1. call[c].op \in {"submit", "approve"} =>
        call[c].batch \in stored \cup {NoBatch}
  BY DEF Publishes, BatchIsStored
<1>2. started' \subseteq stored
  BY <1>1 DEF Publishes, OnlyStoredBatchesStart
<1>. QED
  BY <1>2 DEF Publishes, Ends, row, pipeline, TypeOK, CallState, CallPoint,
     IdleCall, SubmissionStatus, TriggerIsExclusive, PipelineEnqueuedOnce,
     BatchIsStored, OnlyStoredBatchesStart

\* Recording the trigger makes the call the only one to enqueue; a second
\* record fails on the primary key.
LEMMA TriggerPreserves ==
  ASSUME SubmissionInv, NEW c \in Call, TriggerChecks(c) \/ TriggerRecords(c)
  PROVE  SubmissionInv'
<1> USE DEF SubmissionInv
<1>1. CASE TriggerChecks(c)
  BY <1>1 DEF TriggerChecks, Ends, row, pipeline, TypeOK, CallState, CallPoint,
     IdleCall, SubmissionStatus, TriggerIsExclusive, PipelineEnqueuedOnce,
     BatchIsStored, OnlyStoredBatchesStart
<1>2. CASE TriggerRecords(c)
  BY <1>2 DEF TriggerRecords, Ends, row, TypeOK, CallState, CallPoint, IdleCall,
     SubmissionStatus, TriggerIsExclusive, PipelineEnqueuedOnce, BatchIsStored,
     OnlyStoredBatchesStart
<1>. QED
  BY <1>1, <1>2

\* The call that recorded the trigger enqueues, once, a batch that was stored.
LEMMA EnqueuePreserves ==
  ASSUME SubmissionInv, NEW c \in Call, PipelineEnqueues(c)
  PROVE  SubmissionInv'
<1> USE DEF SubmissionInv
<1>1. enqueues = 0 /\ trigger = TRUE /\ call[c].batch \in stored
  BY DEF PipelineEnqueues, TriggerIsExclusive, BatchIsStored, TypeOK
<1>2. /\ jobs' = jobs \cup {call[c].batch}
      /\ enqueues' = 1
      /\ call' = [call EXCEPT ![c] = IdleCall]
      /\ UNCHANGED <<status, batch, stored, batches, trigger, started, faults>>
  BY <1>1 DEF PipelineEnqueues, Ends, row
<1>3. \A d \in Call : call'[d].pc # "recorded"
  BY <1>2 DEF PipelineEnqueues, TriggerIsExclusive, TypeOK, IdleCall
<1>. QED
  BY <1>1, <1>2, <1>3 DEF TypeOK, CallState, CallPoint, IdleCall,
     SubmissionStatus, TriggerIsExclusive, PipelineEnqueuedOnce, BatchIsStored,
     OnlyStoredBatchesStart

\* A call that dies leaves what it had committed.
LEMMA DeathPreserves ==
  ASSUME SubmissionInv, NEW c \in Call, CallDies(c)
  PROVE  SubmissionInv'
<1>1. faults' \in 0..MaxFaults
  BY BoundAssumption DEF CallDies, SubmissionInv, TypeOK
<1>. QED
  BY <1>1 DEF CallDies, Ends, row, pipeline, SubmissionInv, TypeOK, CallState,
     CallPoint, IdleCall, SubmissionStatus, TriggerIsExclusive,
     PipelineEnqueuedOnce, BatchIsStored, OnlyStoredBatchesStart

-----------------------------------------------------------------------------
\* The invariant of a data request: whatever calls race, wait or die, the
\* primary key of processed_jobs lets one approval through, and batches come
\* from submissions that were accepted.
THEOREM SubmissionInvariant == Spec => []SubmissionInv
<1>1. SubmissionInv /\ [Next]_vars => SubmissionInv'
  <2>. SUFFICES ASSUME SubmissionInv, [Next]_vars PROVE SubmissionInv'
    OBVIOUS
  <2>1. CASE UNCHANGED vars
    BY <2>1 DEF vars, SubmissionInv, TypeOK, TriggerIsExclusive,
       PipelineEnqueuedOnce, BatchIsStored, OnlyStoredBatchesStart
  <2>2. CASE Next
    BY <2>2, ArrivalPreserves, TransitionPreserves, PublishPreserves,
       TriggerPreserves, EnqueuePreserves, DeathPreserves DEF Next, CallStep
  <2>. QED
    BY <2>1, <2>2
<1>. QED
  BY InitSubmission, <1>1, PTL DEF Spec

\* However many approvals race, the pipeline of a request is enqueued at most
\* once.
THEOREM EnqueuedOnce == Spec => []PipelineEnqueuedOnce
<1>1. SubmissionInv => PipelineEnqueuedOnce
  BY DEF SubmissionInv
<1>. QED
  BY <1>1, SubmissionInvariant, PTL

\* No graph is started for a batch of a refused submission.
THEOREM StartsAreStored == Spec => []OnlyStoredBatchesStart
<1>1. SubmissionInv => OnlyStoredBatchesStart
  BY DEF SubmissionInv
<1>. QED
  BY <1>1, SubmissionInvariant, PTL

\* A call that does not load the request before it locks it obeys the matrix.
THEOREM LockedCallsObey == Spec => LockedCallsFollowMatrix
<1> DEFINE A == \A c \in Call :
       call[c].op \notin {"submit", "approve"} /\ call[c].pc = "loaded"
       /\ call'[c].pc = "committed"
         => status' \in Transitions(status)
<1>1. TypeOK /\ [Next]_vars => [A]_vars
  <2>. SUFFICES ASSUME TypeOK, Next, NEW c \in Call,
                       call[c].op \notin {"submit", "approve"},
                       call[c].pc = "loaded", call'[c].pc = "committed"
                PROVE  status' \in Transitions(status)
    OBVIOUS
  <2>1. PICK d \in Call : CallArrives(d) \/ CallStep(d) \/ CallDies(d)
    BY DEF Next
  <2>2. call' = [call EXCEPT ![d] = call'[d]] /\ call \in [Call -> CallState]
    BY <2>1 DEF CallArrives, CallStep, CallDies, SubmitCreatesBatch, SubmitLoads,
       ApproveLoads, OtherArrives, TransitionSubmission, Publishes, TriggerChecks,
       TriggerRecords, PipelineEnqueues, Ends, TypeOK
  <2>3. c = d
    BY <2>2
  <2>4. ~ CallArrives(c) /\ ~ CallDies(c)
    BY <2>2 DEF CallArrives, CallDies, SubmitCreatesBatch, ApproveLoads,
       OtherArrives, Ends, IdleCall
  <2>5. TransitionSubmission(c)
    BY <2>1, <2>3, <2>4 DEF CallStep, SubmitLoads, Publishes, TriggerChecks,
       TriggerRecords, PipelineEnqueues
  <2>. QED
    BY <2>2, <2>5 DEF TransitionSubmission, Seen, Ends, IdleCall
<1>2. SubmissionInv => TypeOK
  BY DEF SubmissionInv
<1>. QED
  BY <1>1, <1>2, SubmissionInvariant, PTL DEF Spec, LockedCallsFollowMatrix

-----------------------------------------------------------------------------
(***************************************************************************)
(* Notification: a row committed before its mail makes every retry find    *)
(* it.  The invariant is inductive because the mail of a request has one   *)
(* sender, so the job that stored a row is the only one to mail it.        *)
(***************************************************************************)
\* The mail of a request has one sender: no two jobs share its key.
LEMMA MailHasOneJob ==
  ASSUME NEW i \in Job, NEW j \in Job,
         i[2] = j[2], i[2][1] = "data_request_email"
  PROVE  i = j
<1>1. PICK s \in Sender, t \in Sender :
        i \in {s} \X (KindsOf(s) \X User) /\ j \in {t} \X (KindsOf(t) \X User)
  BY DEF Job
<1>2. i[2][1] \in KindsOf(s) /\ j[2][1] \in KindsOf(t)
  BY <1>1
<1>3. s = "request" /\ t = "request"
  BY <1>2 DEF KindsOf
<1> QED
  BY <1>1, <1>3

\* The key of a job is the pair it sends.
LEMMA JobKey ==
  ASSUME NEW j \in Job
  PROVE  j[2] \in Key /\ j[2][1] \in Kind
<1>1. PICK s \in Sender : j \in {s} \X (KindsOf(s) \X User)
  BY DEF Job
<1>2. KindsOf(s) \subseteq Kind
  BY DEF KindsOf, Kind
<1> QED
  BY <1>1, <1>2 DEF Key

\* Two runs have two jobs for one user.
LEMMA ReminderJob ==
  ASSUME NEW s \in Reminder, NEW u \in User
  PROVE  <<s, <<"sla_reminder", u>>>> \in Job
BY ReminderAssumption DEF Job, KindsOf, Sender

\* The sender of a job.
LEMMA JobSender ==
  ASSUME NEW j \in Job
  PROVE  j[1] \in Sender /\ j = <<j[1], j[2]>>
BY DEF Job

LEMMA InitNotices == NoticeInit => NotificationInv
<1> SUFFICES ASSUME NoticeInit PROVE NotificationInv
  OBVIOUS
<1>1. NoticeTypeOK
  BY TriesAssumption DEF NoticeInit, NoticeTypeOK, JobState, SenderState
<1>2. \A j \in Job : j[2] \in Key
  BY JobKey
<1>3. RowIsOneJobs
  BY <1>2 DEF NoticeInit, RowIsOneJobs
<1> QED
  BY <1>1, <1>2, <1>3 DEF NoticeInit, NotificationInv, MailedAtMostOnce, SentIsMailed, MailerHoldsRow

\* The calls of the senders only put jobs on the queue.
LEMMA SenderPreserves ==
  ASSUME NotificationInv, NEW s \in Sender,
         SenderStarts(s) \/ SenderStep(s) \/ SenderDies(s)
  PROVE  NotificationInv'
<1> USE DEF NotificationInv
<1>1. NoticeTypeOK'
  <2>1. CASE SenderEnqueues(s)
    BY <2>1 DEF SenderEnqueues, NoticeTypeOK, JobState, requests, notices
  <2>2. CASE SenderStarts(s) \/ SenderEnds(s) \/ SenderDies(s)
    BY <2>2, TriesAssumption DEF SenderStarts, SenderEnds, SenderDies, NoticeTypeOK, SenderState,
       queue, notices
  <2> QED
    BY <2>1, <2>2 DEF SenderStep
<1>2. UNCHANGED <<notice, owner, mails, tries>>
  BY DEF SenderStarts, SenderStep, SenderEnqueues, SenderEnds, SenderDies, notices, queue
<1>3. \A j \in Job : job'[j] = job[j] \/ (job[j] = "none" /\ job'[j] = "queued")
  <2>1. CASE SenderEnqueues(s)
    BY <2>1 DEF SenderEnqueues, NoticeTypeOK
  <2> QED
    BY <2>1 DEF SenderStarts, SenderStep, SenderEnds, SenderDies, queue
<1>4. MailerHoldsRow'
  BY <1>2, <1>3 DEF MailerHoldsRow
<1>5. RowIsOneJobs'
  BY <1>2, <1>3 DEF RowIsOneJobs
<1> QED
  BY <1>1, <1>2, <1>4, <1>5 DEF MailedAtMostOnce, SentIsMailed

\* The row is committed before anything is mailed.
LEMMA StoredPreserves ==
  ASSUME NotificationInv, NEW j \in Job, NoticeStored(j)
  PROVE  NotificationInv'
<1> USE DEF NotificationInv
<1> DEFINE k == j[2]
<1>1. k \in Key /\ j[1] \in Sender
  BY JobKey, JobSender
<1>2. tries[j] \in 0..MaxTries /\ tries' = [tries EXCEPT ![j] = tries[j] + 1]
      /\ tries[j] + 1 \in 0..MaxTries /\ tries[j] + 1 >= 1
  BY TriesAssumption DEF NoticeStored, NoticeTypeOK
<1>3. \/ /\ notice[k] = "none"
         /\ notice' = [notice EXCEPT ![k] = "pending"]
         /\ owner' = [owner EXCEPT ![k] = owner[k] \cup {j[1]}]
         /\ job' = [job EXCEPT ![j] = "stored"]
      \/ /\ notice[k] # "none"
         /\ job' = [job EXCEPT ![j] = "known"]
         /\ UNCHANGED <<notice, owner>>
  BY DEF NoticeStored
<1>4. UNCHANGED mails /\ mails[k] \in Nat /\ (notice[k] = "none" => mails[k] = 0)
  BY <1>1 DEF NoticeStored, NoticeTypeOK, MailerHoldsRow
<1>5. NoticeTypeOK'
  <2>1. UNCHANGED <<sender, count, mails, mishaps>>
    BY DEF NoticeStored, requests
  <2> QED
    BY <1>1, <1>2, <1>3, <2>1 DEF NoticeTypeOK, JobState
<1>6. MailedAtMostOnce' /\ SentIsMailed'
  BY <1>1, <1>3, <1>4 DEF NoticeTypeOK, MailedAtMostOnce, SentIsMailed
<1>7. \A i \in Job : i # j => job'[i] = job[i] /\ tries'[i] = tries[i]
  BY <1>2, <1>3 DEF NoticeTypeOK
<1>8. \A q \in Key : q # k => notice'[q] = notice[q] /\ owner'[q] = owner[q]
  BY <1>1, <1>3 DEF NoticeTypeOK
<1>9. \A i \in Job : i[2] \in Key
  BY JobKey
<1>10. job'[j] \in {"stored", "known"} /\ tries'[j] = tries[j] + 1 /\ job[j] = "queued"
  BY <1>2, <1>3 DEF NoticeStored, NoticeTypeOK
<1>11. MailerHoldsRow'
  <2>1. CASE notice[k] = "none"
    <3>1. notice'[k] = "pending" /\ job'[j] = "stored"
      BY <1>1, <1>3, <2>1 DEF NoticeTypeOK
    <3>2. \A i \in Job : i # j /\ Mailed(i[2]) /\ job[i] \in {"stored", "mailed"} => i[2] # k
      BY <2>1 DEF MailerHoldsRow
    <3> QED
      BY <1>4, <1>7, <1>8, <1>9, <2>1, <3>1, <3>2 DEF MailerHoldsRow
  <2>2. CASE notice[k] # "none"
    <3>1. UNCHANGED notice /\ job'[j] = "known"
      BY <1>1, <1>3, <2>2 DEF NoticeTypeOK
    <3> QED
      BY <1>4, <1>7, <3>1 DEF MailerHoldsRow
  <2> QED
    BY <2>1, <2>2
<1>12. RowIsOneJobs'
  <2>1. CASE notice[k] = "none"
    <3>1. notice'[k] = "pending" /\ owner'[k] = {j[1]} /\ owner[k] = {} /\ job'[j] = "stored"
      BY <1>1, <1>3, <2>1 DEF NoticeTypeOK, RowIsOneJobs
    <3>2. \A i \in Job : i[1] = j[1] /\ i[2] = k => i = j
      BY JobSender
    <3>3. \A q \in Key : notice'[q] = "none" <=> owner'[q] = {}
      BY <1>8, <3>1 DEF RowIsOneJobs
    <3>4. \A q \in Key : \A s, t \in owner'[q] : s = t
      BY <1>8, <3>1 DEF RowIsOneJobs
    <3>5. ASSUME NEW i \in Job, i # j
          PROVE  /\ job'[i] \in {"stored", "mailed", "done"} => i[1] \in owner'[i[2]]
                 /\ job'[i] = "known" => notice'[i[2]] # "none"
                 /\ i[1] \in owner'[i[2]] => i[1] \in owner[i[2]]
      BY <1>7, <1>8, <1>9, <2>1, <3>1, <3>2, <3>5 DEF RowIsOneJobs
    <3>6. j[1] \in owner'[j[2]] /\ tries'[j] >= 1
      BY <1>2, <1>10, <3>1
    <3> QED
      BY <1>7, <3>1, <3>3, <3>4, <3>5, <3>6 DEF RowIsOneJobs
  <2>2. CASE notice[k] # "none"
    <3>1. UNCHANGED <<notice, owner>> /\ job'[j] = "known"
      BY <1>1, <1>3, <2>2 DEF NoticeTypeOK
    <3>2. j[1] \in owner[k] => tries[j] >= 1 /\ tries[j] \in Nat
      BY <1>2 DEF RowIsOneJobs
    <3>3. j[1] \in owner[k] => tries'[j] >= 2
      BY <1>10, <3>2
    <3>4. j[1] \in owner[k] => tries'[j] >= 1
      BY <1>2, <1>10
    <3> QED
      BY <1>7, <2>2, <3>1, <3>3, <3>4 DEF RowIsOneJobs
  <2> QED
    BY <2>1, <2>2
<1> QED
  BY <1>5, <1>6, <1>11, <1>12

\* The job that stored the row mails it, once.
LEMMA MailPreserves ==
  ASSUME NotificationInv, NEW j \in Job, WorkerReturns(j) \/ MailSent(j) \/ MailMarked(j)
  PROVE  NotificationInv'
<1> USE DEF NotificationInv
<1> DEFINE k == j[2]
<1>1. k \in Key /\ mails[k] \in 0..1 /\ job[j] \in {"stored", "mailed"}
  <2>1. k \in Key
    BY JobKey
  <2>2. mails[k] \in Nat /\ mails[k] <= 1
    BY <2>1 DEF NoticeTypeOK, MailedAtMostOnce
  <2>3. job[j] \in {"stored", "mailed"}
    BY DEF WorkerReturns, MailSent, MailMarked
  <2> QED
    BY <2>1, <2>2, <2>3
<1>2. \A i \in Job : i[2] \in Key
  BY JobKey
<1>3. UNCHANGED <<sender, tries, owner, count, mishaps>>
      /\ job' = [job EXCEPT ![j] = job'[j]] /\ job'[j] \in {"mailed", "done"}
  BY DEF WorkerReturns, MailSent, MailMarked, NoticeTypeOK, requests, notices
<1>4. \A i \in Job : i # j => job'[i] = job[i]
  BY <1>3 DEF NoticeTypeOK
<1>5. \/ UNCHANGED <<notice, mails>> /\ job'[j] = "done"
      \/ /\ UNCHANGED notice /\ job'[j] = "mailed" /\ Mailed(k)
         /\ mails[k] = 0 /\ mails' = [mails EXCEPT ![k] = 1]
      \/ /\ UNCHANGED mails /\ job'[j] = "done" /\ Mailed(k)
         /\ mails[k] = 1 /\ notice' = [notice EXCEPT ![k] = "sent"]
  BY <1>1 DEF WorkerReturns, MailSent, MailMarked, NoticeTypeOK, MailerHoldsRow, notices
<1>6. ASSUME NEW i \in Job, i # j, Mailed(k), job[i] \in {"stored", "mailed"}
      PROVE  i[2] # k
  BY <1>6, MailHasOneJob DEF Mailed
<1>7. NoticeTypeOK'
  BY <1>1, <1>3, <1>5 DEF NoticeTypeOK, JobState
<1>8. MailedAtMostOnce' /\ SentIsMailed'
  BY <1>1, <1>5 DEF NoticeTypeOK, MailedAtMostOnce, SentIsMailed
<1>9. notice[k] # "none"
  BY <1>1 DEF RowIsOneJobs
<1>10. MailerHoldsRow'
  <2>1. CASE UNCHANGED <<notice, mails>> /\ job'[j] = "done"
    BY <1>4, <2>1 DEF MailerHoldsRow
  <2>2. CASE /\ UNCHANGED notice /\ job'[j] = "mailed" /\ Mailed(k)
             /\ mails[k] = 0 /\ mails' = [mails EXCEPT ![k] = 1]
    <3>1. mails'[k] = 1 /\ (\A q \in Key : q # k => mails'[q] = mails[q])
      BY <1>1, <2>2 DEF NoticeTypeOK
    <3>2. notice[k] = "pending"
      BY <1>1, <2>2 DEF MailerHoldsRow
    <3> QED
      BY <1>2, <1>4, <1>6, <2>2, <3>1, <3>2 DEF MailerHoldsRow
  <2>3. CASE /\ UNCHANGED mails /\ job'[j] = "done" /\ Mailed(k)
             /\ mails[k] = 1 /\ notice' = [notice EXCEPT ![k] = "sent"]
    <3>1. notice'[k] = "sent" /\ (\A q \in Key : q # k => notice'[q] = notice[q])
      BY <1>1, <2>3 DEF NoticeTypeOK
    <3> QED
      BY <1>2, <1>4, <1>6, <2>3, <3>1 DEF MailerHoldsRow
  <2> QED
    BY <1>5, <2>1, <2>2, <2>3
<1>11. RowIsOneJobs'
  <2>1. \A q \in Key : notice'[q] = "none" <=> notice[q] = "none"
    BY <1>1, <1>5, <1>9 DEF NoticeTypeOK
  <2>2. j[1] \in owner[k]
    BY <1>1 DEF RowIsOneJobs
  <2> QED
    BY <1>2, <1>3, <1>4, <2>1, <2>2 DEF RowIsOneJobs
<1> QED
  BY <1>7, <1>8, <1>10, <1>11

\* A job that fails, or is started again, finds what it has committed.
LEMMA WorkerPreserves ==
  ASSUME NotificationInv, NEW j \in Job,
         WorkerRaises(j) \/ WorkerDies(j) \/ TakenBySubmissionWorker(j)
  PROVE  NotificationInv'
<1> USE DEF NotificationInv
<1>1. UNCHANGED <<notice, owner, mails>> /\ job' = [job EXCEPT ![j] = job'[j]]
      /\ job'[j] \in {"queued", "failed", "unknown"} /\ job[j] # "none"
  BY DEF WorkerRaises, WorkerDies, TakenBySubmissionWorker, NoticeTypeOK, notices
<1>2. /\ Starts(j) \in Nat /\ Starts(j) >= tries[j] /\ tries[j] \in Nat
      /\ tries' \in {tries, [tries EXCEPT ![j] = Starts(j)]}
  BY TriesAssumption DEF WorkerRaises, WorkerDies, TakenBySubmissionWorker, Starts, NoticeTypeOK
<1>3. NoticeTypeOK'
  <2>1. CASE WorkerDies(j)
    <3>1. Starts(j) \in 0..MaxTries
      BY <1>2, <2>1, TriesAssumption DEF WorkerDies
    <3> QED
      BY <2>1, <3>1, <1>1, TriesAssumption DEF WorkerDies, NoticeTypeOK, JobState, requests
  <2> QED
    BY <1>1, <2>1, TriesAssumption
       DEF WorkerRaises, TakenBySubmissionWorker, NoticeTypeOK, JobState, requests
<1>4. \A i \in Job : tries'[i] \in Nat /\ tries[i] \in Nat /\ tries'[i] >= tries[i]
  BY <1>2, TriesAssumption DEF NoticeTypeOK
<1>5. RowIsOneJobs'
  BY <1>1, <1>4 DEF NoticeTypeOK, RowIsOneJobs
<1> QED
  BY <1>1, <1>3, <1>5 DEF NoticeTypeOK, MailedAtMostOnce, SentIsMailed, MailerHoldsRow

\* Only notices that are not mailed can be marked read.
LEMMA ReadingPreserves ==
  ASSUME NotificationInv, NEW k \in Key, MarkRead(k)
  PROVE  NotificationInv'
<1> USE DEF NotificationInv
<1>1. NoticeTypeOK'
  BY DEF MarkRead, NoticeTypeOK, requests, queue
<1>2. \A j \in Job : j[2] \in Key
  BY JobKey
<1>3. MailerHoldsRow'
  BY <1>2 DEF MarkRead, queue, NoticeTypeOK, MailerHoldsRow
<1>4. RowIsOneJobs'
  <2>1. UNCHANGED <<job, tries, owner>>
    BY DEF MarkRead, queue
  <2>2. \A q \in Key : notice'[q] = "none" <=> notice[q] = "none"
    BY DEF MarkRead, NoticeTypeOK
  <2> QED
    BY <1>2, <2>1, <2>2 DEF RowIsOneJobs
<1> QED
  BY <1>1, <1>3, <1>4 DEF MarkRead, NoticeTypeOK, MailedAtMostOnce, SentIsMailed

\* For any number of users, reminder runs, tries and mishaps: no mail is sent
\* twice, a notice marked sent was mailed, only the job that stored the row of a
\* mail sends it, and every row is the work of one job (process_notification).
THEOREM NoticesInvariant == NoticeSpec => []NotificationInv
<1>1. NotificationInv /\ [NoticeNext]_noticeVars => NotificationInv'
  <2> SUFFICES ASSUME NotificationInv, [NoticeNext]_noticeVars PROVE NotificationInv'
    OBVIOUS
  <2>1. CASE UNCHANGED noticeVars
    BY <2>1 DEF noticeVars, NotificationInv, NoticeTypeOK, MailedAtMostOnce, SentIsMailed,
       MailerHoldsRow, RowIsOneJobs
  <2>2. CASE NoticeNext
    BY <2>2, SenderPreserves, StoredPreserves, MailPreserves, WorkerPreserves,
       ReadingPreserves DEF NoticeNext, JobStep
  <2> QED
    BY <2>1, <2>2
<1> QED
  BY InitNotices, <1>1, PTL DEF NoticeSpec

-----------------------------------------------------------------------------
(***************************************************************************)
(* What reminder_count says.  It is the number of runs that are over, a    *)
(* run is over only when every user has a job of it, and a job leaves      *)
(* "queued" by a row, a failure or the wrong worker.                       *)
(***************************************************************************)
\* The runs that have counted.
Counted == {s \in Reminder : sender[s] = "over"}

\* reminder_count is their number, and each has a job for every user.
CountInv ==
  /\ count = Cardinality(Counted)
  /\ \A s \in Counted, u \in User : job[<<s, <<"sla_reminder", u>>>>] # "none"

\* A job that was enqueued stays known to the queue.
LEMMA EnqueuedStays ==
  ASSUME NoticeTypeOK, NoticeNext, NEW j \in Job, job[j] # "none"
  PROVE  job'[j] # "none"
BY DEF NoticeTypeOK, NoticeNext, SenderStarts, SenderStep, SenderEnqueues, SenderEnds, SenderDies,
   JobStep, NoticeStored, WorkerReturns, MailSent, MailMarked, WorkerRaises, WorkerDies,
   TakenBySubmissionWorker, MarkRead, queue

\* Only a reminder run that ends counts, and counts itself.
LEMMA CountFollows ==
  ASSUME NoticeTypeOK, NoticeNext
  PROVE  \/ Counted' = Counted /\ count' = count
         \/ \E s \in Reminder \ Counted :
              SenderEnds(s) /\ Counted' = Counted \cup {s} /\ count' = count + 1
<1>1. CASE UNCHANGED requests
  BY <1>1 DEF requests, Counted
<1>2. ASSUME NEW s \in Sender, SenderStarts(s) \/ SenderDies(s) \/ (SenderEnds(s) /\ s \notin Reminder)
      PROVE  Counted' = Counted /\ count' = count
  <2>1. sender' = [sender EXCEPT ![s] = sender'[s]] /\ sender \in [Sender -> SenderState]
    BY <1>2 DEF SenderStarts, SenderDies, SenderEnds, NoticeTypeOK
  <2>2. count' = count
    BY <1>2 DEF SenderStarts, SenderDies, SenderEnds
  <2>3. s \in Reminder => sender[s] # "over" /\ sender'[s] # "over"
    BY <1>2 DEF SenderStarts, SenderDies, NoticeTypeOK
  <2>4. \A r \in Reminder : sender'[r] = "over" <=> sender[r] = "over"
    BY <2>1, <2>3 DEF Sender
  <2> QED
    BY <2>2, <2>4 DEF Counted
<1>3. ASSUME NEW s \in Reminder, SenderEnds(s)
      PROVE  s \notin Counted /\ Counted' = Counted \cup {s} /\ count' = count + 1
  BY <1>3 DEF SenderEnds, NoticeTypeOK, Counted, Sender
<1>4. \/ UNCHANGED requests
      \/ \E s \in Sender : SenderStarts(s) \/ SenderDies(s) \/ SenderEnds(s)
  BY DEF NoticeNext, SenderStep, SenderEnqueues, JobStep, NoticeStored, WorkerReturns, MailSent,
     MailMarked, WorkerRaises, WorkerDies, TakenBySubmissionWorker, MarkRead
<1> QED
  BY <1>1, <1>2, <1>3, <1>4

LEMMA CountPreserves ==
  ASSUME NoticeTypeOK, CountInv, NoticeNext
  PROVE  CountInv'
<1>1. IsFiniteSet(Counted)
  BY FS_Subset, ReminderAssumption DEF Counted
<1>2. count' = Cardinality(Counted')
  BY <1>1, CountFollows, FS_AddElement DEF CountInv
<1>3. ASSUME NEW s \in Counted', NEW u \in User
      PROVE  job'[<<s, <<"sla_reminder", u>>>>] # "none"
  <2> DEFINE j == <<s, <<"sla_reminder", u>>>>
  <2>1. s \in Reminder /\ j \in Job
    BY ReminderJob DEF Counted
  <2>2. CASE s \in Counted
    BY <2>1, <2>2, EnqueuedStays DEF CountInv
  <2>3. CASE s \notin Counted
    <3>1. SenderEnds(s)
      BY <2>3, CountFollows
    <3>2. <<"sla_reminder", u>> \in KindsOf(s) \X User
      BY <2>1, ReminderAssumption DEF KindsOf
    <3> QED
      BY <3>1, <3>2 DEF SenderEnds, queue
  <2> QED
    BY <2>2, <2>3
<1> QED
  BY <1>2, <1>3 DEF CountInv

LEMMA CountFits ==
  ASSUME NotificationInv, CountInv
  PROVE  CountAgainstNotices
<1> SUFFICES ASSUME NEW u \in User
             PROVE  /\ count <= Cardinality(RemindersIn(u, JobState \ {"none"}))
                    /\ notice[<<"sla_reminder", u>>] = "none"
                       => count <= Cardinality(RemindersIn(u, {"queued", "unknown", "failed"}))
                    /\ Cardinality(RemindersIn(u, {"stored", "done"})) <= 1
  BY DEF CountAgainstNotices
<1> DEFINE k == <<"sla_reminder", u>>
<1>1. \A S : IsFiniteSet(RemindersIn(u, S))
  BY FS_Subset, ReminderAssumption DEF RemindersIn
<1>2. \A s \in Reminder : <<s, k>> \in Job /\ job[<<s, k>>] \in JobState
  BY ReminderJob DEF NotificationInv, NoticeTypeOK
<1>3. \A S : Counted \subseteq RemindersIn(u, S) => count <= Cardinality(RemindersIn(u, S))
  BY <1>1, FS_Subset DEF CountInv
<1>4. Counted \subseteq RemindersIn(u, JobState \ {"none"})
  BY <1>2 DEF Counted, RemindersIn, CountInv
<1>5. ASSUME notice[k] = "none"
      PROVE  Counted \subseteq RemindersIn(u, {"queued", "unknown", "failed"})
  <2> SUFFICES ASSUME NEW s \in Counted PROVE s \in RemindersIn(u, {"queued", "unknown", "failed"})
    OBVIOUS
  <2>1. s \in Reminder /\ <<s, k>> \in Job /\ job[<<s, k>>] \in JobState \ {"none"}
    BY <1>2 DEF Counted, CountInv
  <2>2. <<s, k>>[1] = s /\ <<s, k>>[2] = k /\ k \in Key
    BY <2>1, JobKey
  <2>3. owner[k] = {}
    BY <1>5, <2>2 DEF NotificationInv, RowIsOneJobs
  <2>4. job[<<s, k>>] \notin {"stored", "mailed", "done", "known"}
    BY <1>5, <2>1, <2>2, <2>3 DEF NotificationInv, RowIsOneJobs
  <2> QED
    BY <2>1, <2>4 DEF RemindersIn, JobState
<1>6. Cardinality(RemindersIn(u, {"stored", "done"})) <= 1
  <2> DEFINE A == RemindersIn(u, {"stored", "done"})
  <2>1. ASSUME NEW s \in A, NEW t \in A PROVE s = t
    <3>1. s \in Reminder /\ t \in Reminder /\ <<s, k>> \in Job /\ <<t, k>> \in Job /\ k \in Key
      BY <1>2, JobKey DEF RemindersIn
    <3>2. s \in owner[k] /\ t \in owner[k]
      BY <3>1 DEF RemindersIn, NotificationInv, RowIsOneJobs
    <3> QED
      BY <3>1, <3>2 DEF NotificationInv, RowIsOneJobs
  <2>2. CASE A = {}
    BY <2>2, FS_EmptySet
  <2>3. CASE A # {}
    <3>1. PICK s \in A : A = {s}
      BY <2>1, <2>3
    <3>2. Cardinality({s}) = 1
      BY FS_Singleton
    <3> QED
      BY <3>1, <3>2
  <2> QED
    BY <2>2, <2>3
<1> QED
  BY <1>3, <1>4, <1>5, <1>6

\* For any number of users, reminder runs and mishaps: the count of a request
\* never runs ahead of the reminders on the queue, is made up of waiting and lost
\* ones while a user has seen none, and of all it counts one at most is shown
\* (send_overdue_reminders, process_notification).
THEOREM CountAgainstNoticesHolds == NoticeSpec => []CountAgainstNotices
<1>1. NoticeInit => CountInv
  BY FS_EmptySet DEF NoticeInit, CountInv, Counted, Sender
<1>2. NotificationInv /\ CountInv /\ [NoticeNext]_noticeVars => CountInv'
  <2>1. CASE UNCHANGED noticeVars
    BY <2>1 DEF noticeVars, CountInv, Counted
  <2> QED
    BY <2>1, CountPreserves DEF NotificationInv
<1> QED
  BY <1>1, <1>2, CountFits, NoticesInvariant, PTL DEF NoticeSpec
=============================================================================
