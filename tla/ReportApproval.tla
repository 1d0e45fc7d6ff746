---------------------------- MODULE ReportApproval ----------------------------
(***************************************************************************)
(* One report and its approval line: the requester submits the draft, each *)
(* approver in turn approves or rejects.  A call loads the report, then    *)
(* the step the report points to, decides on what it loaded, and writes    *)
(* the columns it changed; nothing is locked in between, so calls overlap. *)
(***************************************************************************)
EXTENDS Naturals, Sequences

CONSTANTS
  Approver,
  Lines,       \* the approval lines a report may be created with
  Desk         \* calls on the report that may be under way at a time

ASSUME LinesAssumption == Lines \subseteq Seq(Approver)

VARIABLES
  report,      \* status and current_step of reports
  line,        \* approver_id of its steps
  step,        \* status of its steps
  call,        \* the calls: what they have loaded
  said,        \* outcomes that were published
  raced        \* not stored: has a call written over a row that it had loaded before
               \* another call changed it?

reportVars == <<report, line, step, call, said, raced>>

Steps == DOMAIN step

\* What the reads show: the steps in an approver's inbox, the steps of the
\* reviewers before the current one, the steps a reject reason is taken from.
Inbox(a) == {i \in Steps : line[i] = a /\ step[i] = "pending"}
PreviousReviewers == {i \in Steps : i < report.current /\ step[i] # "pending"}
RejectReasons == {i \in Steps : step[i] = "rejected"}

Settled == {"fully_approved", "returned"}
NoCall == [pc |-> "idle"]

ReportInit ==
  /\ report = [status |-> "none", current |-> 1]
  /\ line = <<>> /\ step = <<>>
  /\ call = [d \in Desk |-> NoCall]
  /\ said = {}
  /\ raced = FALSE

CreateWithoutLine ==   \* mutant: an empty list of approvers is accepted
  /\ report.status = "none"
  /\ \E l \in Lines :
       /\ line' = l
       /\ step' = [i \in DOMAIN l |-> "pending"]
  /\ report' = [report EXCEPT !.status = "draft"]
  /\ UNCHANGED <<call, said, raced>>

\* POST /reports: at least one approver; the report and its steps are one commit.
Create ==
  /\ report.status = "none"
  /\ \E l \in Lines :
       /\ l # <<>>
       /\ line' = l
       /\ step' = [i \in DOMAIN l |-> "pending"]
  /\ report' = [report EXCEPT !.status = "draft"]
  /\ UNCHANGED <<call, said, raced>>

\* _get_or_raise.
LoadsReport(d) ==
  /\ call[d] = NoCall /\ report.status # "none"
  /\ \E what \in {"submit", "approve", "reject"} :
       call' = [call EXCEPT ![d] = [pc |-> "loaded", what |-> what, seen |-> report]]
  /\ UNCHANGED <<report, line, step, said, raced>>

Refused(d) == call' = [call EXCEPT ![d] = NoCall]

\* _get_current_step_or_raise, the check that the caller a is its approver, and
\* the state machine's checks, all on what is loaded by now.
LoadsStep(d) ==
  /\ call[d].pc = "loaded" /\ call[d].what # "submit"
  /\ LET n == call[d].seen.current
     IN  \E a \in Approver :
           IF /\ n \in Steps /\ line[n] = a
              /\ call[d].seen.status = "approval_pending" /\ step[n] = "pending"
             THEN call' = [call EXCEPT ![d].pc = "ready"]
             ELSE Refused(d)
  /\ UNCHANGED <<report, line, step, said, raced>>

\* A write is stale if the report, or the step, is not what the call loaded.
Stale(d) ==
  \/ report # call[d].seen
  \/ call[d].what # "submit" /\ step[call[d].seen.current] # "pending"

\* The commit, and the event that follows it; the worker may die in between.
\* Events that do not end the approval only tell the next approver.
Commits(d, event) ==
  /\ call' = [call EXCEPT ![d] = NoCall]
  /\ raced' = (raced \/ Stale(d))
  /\ said' \in {said, said \cup ({event} \cap Settled)}

SubmitsAgain(d) ==   \* mutant: the status is not checked
  /\ call[d].pc = "loaded" /\ call[d].what = "submit"
  /\ report' = [report EXCEPT !.status = "approval_pending"]
  /\ Commits(d, "submitted")
  /\ UNCHANGED <<line, step>>

\* submit: current_step is set to the 1 it has, so that only status is written.
Submit(d) ==
  /\ call[d].pc = "loaded" /\ call[d].what = "submit"
  /\ IF call[d].seen.status = "draft"
       THEN /\ report' = [report EXCEPT !.status = "approval_pending"]
            /\ Commits(d, "submitted")
       ELSE Refused(d) /\ UNCHANGED <<report, said, raced>>
  /\ UNCHANGED <<line, step>>

ApproveSkips(d) ==   \* mutant: the last step is counted from zero
  /\ call[d].pc = "ready" /\ call[d].what = "approve"
  /\ LET n == call[d].seen.current
         last == n >= Len(line) - 1
     IN  /\ step' = [step EXCEPT ![n] = "approved"]
         /\ report' = IF last THEN [report EXCEPT !.status = "fully_approved"]
                              ELSE [report EXCEPT !.current = n + 1]
         /\ Commits(d, IF last THEN "fully_approved" ELSE "stage_approved")
  /\ UNCHANGED line

ApproveAdvances(d) ==   \* mutant: the last step moves the report on as well
  /\ call[d].pc = "ready" /\ call[d].what = "approve"
  /\ LET n == call[d].seen.current
     IN  /\ step' = [step EXCEPT ![n] = "approved"]
         /\ report' = [report EXCEPT !.current = n + 1]
         /\ Commits(d, "stage_approved")
  /\ UNCHANGED line

\* approve: the step, and either the status or the step the report points to,
\* counted from the one that was loaded.
Approve(d) ==
  /\ call[d].pc = "ready" /\ call[d].what = "approve"
  /\ LET n == call[d].seen.current
         last == n >= Len(line)
     IN  /\ step' = [step EXCEPT ![n] = "approved"]
         /\ report' = IF last THEN [report EXCEPT !.status = "fully_approved"]
                              ELSE [report EXCEPT !.current = n + 1]
         /\ Commits(d, IF last THEN "fully_approved" ELSE "stage_approved")
  /\ UNCHANGED line

RejectKeepsStep(d) ==   \* mutant: the rejection of the step is not written
  /\ call[d].pc = "ready" /\ call[d].what = "reject"
  /\ report' = [report EXCEPT !.status = "returned"]
  /\ Commits(d, "returned")
  /\ UNCHANGED <<line, step>>

Reject(d) ==
  /\ call[d].pc = "ready" /\ call[d].what = "reject"
  /\ step' = [step EXCEPT ![call[d].seen.current] = "rejected"]
  /\ report' = [report EXCEPT !.status = "returned"]
  /\ Commits(d, "returned")
  /\ UNCHANGED line

ReportNext ==
  \/ Create
  \/ \E d \in Desk : \/ LoadsReport(d) \/ LoadsStep(d)
                     \/ Submit(d) \/ Approve(d) \/ Reject(d)

ReportSpec == ReportInit /\ [][ReportNext]_reportVars

-----------------------------------------------------------------------------
ReportState ==
  [status : {"none", "draft", "approval_pending"} \cup Settled, current : Nat]
StepStatus == {"pending", "approved", "rejected"}
DeskState ==
  [pc : {"loaded", "ready"}, what : {"submit", "approve", "reject"}, seen : ReportState]

\* Every component stays in its domain.
ReportTypeOK ==
  /\ report \in ReportState
  /\ line \in Seq(Approver)
  /\ step \in [DOMAIN line -> StepStatus]
  /\ call \in [Desk -> DeskState \cup {NoCall}]
  /\ said \subseteq Settled
  /\ raced \in BOOLEAN

\* The line is decided in its order, whatever overlaps: no step has a decision
\* while an earlier one waits, a report that is through has no step waiting, and
\* the reviewers listed before the current step have all decided
\* (approve, reject, get_previous_reviewers).
DecidedInOrder ==
  /\ \A i, j \in Steps : i < j /\ step[j] # "pending" => step[i] # "pending"
  /\ \A i \in Steps : i < report.current => i \in PreviousReviewers
  /\ report.status = "fully_approved" => \A i \in Steps : step[i] # "pending"

\* As long as no call has written over a row it had loaded earlier, a report under
\* approval is not stuck: the step it points to exists and waits in its approver's inbox, after
\* approved steps only.
SomebodyMayDecide ==
  report.status = "approval_pending" /\ ~ raced =>
    /\ report.current \in Steps
    /\ report.current \in Inbox(line[report.current])
    /\ \A i \in Steps : i < report.current => step[i] = "approved"

\* Likewise what a settled report says is what its steps say: full approval needs
\* every approval, a returned report has the rejection whose reason
\* get_report_detail shows, and nothing else was announced.
OutcomeFitsSteps ==
  ~ raced =>
    /\ report.status = "fully_approved" => \A i \in Steps : step[i] = "approved"
    /\ report.status = "returned" => RejectReasons # {}
    /\ \A outcome \in said : report.status = outcome

\* What a call has loaded stays a place in the line that has been reached: no
\* decision is ever taken back to pending.
Loaded(d) ==
  /\ call[d].seen.current \in Steps
  /\ \A i \in Steps : i < call[d].seen.current => step[i] # "pending"
  /\ call[d].pc = "ready" => /\ call[d].what # "submit"
                             /\ call[d].seen.status = "approval_pending"

\* The inductive invariant behind the three: a report that exists points to a
\* step of its line, and so does every copy of it that a call holds.
ReportInv ==
  /\ ReportTypeOK
  /\ report.status # "none" => report.current \in Steps
  /\ report.status = "none" => report.current = 1 /\ line = <<>> /\ said = {}
  /\ \A d \in Desk : call[d] = NoCall \/ Loaded(d)
  /\ report.status = "draft" /\ ~ raced =>
       report.current = 1 /\ \A i \in Steps : step[i] = "pending"
  /\ DecidedInOrder /\ SomebodyMayDecide /\ OutcomeFitsSteps

\* A settled report stays as it is unless calls overlapped: there is no way to submit or decide it again.
SettledStays ==
  [][report.status \in Settled /\ ~ raced' => report' = report /\ step' = step]_reportVars
=============================================================================
