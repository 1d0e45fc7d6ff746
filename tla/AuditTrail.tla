------------------------------ MODULE AuditTrail ------------------------------
(***************************************************************************)
(* The audit trail of one batch.  Every traced function (the nodes of the  *)
(* graph, the decision of a reviewer) ends with _write_audit, which reads  *)
(* the last row of the batch, inserts a row chained to it and commits.     *)
(* Nothing locks the trail: calls of different processes overlap.          *)
(* verify_chain lists the rows by step number and looks for broken links.  *)
(* Rows are never changed or deleted: there is no tampering in this model. *)
(***************************************************************************)
EXTENDS Integers, FiniteSets

CONSTANTS
  Writer,     \* traced calls that may be under way at the same time
  RowId,      \* identities of rows (audit_id)
  Hash,       \* output hashes; two calls with the same result have the same
  NoHash      \* NULL

ASSUME HashAssumption == NoHash \notin Hash
ASSUME RowIdAssumption == IsFiniteSet(RowId)

VARIABLES
  trail,      \* the committed rows of audit_trail for the batch
  writer      \* the calls of _write_audit

vars == <<trail, writer>>

Row == [id : RowId, step : Nat \ {0}, prev : Hash \cup {NoHash}, output : Hash]

WriterState == [pc : {"idle", "read"}, step : Nat \ {0},
                prev : Hash \cup {NoHash}]

IdleWriter == [pc |-> "idle", step |-> 1, prev |-> NoHash]

Init ==
  /\ trail = {}
  /\ writer = [w \in Writer |-> IdleWriter]

-----------------------------------------------------------------------------
\* ORDER BY step_number DESC LIMIT 1: any row with the highest step.
Last == {r \in trail : \A q \in trail : q.step <= r.step}

NextStep(r) == r.step + 1

\* The SELECT of _write_audit.
AuditReads(w) ==
  /\ writer[w].pc = "idle"
  /\ \/ /\ trail = {}
        /\ writer' = [writer EXCEPT ![w] =
                       [pc |-> "read", step |-> 1, prev |-> NoHash]]
     \/ \E r \in Last :
          writer' = [writer EXCEPT ![w] =
                       [pc |-> "read", step |-> NextStep(r), prev |-> r.output]]
  /\ UNCHANGED trail

Fresh(i) == \A r \in trail : r.id # i

AuditCommitsRenumbered(w) ==   \* mutant: the step is taken at the INSERT, the hash before
  /\ writer[w].pc = "read"
  /\ \E i \in RowId, h \in Hash :
       /\ Fresh(i)
       /\ trail' = trail \cup
            {[id |-> i, prev |-> writer[w].prev, output |-> h,
              step |-> IF trail = {} THEN 1
                       ELSE (CHOOSE r \in Last : TRUE).step + 1]}
  /\ writer' = [writer EXCEPT ![w] = IdleWriter]

\* The INSERT and the COMMIT: the row becomes visible.
AuditCommits(w) ==
  /\ writer[w].pc = "read"
  /\ \E i \in RowId, h \in Hash :
       /\ Fresh(i)
       /\ trail' = trail \cup {[id |-> i, step |-> writer[w].step,
                                prev |-> writer[w].prev, output |-> h]}
  /\ writer' = [writer EXCEPT ![w] = IdleWriter]

\* The INSERT or the COMMIT fails: trace_node prints a warning and goes on.
AuditFails(w) ==
  /\ writer[w].pc = "read"
  /\ writer' = [writer EXCEPT ![w] = IdleWriter]
  /\ UNCHANGED trail

Next == \E w \in Writer : AuditReads(w) \/ AuditCommits(w) \/ AuditFails(w)

Spec == Init /\ [][Next]_vars

-----------------------------------------------------------------------------
(* verify_chain *)

\* The orders in which list_full_chain may return the rows: by step, rows with
\* the same step in any order.
Listings ==
  {rows \in [1..Cardinality(trail) -> trail] :
     /\ \A r \in trail : \E i \in 1..Cardinality(trail) : rows[i] = r
     /\ \A i, j \in 1..Cardinality(trail) :
          i < j => rows[i] # rows[j] /\ rows[i].step <= rows[j].step}

ValidLinksFromFirst(rows) ==   \* mutant: the first row is compared, not exempted
  \A i \in DOMAIN rows : i > 1 => rows[i].prev = rows[1].output

\* breaks is empty: the first row has no predecessor and every other row
\* carries the output hash of the row before it.
ValidLinks(rows) ==
  \A i \in DOMAIN rows :
    rows[i].prev = IF i = 1 THEN NoHash ELSE rows[i - 1].output

\* warnings has no duplicate_step_number.
UniqueSteps == \A q, r \in trail : q.step = r.step => q = r

-----------------------------------------------------------------------------
(* Properties *)

\* Every variable has its type.
TypeOK ==
  /\ trail \in SUBSET Row
  /\ writer \in [Writer -> WriterState]

\* r may follow a row of the trail, or starts a chain.
Anchored(step, prev) ==
  \/ step = 1 /\ prev = NoHash
  \/ \E p \in trail : step = p.step + 1 /\ prev = p.output

\* However the calls overlap and fail, no row hangs in the air: its
\* predecessor is in the trail, one step before it.  The trail is a tree.
RowsAreAnchored == \A r \in trail : Anchored(r.step, r.prev)

\* verify_chain blames overlapping calls for a break or nobody: when no step
\* number is there twice, the chain is valid in every order it may be listed.
UniqueStepsVerify == UniqueSteps => \A rows \in Listings : ValidLinks(rows)

\* What a call has read stays true: rows are only added.
ReadsAreAnchored ==
  \A w \in Writer :
    writer[w].pc = "read" => Anchored(writer[w].step, writer[w].prev)

\* The inductive invariant.
TrailInv ==
  /\ TypeOK
  /\ RowsAreAnchored
  /\ ReadsAreAnchored
=============================================================================
