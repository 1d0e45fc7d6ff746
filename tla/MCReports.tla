------------------------------ MODULE MCReports ------------------------------
(* A report under approval and an audit record side by side, as the web      *)
(* workers serve both; lines of one and of three steps, one approver twice.  *)
EXTENDS DueDiligence, ReportApproval, TLC

CONSTANTS a1, a2

MCLines == {<<>>, <<a1>>, <<a1, a2, a1>>}

Init == AuditInit /\ ReportInit

Next ==
  \/ AuditNext /\ UNCHANGED reportVars
  \/ ReportNext /\ UNCHANGED auditVars

Spec == Init /\ [][Next]_<<auditVars, reportVars>>

Symmetry == Permutations(Call) \cup Permutations(Item) \cup Permutations(Desk)
=============================================================================
