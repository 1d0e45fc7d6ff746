\* Two calls on the audit and its files; two calls at a time on the report.
SPECIFICATION Spec
CONSTANTS
  Call = {c1, c2}
  Nothing = Nothing
  Item = {i1, i2}
  a1 = a1
  a2 = a2
  Approver = {a1, a2}
  Lines <- MCLines
  Desk = {d1, d2}
SYMMETRY Symmetry
INVARIANTS AuditInv ReportInv
PROPERTIES SettledStays
CHECK_DEADLOCK FALSE
