\* Two regulations of each of three destinations, one code without a row; two
\* starts of the node and of the script.
SPECIFICATION ComplianceSpec
CONSTANTS
  Destination = {"EU", "US", "BOTH"}
  Judged <- MCJudged
  Absent = {"CSDDD"}
  Factory = {f1, f2}
  Answers <- MCAnswers
  MaxRuns = 2
  MaxBoots = 2
  MaxForms = 1
SYMMETRY Symmetry
INVARIANTS ResultsInv ReasonFitsRows RowsComeTogether JudgedOverClauses
CHECK_DEADLOCK FALSE
