------------------------------ MODULE Compliance ------------------------------
(***************************************************************************)
(* The compliance node of one batch: each regulation of the destination is *)
(* judged in turn, by a stub, by its data, or by a language model that is  *)
(* shown the clauses found for it; the rows are committed together.  Next  *)
(* to it, the script that indexes clauses before the web server starts,    *)
(* and suppliers replacing the carbon declarations the node reads in two   *)
(* statements.                                                             *)
(*                                                                         *)
(* A model's answer is a record of what the code looks at: the verdict, a  *)
(* citation or none, whether it asks for a human itself, and whether it    *)
(* gives no confidence below the threshold.                                *)
(***************************************************************************)
EXTENDS Naturals, Sequences, Functions

CONSTANTS
  Destination, \* destinations of batches
  Judged,      \* of each one, the list of its regulations that a run looks at
  Absent,      \* codes without a row in regulations
  Factory,     \* factories the batch's supply ratios point to
  Answers,     \* what the language model may answer
  MaxRuns,     \* bound: starts of the node
  MaxBoots,    \* bound: starts of the indexing script
  MaxForms     \* bound: replacements of carbon declarations

ASSUME BoundAssumption == MaxRuns \in Nat /\ MaxBoots \in Nat /\ MaxForms \in Nat

VARIABLES
  rules,       \* regulations.embedding_status, one script step moves all rows
  clauses,     \* regulation_clauses.embedding_status, likewise
  boot,        \* the script: its next step, the steps that raised, how often started
  booted,      \* not stored: has a start of the script done all its steps?
  declared,    \* factories with an active carbon declaration
  forms,       \* counts the replacements
  node,        \* the running node
  results      \* compliance_results: committed rows

complianceVars == <<rules, clauses, boot, booted, declared, forms, node, results>>

RegulationsOf ==
  LET eu == <<"EU_BATTERY", "EU_BATTERY_ART7", "EU_BATTERY_ART47", "EUDR",
              "CSDDD", "CBAM", "CONFLICT_MINERALS", "CRMA">>
  IN  [EU |-> eu, US |-> <<"UFLPA", "CONFLICT_MINERALS">>, KR |-> <<>>,
       BOTH |-> eu \o <<"UFLPA">>]

Stubs == {"CBAM", "CONFLICT_MINERALS", "CRMA"}

Judge(c) ==
  CASE c = "UFLPA"           -> "uflpa"
    [] c = "EU_BATTERY"      -> "recycled"
    [] c = "EU_BATTERY_ART7" -> "carbon"
    [] c \in Stubs           -> "stub"
    [] OTHER                 -> "generic"

\* The codes that _CLAUSE_SEED_DATA has articles for.
Seeded == {"UFLPA", "EU_BATTERY_ART7", "EU_BATTERY", "EU_BATTERY_ART47",
           "EUDR", "CSDDD"}

Storable == {"compliance_passed", "compliance_violation",
             "compliance_warning", "compliance_reject"}

Code == Range(RegulationsOf.BOTH)
\* No list names a regulation twice.
NoneTwice(list) == \A i, j \in DOMAIN list : list[i] = list[j] => i = j

ASSUME JudgedAssumption ==
  \A dest \in Destination :
    /\ dest \in DOMAIN RegulationsOf
    /\ Judged[dest] \in Seq(Range(RegulationsOf[dest]))
    /\ NoneTwice(Judged[dest])

\* "null" is a verdict of JSON null; "unlisted" stands for any answer that the
\* INSERT refuses, "none" for one that names no verdict.
Result == [verdict : Storable \cup {"null", "unlisted", "none"}, cited : BOOLEAN,
           review : BOOLEAN, sure : BOOLEAN]

ASSUME AnswersAssumption == Answers \subseteq Result

\* What a judge returns when the call raises or the data it needs is missing.
Rejected == [verdict |-> "compliance_reject", cited |-> FALSE,
             review |-> TRUE, sure |-> FALSE]
Passed == [verdict |-> "compliance_passed", cited |-> TRUE,
           review |-> FALSE, sure |-> TRUE]

Idle == [pc |-> "idle", todo |-> <<>>, run |-> 0,
         found |-> "nothing", ready |-> FALSE, weighed |-> {},
         missing |-> FALSE, moved |-> FALSE, result |-> Rejected,
         review |-> FALSE, rows |-> {}, reason |-> "none"]

ComplianceInit ==
  /\ rules = "pending" /\ clauses = "absent"
  /\ boot = [pc |-> "off", raised |-> FALSE, starts |-> 0] /\ booted = FALSE
  /\ declared \in SUBSET Factory /\ forms = 0
  /\ node = Idle
  /\ results = {}

-----------------------------------------------------------------------------
(* python -m backend.domains.regulation.embeddings, before uvicorn: three  *)
(* steps, each its own transaction; one that raises is logged and skipped. *)

shelf == <<rules, clauses, boot, booted>>
desk == <<declared, forms, node, results>>

BootStarts ==
  /\ boot.pc = "off" /\ boot.starts < MaxBoots
  /\ boot' = [pc |-> "rules", raised |-> FALSE, starts |-> boot.starts + 1]
  /\ UNCHANGED <<rules, clauses, booted, desk>>

IndexRules ==
  /\ boot.pc = "rules"
  /\ \/ rules' = "indexed" /\ boot' = [boot EXCEPT !.pc = "seed"]
     \/ rules' = rules /\ boot' = [boot EXCEPT !.pc = "seed", !.raised = TRUE]
  /\ UNCHANGED <<clauses, booted, desk>>

SeedClausesResets ==   \* mutant: the upsert sets the status back to pending
  /\ boot.pc = "seed"
  /\ clauses' = "pending"
  /\ boot' = [boot EXCEPT !.pc = "clauses"]
  /\ UNCHANGED <<rules, booted, desk>>

\* ON CONFLICT DO NOTHING: a clause that is there keeps its status.
SeedClauses ==
  /\ boot.pc = "seed"
  /\ \/ /\ clauses' = IF clauses = "absent" THEN "pending" ELSE clauses
        /\ boot' = [boot EXCEPT !.pc = "clauses"]
     \/ /\ clauses' = clauses
        /\ boot' = [boot EXCEPT !.pc = "clauses", !.raised = TRUE]
  /\ UNCHANGED <<rules, booted, desk>>

\* A vector that Bedrock does not give is made up locally and counts as indexed.
IndexClauses ==
  /\ boot.pc = "clauses"
  /\ \/ /\ clauses' = IF clauses = "pending" THEN "indexed" ELSE clauses
        /\ boot' = [boot EXCEPT !.pc = "up"]
        /\ booted' = (booted \/ ~ boot.raised)
     \/ /\ boot' = [boot EXCEPT !.pc = "up", !.raised = TRUE]
        /\ UNCHANGED <<clauses, booted>>
  /\ UNCHANGED <<rules, desk>>

BootCrashes ==
  /\ boot.pc # "off"
  /\ boot' = [boot EXCEPT !.pc = "off"]
  /\ UNCHANGED <<rules, clauses, booted, desk>>

-----------------------------------------------------------------------------
\* write_master_form_manufacturing replaces the declarations of one supplier.
DeclarationsReplaced ==
  /\ forms < MaxForms
  /\ declared' \in SUBSET Factory
  /\ declared' # declared
  /\ forms' = forms + 1
  /\ node' = IF node.pc = "count" THEN [node EXCEPT !.moved = TRUE] ELSE node
  /\ UNCHANGED <<shelf, results>>

-----------------------------------------------------------------------------
shop == <<shelf, declared, forms, results>>   \* all that a step of the node leaves

Current == Head(node.todo)

\* The list comes from the batch's destination; route() writes it into a state
\* that LangGraph may have copied, and the node then finds none.
NodeStarts ==
  /\ node.pc \in {"idle", "failed"} /\ node.run < MaxRuns
  /\ \E dest \in Destination :
       \E todo \in {Judged[dest], <<>>} :
         node' = [Idle EXCEPT !.pc = IF todo = <<>> THEN "skipped" ELSE "next",
                              !.todo = todo, !.run = node.run + 1, !.ready = booted]
  /\ UNCHANGED shop

Found(c) ==
  IF c \in Seeded \ Absent /\ clauses = "indexed" THEN "clauses"
  ELSE IF c \notin Absent /\ rules = "indexed" THEN "rule"
  ELSE "nothing"

Search ==
  /\ node.pc = "next" /\ node.todo # <<>> /\ Current \notin Stubs
  /\ node' = [node EXCEPT !.pc = Judge(Current), !.found = Found(Current)]
  /\ UNCHANGED shop

ValidatedFlagOnly(a) ==   \* mutant: the verdict of an uncited answer is kept
  [a EXCEPT !.review = @ \/ ~ a.cited]

\* _validate_cited_clauses: an answer without a citation is a rejection for a
\* human, whatever it said; with one, it keeps a review flag of its own.
Validated(a) ==
  IF a.cited THEN a ELSE [a EXCEPT !.verdict = "compliance_reject", !.review = TRUE]

\* The call may raise, time out, or answer what is not JSON: all are caught.
Asked == {Validated(a) : a \in Answers} \cup {Rejected}

Settles(r) ==
  /\ node' = [node EXCEPT !.pc = "insert", !.result = r]
  /\ UNCHANGED shop

JudgeStub ==
  /\ node.pc = "next" /\ node.todo # <<>> /\ Current \in Stubs
  /\ Settles(Passed)

JudgeUflpa == node.pc = "uflpa" /\ \E r \in Asked : Settles(r)

JudgeGeneric == node.pc = "generic" /\ \E r \in Asked : Settles(r)

\* Without a ratio and without materials in the extraction nobody is asked.
JudgeRecycled ==
  /\ node.pc = "recycled"
  /\ \E given \in BOOLEAN :
       \E r \in IF given THEN Asked ELSE {Rejected} : Settles(r)

\* Two statements, each with its own snapshot: the average over the declared
\* factories, then how many are not declared.
WeighCarbon ==
  /\ node.pc = "carbon"
  /\ node' = [node EXCEPT !.pc = "count", !.weighed = declared, !.moved = FALSE]
  /\ UNCHANGED shop

CountMissing ==
  /\ node.pc = "count"
  /\ IF node.weighed = {}
       THEN Settles(Rejected)
       ELSE /\ node' = [node EXCEPT !.pc = "ask", !.missing = declared # Factory]
            /\ UNCHANGED shop

JudgeCarbonUnflagged ==   \* mutant: missing declarations are only mentioned in the text
  /\ node.pc = "ask"
  /\ \E r \in Asked : Settles(r)

JudgeCarbon ==
  /\ node.pc = "ask"
  /\ \E r \in Asked :
       Settles([r EXCEPT !.review = @ \/ node.missing])

CanInsertUnchecked ==   \* mutant: the CHECK constraint is gone
  node.result.verdict # "none"

\* A verdict the answer does not name raises here, outside the judge's try; one
\* the CHECK constraint does not list raises in the INSERT.  NULL passes the CHECK.
CanInsert ==
  /\ node.result.verdict # "none"
  /\ Current \in Absent \/ node.result.verdict \in Storable \cup {"null"}

Row == [run |-> node.run, code |-> Current, verdict |-> node.result.verdict,
        cited |-> node.result.cited, review |-> node.result.review,
        sure |-> node.result.sure, found |-> node.found,
        partial |-> /\ Judge(Current) = "carbon" /\ node.weighed # Factory
                    /\ ~ node.moved \/ node.missing]

\* The state after the row of the current regulation, with its flag.
Proceeds(rows, review) ==
  node' = [node EXCEPT !.pc = "next", !.todo = Tail(@), !.found = "nothing",
                       !.weighed = {}, !.missing = FALSE, !.moved = FALSE,
                       !.result = Rejected, !.rows = rows, !.review = review]

NewRows == IF Current \in Absent THEN {} ELSE {Row}

InsertLastFlag ==   \* mutant: the flag of the last regulation wins
  /\ node.pc = "insert" /\ CanInsert
  /\ Proceeds(node.rows \cup NewRows, node.result.review)
  /\ UNCHANGED shop

InsertCommits ==   \* mutant: every row is committed at once
  /\ node.pc = "insert" /\ CanInsert
  /\ Proceeds({}, node.review \/ node.result.review)
  /\ results' = results \cup NewRows
  /\ UNCHANGED <<shelf, declared, forms>>

\* _insert_compliance_result: a regulation without a row is logged and skipped,
\* its verdict stays in the state.
Insert ==
  /\ node.pc = "insert" /\ CanInsert
  /\ Proceeds(node.rows \cup NewRows, node.review \/ node.result.review)
  /\ UNCHANGED shop

InsertRaises ==
  /\ node.pc = "insert" /\ ~ CanInsert
  /\ node' = [Idle EXCEPT !.pc = "failed", !.run = node.run]
  /\ UNCHANGED shop

Commit ==
  /\ node.pc = "next" /\ node.todo = <<>>
  /\ results' = results \cup node.rows
  /\ node' = [node EXCEPT !.pc = "committed"]
  /\ UNCHANGED <<shelf, declared, forms>>

\* The event and the new state; nothing is returned before the commit.
Returns ==
  /\ node.pc = "committed"
  /\ node' = [node EXCEPT !.pc = "done",
                          !.reason = IF node.review THEN "low_confidence" ELSE "none"]
  /\ UNCHANGED shop

\* A statement or the query's embedding raises, the job times out, or the
\* worker dies: what is not committed is gone.
NodeFails ==
  /\ node.pc \notin {"idle", "failed", "done", "skipped"}
  /\ node' = [Idle EXCEPT !.pc = "failed", !.run = node.run]
  /\ UNCHANGED shop

NodeStep ==
  \/ Search \/ JudgeStub \/ JudgeUflpa \/ JudgeGeneric \/ JudgeRecycled
  \/ WeighCarbon \/ CountMissing \/ JudgeCarbon \/ Insert \/ InsertRaises
  \/ Commit \/ Returns

ComplianceNext ==
  \/ BootStarts \/ IndexRules \/ SeedClauses \/ IndexClauses \/ BootCrashes
  \/ DeclarationsReplaced
  \/ NodeStarts \/ NodeStep \/ NodeFails

ComplianceSpec == ComplianceInit /\ [][ComplianceNext]_complianceVars

-----------------------------------------------------------------------------
ResultRow == [run : 1..MaxRuns, code : Code, verdict : Storable \cup {"null"}, cited : BOOLEAN,
              review : BOOLEAN, sure : BOOLEAN,
              found : {"clauses", "rule", "nothing"}, partial : BOOLEAN]

NodePoint == {"idle", "next", "uflpa", "recycled", "carbon", "generic", "count", "ask",
              "insert", "committed", "done", "skipped", "failed"}

Node == [pc : NodePoint, todo : Seq(Code), run : 0..MaxRuns,
         found : {"clauses", "rule", "nothing"}, ready : BOOLEAN, weighed : SUBSET Factory,
         missing : BOOLEAN, moved : BOOLEAN, result : Result, review : BOOLEAN,
         rows : SUBSET ResultRow, reason : {"none", "low_confidence"}]

\* Every component stays in its domain; a stored verdict is one of the four of
\* the CHECK, or NULL, which the CHECK lets in.
ComplianceTypeOK ==
  /\ rules \in {"pending", "indexed"}
  /\ clauses \in {"absent", "pending", "indexed"}
  /\ boot \in [pc : {"off", "rules", "seed", "clauses", "up"}, raised : BOOLEAN, starts : Nat]
  /\ booted \in BOOLEAN
  /\ declared \subseteq Factory
  /\ forms \in Nat
  /\ node \in Node
  /\ results \subseteq ResultRow

\* regulation/repository.py lists a row as needing review for its flag or for a
\* confidence below the threshold of 0.85.
NeedsReview(r) == r.review \/ ~ r.sure

\* No row without a citation reads as a judgment: whichever judge wrote it and
\* whatever the model answered, it is a rejection that asks for a human
\* (compliance.py: _validate_cited_clauses and the early returns).  So a NULL
\* verdict is stored only with a citation.
UncitedIsRejected ==
  \A r \in results \cup node.rows : ~ r.cited => r.verdict = "compliance_reject" /\ r.review

\* A carbon judgment over the declarations of some factories only asks for a
\* human, unless a supplier declared what was missing between the statement that
\* weighs the declarations and the one that counts them (judge_carbon_footprint).
PartialIsFlagged == \A r \in results \cup node.rows : r.partial => r.review

\* Where the node is with one regulation: the judge is that regulation's, what
\* it has read of the declarations is what it weighed unless they have moved, and
\* its result is not a judgment when it cites nothing or misses a declaration.
JudgeFits ==
  /\ node.pc \in {"uflpa", "recycled", "carbon", "generic", "count", "ask", "insert"} =>
       node.todo # <<>>
  /\ node.pc \in {"uflpa", "recycled", "carbon", "generic"} => node.pc = Judge(Current)
  /\ node.pc \in {"count", "ask"} => Judge(Current) = "carbon"
  /\ node.pc = "count" /\ ~ node.moved => node.weighed = declared
  /\ node.pc = "ask" /\ ~ node.moved /\ node.weighed # Factory => node.missing
  /\ node.pc = "insert" =>
       /\ ~ node.result.cited => node.result.verdict = "compliance_reject" /\ node.result.review
       /\ Judge(Current) = "carbon" /\ node.weighed # Factory /\ (~ node.moved \/ node.missing)
            => node.result.review

\* What a running node has inserted is, once each, what it has judged of the list
\* of one destination, and it has a flag to show for what it will ask a human.
Judges(dest) ==
  LET judged == Range(Judged[dest]) \ Range(node.todo)
  IN  /\ Range(node.todo) \subseteq Range(Judged[dest])
      /\ {r.code : r \in node.rows} = judged \ Absent
      /\ node.review =>
           (\E r \in node.rows : r.review) \/ Range(Judged[dest]) \cap Absent # {}

Running == node.pc \notin {"idle", "failed", "skipped"}

RowsFit ==
  /\ NoneTwice(node.todo)
  /\ node.pc \notin {"idle", "failed"} => node.run > 0
  /\ node.pc \in {"committed", "done"} => node.todo = <<>>
  /\ Running => \E dest \in Destination : Judges(dest)
  /\ \A q, r \in node.rows : q.code = r.code => q = r
  /\ \A r \in node.rows : r.run = node.run /\ (r.review => node.review)
  /\ \A r \in results : r.run <= node.run
  /\ node.pc \in {"committed", "done"} => {r \in results : r.run = node.run} = node.rows
  /\ node.pc \notin {"committed", "done", "failed"} => \A r \in results : r.run < node.run
  /\ node.pc = "done" => (node.reason = "low_confidence" <=> node.review)

\* A script that has not raised has left clauses to index; one that has done all
\* its steps has left them indexed, for good.
ShelfFits ==
  /\ boot.pc = "clauses" /\ ~ boot.raised => clauses # "absent"
  /\ booted => clauses = "indexed"
  /\ node.ready => booted
  /\ node.ready /\ node.pc \in {"uflpa", "recycled", "carbon", "generic", "count", "ask", "insert"} =>
       Current \in Absent \cup Stubs \/ node.found = "clauses"

\* What may be stored: a verdict of the four or NULL, and no row that rests on no
\* clause or on part of the data and yet reads as a judgment.
ResultsInv ==
  /\ ComplianceTypeOK /\ UncitedIsRejected /\ PartialIsFlagged
  /\ JudgeFits /\ RowsFit /\ ShelfFits

\* The node answers for what it stored: a flag of any regulation reaches the
\* error reason that routes the batch to a human, and a reason given has a row
\* the results page marks, or comes from a regulation that could not be stored.
ReasonFitsRows ==
  node.pc = "done" =>
    LET mine == {r \in results : r.run = node.run}
    IN  /\ (\E r \in mine : r.review) => node.reason = "low_confidence"
        /\ node.reason = "low_confidence" =>
             \/ \E r \in mine : NeedsReview(r)
             \/ \E dest \in Destination :
                  /\ {r.code : r \in mine} \subseteq Range(Judged[dest])
                  /\ Range(Judged[dest]) \cap Absent # {}

\* One transaction: of a start of the node, which may raise half-way or be
\* started again, there is a row for every regulation of one destination that
\* has one, or there is none (compliance_node commits once, at the end).
RowsComeTogether ==
  \A k \in 1..MaxRuns :
    LET mine == {r \in results : r.run = k}
    IN  mine = {} \/ \E dest \in Destination :
          /\ {r.code : r \in mine} = Range(Judged[dest]) \ Absent
          /\ \A q, r \in mine : q.code = r.code => q = r

\* Once a start of the indexing script has done all three steps, a node that
\* starts later judges every regulation it asks the model about over clauses,
\* never over the one-line description, however often the script is killed and
\* started again after that (embeddings.py, docker-compose.yml).
JudgedOverClauses ==
  node.ready => \A r \in node.rows : r.code \notin Stubs => r.found = "clauses"
=============================================================================
