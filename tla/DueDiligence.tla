----------------------------- MODULE DueDiligence -----------------------------
(***************************************************************************)
(* One audit record of a supplier: its report, which is a file stored in   *)
(* three places one after the other (the bucket, the files table, the      *)
(* audit), and its corrective actions.  Calls of the API upload a report,  *)
(* delete a file and update a corrective action; they overlap, raise and   *)
(* die between their commits.                                              *)
(***************************************************************************)
EXTENDS Naturals

CONSTANTS
  Call,        \* calls; an upload's file is named after its call
  Nothing,     \* NULL
  Item         \* corrective actions of the audit

VARIABLES
  objects,     \* files whose bytes are in the bucket
  files,       \* rows of files
  audit,       \* result, score and report_file_id, each by the upload that gave it
  capa,        \* status in supplier_audit_records.corrective_actions
  op,          \* the calls
  asked,       \* not stored: files somebody has asked to delete
  gaps,        \* not stored: has an upload left the result or the score out?
  told         \* not stored: the last status a caller was told for an item

auditVars == <<objects, files, audit, capa, op, asked, gaps, told>>

Idle == [pc |-> "idle"]
Done == [pc |-> "done"]

AuditInit ==
  /\ objects = {} /\ files = {}
  /\ audit = [result |-> Nothing, score |-> Nothing, file |-> Nothing]
  /\ capa = [i \in Item |-> "open"]
  /\ op = [c \in Call |-> Idle]
  /\ asked = {} /\ gaps = FALSE
  /\ told = capa

Goes(c, next) == op' = [op EXCEPT ![c] = next]

\* PATCH /due-diligence/{id}/report: the audit is the tenant's; the form gives
\* a result and a score, each of which may be left out.
UploadStarts(c) ==
  /\ op[c] = Idle
  /\ \E gives \in SUBSET {"result", "score"} :
       /\ Goes(c, [pc |-> "checked", gives |-> gives])
       /\ gaps' = (gaps \/ gives # {"result", "score"})
  /\ UNCHANGED <<objects, files, audit, capa, asked, told>>

UploadPutsNothing(c) ==   \* mutant: the row is written for bytes that were never put
  /\ op[c].pc = "checked"
  /\ Goes(c, [op[c] EXCEPT !.pc = "put"])
  /\ UNCHANGED <<objects, files, audit, capa, asked, gaps, told>>

\* upload_file: the bytes first; a file that is refused or cannot be put ends
\* the call here.
UploadPuts(c) ==
  /\ op[c].pc = "checked"
  /\ objects' = objects \cup {c}
  /\ Goes(c, [op[c] EXCEPT !.pc = "put"])
  /\ UNCHANGED <<files, audit, capa, asked, gaps, told>>

\* The row, in a transaction of its own.
UploadStores(c) ==
  /\ op[c].pc = "put"
  /\ files' = files \cup {c}
  /\ Goes(c, [op[c] EXCEPT !.pc = "stored"])
  /\ UNCHANGED <<objects, audit, capa, asked, gaps, told>>

Coalesce(given, old, c) == IF given THEN c ELSE old

LinksFirstFile(c) ==   \* mutant: COALESCE the wrong way round for the file
  /\ op[c].pc = "stored" /\ c \in files
  /\ audit' = [result |-> Coalesce("result" \in op[c].gives, audit.result, c),
               score |-> Coalesce("score" \in op[c].gives, audit.score, c),
               file |-> IF audit.file = Nothing THEN c ELSE audit.file]
  /\ Goes(c, Done)
  /\ UNCHANGED <<objects, files, capa, asked, gaps, told>>

\* One UPDATE with COALESCE; the foreign key refuses a file that is gone.
UploadLinks(c) ==
  /\ op[c].pc = "stored" /\ c \in files
  /\ audit' = [result |-> Coalesce("result" \in op[c].gives, audit.result, c),
               score |-> Coalesce("score" \in op[c].gives, audit.score, c),
               file |-> c]
  /\ Goes(c, Done)
  /\ UNCHANGED <<objects, files, capa, asked, gaps, told>>

\* DELETE /files/{id} reads the row, then deletes the bytes.
EraseReads(c) ==
  /\ op[c] = Idle
  /\ \E f \in files : /\ Goes(c, [pc |-> "found", file |-> f])
                      /\ asked' = asked \cup {f}
  /\ UNCHANGED <<objects, files, audit, capa, gaps, told>>

EraseLeavesBytes(c) ==   \* mutant: the bucket is asked for another key
  /\ op[c].pc = "found"
  /\ Goes(c, [op[c] EXCEPT !.pc = "emptied"])
  /\ UNCHANGED <<objects, files, audit, capa, asked, gaps, told>>

EraseObject(c) ==
  /\ op[c].pc = "found"
  /\ objects' = objects \ {op[c].file}
  /\ Goes(c, [op[c] EXCEPT !.pc = "emptied"])
  /\ UNCHANGED <<files, audit, capa, asked, gaps, told>>

\* The row goes last, unless the audit refers to it: then the DELETE raises.
EraseRow(c) ==
  /\ op[c].pc = "emptied" /\ audit.file # op[c].file
  /\ files' = files \ {op[c].file}
  /\ Goes(c, Done)
  /\ UNCHANGED <<objects, audit, capa, asked, gaps, told>>

\* PATCH .../capa/{id}: the list is read to see that the item is there.
CapaReads(c) ==
  /\ op[c] = Idle
  /\ \E i \in Item, status \in {"open", "closed"} :
       Goes(c, [pc |-> "seen", item |-> i, status |-> status, list |-> capa])
  /\ UNCHANGED <<objects, files, audit, capa, asked, gaps, told>>

CapaWritesList(c) ==   \* mutant: the list that was read is written back
  /\ op[c].pc = "seen"
  /\ capa' = [op[c].list EXCEPT ![op[c].item] = op[c].status]
  /\ told' = [told EXCEPT ![op[c].item] = op[c].status]
  /\ Goes(c, Done)
  /\ UNCHANGED <<objects, files, audit, asked, gaps>>

\* One UPDATE computes the new list from the row it locks, not from what was read.
CapaWrites(c) ==
  /\ op[c].pc = "seen"
  /\ capa' = [capa EXCEPT ![op[c].item] = op[c].status]
  /\ told' = [told EXCEPT ![op[c].item] = op[c].status]
  /\ Goes(c, Done)
  /\ UNCHANGED <<objects, files, audit, asked, gaps>>

\* A refusal by the bucket or the database, or the death of the web worker:
\* what is committed or put stays.
CallDies(c) ==
  /\ op[c] \notin {Idle, Done}
  /\ Goes(c, Done)
  /\ UNCHANGED <<objects, files, audit, capa, asked, gaps, told>>

AuditNext ==
  \E c \in Call :
    \/ UploadStarts(c) \/ UploadPuts(c) \/ UploadStores(c) \/ UploadLinks(c)
    \/ EraseReads(c) \/ EraseObject(c) \/ EraseRow(c)
    \/ CapaReads(c) \/ CapaWrites(c)
    \/ CallDies(c)

AuditSpec == AuditInit /\ [][AuditNext]_auditVars

-----------------------------------------------------------------------------
UploadState ==
  [pc : {"checked", "put", "stored"}, gives : SUBSET {"result", "score"}]
EraseState == [pc : {"found", "emptied"}, file : Call]
CapaState ==
  [pc : {"seen"}, item : Item, status : {"open", "closed"},
   list : [Item -> {"open", "closed"}]]
CallState == {Idle, Done} \cup UploadState \cup EraseState \cup CapaState

\* Every component stays in its domain.
AuditTypeOK ==
  /\ objects \subseteq Call /\ files \subseteq Call /\ asked \subseteq Call
  /\ audit \in [result : Call \cup {Nothing}, score : Call \cup {Nothing},
                file : Call \cup {Nothing}]
  /\ capa \in [Item -> {"open", "closed"}] /\ told \in [Item -> {"open", "closed"}]
  /\ op \in [Call -> CallState]
  /\ gaps \in BOOLEAN

\* The report an audit shows can be opened: its row and its bytes are there,
\* whichever calls died half-way, as long as nobody asked to delete that file
\* (a delete empties the bucket before the foreign key refuses the row).
ShownReportOpens ==
  audit.file # Nothing =>
    audit.file \in files /\ (audit.file \in objects \/ audit.file \in asked)

\* If every upload gives a result and a score, the result, the score and the
\* report of an audit are those of one upload, however two uploads overlap and
\* whichever of them dies (update_report writes the three in one statement).
ReportIsOfOneUpload ==
  ~ gaps => audit.result = audit.score /\ audit.score = audit.file

\* No overlapping update of another item takes back a status a caller was told.
CapaKeepsWhatWasTold == capa = told

\* A file that was deleted is gone from the table and from the bucket: no delete,
\* finished, refused or dead half-way, leaves bytes that no row leads to.
DeletedIsGone == \A f \in asked : f \notin files => f \notin objects

\* Where a call stands tells what is in the bucket and in the table.
Stands(c) ==
  /\ op[c] \in UploadState => gaps \/ op[c].gives = {"result", "score"}
  /\ op[c].pc = "put" => c \in objects
  /\ op[c].pc = "found" => op[c].file \in asked
  /\ op[c].pc = "emptied" => op[c].file \in asked \ objects

CallsStand ==
  /\ \A c \in Call : Stands(c)
  /\ \A f \in files \cup asked : op[f].pc \in {"stored", "done"}
  /\ files \subseteq objects \cup asked

\* The inductive invariant behind the four.
AuditInv ==
  /\ AuditTypeOK /\ CallsStand
  /\ ShownReportOpens /\ ReportIsOfOneUpload /\ CapaKeepsWhatWasTold /\ DeletedIsGone
=============================================================================
