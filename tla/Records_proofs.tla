---------------------------- MODULE Records_proofs ----------------------------
(***************************************************************************)
(* The inductive invariants of three records that the system must be able  *)
(* to show later: the audit trail of a batch (AuditTrail), the audit       *)
(* record of a due diligence with its files (DueDiligence), and a report   *)
(* with its approval line (ReportApproval).  No name of one is a name of   *)
(* another, and no theorem here is about two of them.                      *)
(***************************************************************************)
EXTENDS AuditTrail, DueDiligence, ReportApproval, FiniteSetTheorems, TLAPS

-----------------------------------------------------------------------------
(***************************************************************************)
(* AuditTrail: the trail is a tree, and one without a duplicate step       *)
(* verifies.                                                               *)
(***************************************************************************)
-----------------------------------------------------------------------------
(* The inductive invariant *)

\* An anchor stays one when rows are added.
LEMMA AnchorsStay ==
  ASSUME trail \subseteq trail', NEW num, NEW prev, Anchored(num, prev)
  PROVE  Anchored(num, prev)'
BY DEF Anchored

\* At the start nothing is in the trail and no call has read it.
LEMMA InitTrail == Init => TrailInv
BY DEF Init, TrailInv, TypeOK, RowsAreAnchored, ReadsAreAnchored, IdleWriter,
       WriterState

\* What a call reads anchors the row it will insert.
LEMMA ReadPreserves ==
  ASSUME TrailInv, NEW w \in Writer, AuditReads(w)
  PROVE  TrailInv'
<1>1. PICK s \in Nat \ {0}, p \in Hash \cup {NoHash} :
        /\ writer' = [writer EXCEPT ![w] = [pc |-> "read", step |-> s, prev |-> p]]
        /\ Anchored(s, p)
  <2>1. CASE trail = {} /\ writer' = [writer EXCEPT ![w] =
                             [pc |-> "read", step |-> 1, prev |-> NoHash]]
    <3>1. 1 \in Nat \ {0} /\ NoHash \in Hash \cup {NoHash} /\ Anchored(1, NoHash)
      BY DEF Anchored
    <3>. QED
      BY <2>1, <3>1
  <2>2. CASE \E r \in Last : writer' = [writer EXCEPT ![w] =
                 [pc |-> "read", step |-> NextStep(r), prev |-> r.output]]
    <3>1. PICK r \in trail : writer' = [writer EXCEPT ![w] =
                 [pc |-> "read", step |-> r.step + 1, prev |-> r.output]]
      BY <2>2 DEF Last, NextStep
    <3>2. r.step + 1 \in Nat \ {0} /\ r.output \in Hash
      BY <3>1 DEF TrailInv, TypeOK, Row
    <3>3. Anchored(r.step + 1, r.output)
      BY DEF Anchored
    <3>. QED
      BY <3>1, <3>2, <3>3
  <2>. QED
    BY <2>1, <2>2 DEF AuditReads
<1>2. TypeOK'
  BY <1>1 DEF AuditReads, TrailInv, TypeOK, WriterState
<1>3. RowsAreAnchored'
  BY DEF AuditReads, TrailInv, RowsAreAnchored, Anchored
<1>4. ReadsAreAnchored'
  <2>1. ASSUME NEW v \in Writer, writer'[v].pc = "read"
        PROVE  Anchored(writer'[v].step, writer'[v].prev)
    BY <1>1, <2>1 DEF TrailInv, TypeOK, ReadsAreAnchored
  <2>. QED
    BY <2>1 DEF AuditReads, ReadsAreAnchored, Anchored
<1>. QED
  BY <1>2, <1>3, <1>4 DEF TrailInv

\* The row a call inserts hangs on the row it read, which is still there.
LEMMA CommitPreserves ==
  ASSUME TrailInv, NEW w \in Writer, AuditCommits(w)
  PROVE  TrailInv'
<1>1. PICK i \in RowId, h \in Hash :
        trail' = trail \cup {[id |-> i, step |-> writer[w].step,
                              prev |-> writer[w].prev, output |-> h]}
  BY DEF AuditCommits
<1>2. writer[w] \in WriterState /\ writer' = [writer EXCEPT ![w] = IdleWriter]
  BY DEF AuditCommits, TrailInv, TypeOK
<1>3. TypeOK'
  <2>1. trail' \subseteq Row
    BY <1>1, <1>2 DEF TrailInv, TypeOK, Row, WriterState
  <2>2. writer' \in [Writer -> WriterState]
    BY <1>2 DEF TrailInv, TypeOK, WriterState, IdleWriter
  <2>. QED
    BY <2>1, <2>2 DEF TypeOK
<1>4. trail \subseteq trail'
  BY <1>1
<1>5. RowsAreAnchored'
  <2>1. ASSUME NEW r \in trail'
        PROVE  Anchored(r.step, r.prev)
    <3>1. CASE r \in trail
      BY <3>1 DEF TrailInv, RowsAreAnchored
    <3>2. CASE r = [id |-> i, step |-> writer[w].step,
                    prev |-> writer[w].prev, output |-> h]
      BY <3>2 DEF AuditCommits, TrailInv, ReadsAreAnchored
    <3>. QED
      BY <1>1, <3>1, <3>2
  <2>. QED
    BY <1>4, <2>1 DEF RowsAreAnchored, Anchored
<1>6. ReadsAreAnchored'
  <2>1. ASSUME NEW v \in Writer, writer'[v].pc = "read"
        PROVE  Anchored(writer'[v].step, writer'[v].prev)
    BY <1>2, <2>1 DEF TrailInv, TypeOK, ReadsAreAnchored, IdleWriter
  <2>. QED
    BY <1>4, <2>1 DEF ReadsAreAnchored, Anchored
<1>. QED
  BY <1>3, <1>5, <1>6 DEF TrailInv

\* A failed insert leaves the trail as it was.
LEMMA FailPreserves ==
  ASSUME TrailInv, NEW w \in Writer, AuditFails(w)
  PROVE  TrailInv'
<1>1. writer' = [writer EXCEPT ![w] = IdleWriter] /\ trail' = trail
  BY DEF AuditFails
<1>2. TypeOK'
  BY <1>1 DEF TrailInv, TypeOK, WriterState, IdleWriter
<1>3. RowsAreAnchored'
  BY <1>1 DEF TrailInv, RowsAreAnchored, Anchored
<1>4. ReadsAreAnchored'
  BY <1>1 DEF TrailInv, TypeOK, ReadsAreAnchored, Anchored, IdleWriter
<1>. QED
  BY <1>2, <1>3, <1>4 DEF TrailInv

\* However the calls of _write_audit overlap and fail, every row of the audit
\* trail hangs on a row of the trail one step before it.
THEOREM TrailInvariant == Spec => []TrailInv
<1>1. TrailInv /\ [Next]_vars => TrailInv'
  <2>. SUFFICES ASSUME TrailInv, [Next]_vars PROVE TrailInv'
    OBVIOUS
  <2>1. CASE UNCHANGED vars
    BY <2>1 DEF vars, TrailInv, TypeOK, RowsAreAnchored, ReadsAreAnchored, Anchored
  <2>2. CASE Next
    BY <2>2, ReadPreserves, CommitPreserves, FailPreserves DEF Next
  <2>. QED
    BY <2>1, <2>2
<1>. QED
  BY InitTrail, <1>1, PTL DEF Spec

-----------------------------------------------------------------------------
(* A trail without a duplicate step verifies *)

\* Only finitely many rows have been inserted.
LEMMA TrailIsFinite == Spec => []IsFiniteSet(trail)
<1>1. Init => IsFiniteSet(trail)
  BY FS_EmptySet DEF Init
<1>2. IsFiniteSet(trail) /\ [Next]_vars => IsFiniteSet(trail)'
  <2>. SUFFICES ASSUME IsFiniteSet(trail), [Next]_vars PROVE IsFiniteSet(trail')
    OBVIOUS
  <2>1. CASE trail' = trail
    BY <2>1
  <2>2. CASE \E x : trail' = trail \cup {x}
    BY <2>2, FS_AddElement
  <2>. QED
    BY <2>1, <2>2 DEF Next, vars, AuditReads, AuditCommits, AuditFails
<1>. QED
  BY <1>1, <1>2, PTL DEF Spec

\* In a listing whose steps all differ, the predecessor of a row is the row
\* listed before it: it comes earlier, and no step lies between the two.
LEMMA ListedAfterItsAnchor ==
  ASSUME TrailInv, IsFiniteSet(trail), UniqueSteps, NEW rows \in Listings,
         NEW i \in DOMAIN rows
  PROVE  rows[i].prev = IF i = 1 THEN NoHash ELSE rows[i - 1].output
<1> DEFINE n == Cardinality(trail)
<1>1. n \in Nat
  BY FS_CardinalityType
<1>2. /\ rows \in [1..n -> trail]
      /\ \A r \in trail : \E j \in 1..n : rows[j] = r
      /\ \A j, k \in 1..n :
           j < k => rows[j] # rows[k] /\ rows[j].step <= rows[k].step
  BY DEF Listings
<1>. HIDE DEF n
<1>3. \A j \in 1..n : rows[j] \in trail /\ rows[j].step \in Nat
  BY <1>2 DEF TrailInv, TypeOK, Row
<1>4. \A j, k \in 1..n : j < k => rows[j].step < rows[k].step
  <2>. SUFFICES ASSUME NEW j \in 1..n, NEW k \in 1..n, j < k
                PROVE  rows[j].step < rows[k].step
    OBVIOUS
  <2>1. rows[j].step # rows[k].step
    BY <1>2, <1>3 DEF UniqueSteps
  <2>2. rows[j].step <= rows[k].step
    BY <1>2
  <2>. QED
    BY <1>3, <2>1, <2>2
<1>5. i \in 1..n
  BY <1>2
<1>6. Anchored(rows[i].step, rows[i].prev)
  BY <1>3, <1>5 DEF TrailInv, RowsAreAnchored
<1>7. CASE rows[i].step = 1 /\ rows[i].prev = NoHash
  <2>1. i = 1
    <3>. SUFFICES ASSUME i # 1 PROVE FALSE
      OBVIOUS
    <3>1. 1 \in 1..n /\ 1 < i
      BY <1>1, <1>5
    <3>2. rows[1].step < 1
      BY <1>4, <1>5, <1>7, <3>1
    <3>3. rows[1].step # 0
      BY <1>2, <3>1 DEF TrailInv, TypeOK, Row
    <3>. QED
      BY <1>3, <3>1, <3>2, <3>3
  <2>. QED
    BY <1>7, <2>1
<1>8. CASE \E p \in trail : rows[i].step = p.step + 1 /\ rows[i].prev = p.output
  <2>1. PICK j \in 1..n : /\ rows[i].step = rows[j].step + 1
                          /\ rows[i].prev = rows[j].output
    BY <1>2, <1>8
  <2>2. j < i
    <3>1. ~ (i < j)
      BY <1>3, <1>4, <1>5, <2>1
    <3>2. i # j
      BY <1>3, <2>1
    <3>. QED
      BY <1>1, <1>5, <3>1, <3>2
  <2>3. j = i - 1
    <3>. SUFFICES ASSUME j < i - 1 PROVE FALSE
      BY <1>1, <1>5, <2>2
    <3>1. i - 1 \in 1..n
      BY <1>1, <1>5, <2>2
    <3>2. rows[j].step < rows[i - 1].step /\ rows[i - 1].step < rows[i].step
      BY <1>1, <1>4, <1>5, <3>1
    <3>. QED
      BY <1>3, <1>5, <2>1, <3>1, <3>2
  <2>. QED
    BY <1>1, <1>5, <2>1, <2>2, <2>3
<1>. QED
  BY <1>6, <1>7, <1>8 DEF Anchored

\* verify_chain reports no break in a trail where no step number is there
\* twice, in whatever order the rows are listed.
THEOREM UniqueStepsVerified == Spec => []UniqueStepsVerify
<1>1. TrailInv /\ IsFiniteSet(trail) => UniqueStepsVerify
  <2>. SUFFICES ASSUME TrailInv, IsFiniteSet(trail), UniqueSteps,
                       NEW rows \in Listings
                PROVE  ValidLinks(rows)
    BY DEF UniqueStepsVerify
  <2>. QED
    BY ListedAfterItsAnchor DEF ValidLinks
<1>. QED
  BY <1>1, TrailInvariant, TrailIsFinite, PTL

-----------------------------------------------------------------------------
(***************************************************************************)
(* DueDiligence, for any number of calls and corrective actions.  Where a  *)
(* call stands tells which of the three places its file has reached; a     *)
(* file that is in the table is in the bucket too, or somebody has asked   *)
(* to delete it.                                                           *)
(***************************************************************************)
LEMMA InitAudit == AuditInit => AuditInv
<1> SUFFICES ASSUME AuditInit PROVE AuditInv
  OBVIOUS
<1>1. AuditTypeOK
  BY DEF AuditInit, AuditTypeOK, CallState
<1>2. CallsStand
  BY DEF AuditInit, CallsStand, Stands, UploadState, Idle
<1> QED
  BY <1>1, <1>2 DEF AuditInit, AuditInv, ShownReportOpens, ReportIsOfOneUpload,
     CapaKeepsWhatWasTold, DeletedIsGone

\* The step of a call tells its kind.
LEMMA Kinds ==
  ASSUME AuditTypeOK, NEW c \in Call
  PROVE  /\ op[c].pc \in {"checked", "put", "stored"} => op[c] \in UploadState
         /\ op[c].pc \in {"found", "emptied"} => op[c] \in EraseState
         /\ op[c].pc = "seen" => op[c] \in CapaState
         /\ op[c] \in UploadState => op[c].pc \in {"checked", "put", "stored"}
         /\ op[c] \in {Idle, Done} => op[c] \notin UploadState
BY DEF AuditTypeOK, CallState, Idle, Done, UploadState, EraseState, CapaState

\* A call that goes on leaves the other calls where they stand.
LEMMA OneGoes ==
  ASSUME AuditTypeOK, NEW c \in Call, NEW next \in CallState, Goes(c, next)
  PROVE  /\ op' \in [Call -> CallState] /\ op'[c] = next
         /\ \A d \in Call \ {c} : op'[d] = op[d]
BY DEF AuditTypeOK, Goes

\* An upload goes on with what it gives.
LEMMA UploadGoes ==
  ASSUME AuditTypeOK, NEW c \in Call, op[c].pc \in {"checked", "put", "stored"},
         NEW pc \in {"checked", "put", "stored"}, Goes(c, [op[c] EXCEPT !.pc = pc])
  PROVE  /\ op' \in [Call -> CallState] /\ op'[c] \in UploadState
         /\ op'[c].pc = pc /\ op'[c].gives = op[c].gives
         /\ \A d \in Call \ {c} : op'[d] = op[d]
<1>1. op[c] \in UploadState
  BY Kinds
<1>2. /\ [op[c] EXCEPT !.pc = pc] \in UploadState
      /\ [op[c] EXCEPT !.pc = pc].pc = pc
      /\ [op[c] EXCEPT !.pc = pc].gives = op[c].gives
  BY <1>1 DEF UploadState
<1>3. [op[c] EXCEPT !.pc = pc] \in CallState
  BY <1>2 DEF CallState
<1> QED
  BY <1>2, <1>3, OneGoes

LEMMA StartPreserves ==
  ASSUME AuditInv, NEW c \in Call, UploadStarts(c)
  PROVE  AuditInv'
<1> USE DEF AuditInv
<1>1. PICK gives \in SUBSET {"result", "score"} :
        /\ Goes(c, [pc |-> "checked", gives |-> gives])
        /\ gaps' = (gaps \/ gives # {"result", "score"})
  BY DEF UploadStarts
<1>2. [pc |-> "checked", gives |-> gives] \in UploadState
  BY DEF UploadState
<1>3. /\ op' \in [Call -> CallState] /\ op'[c] = [pc |-> "checked", gives |-> gives]
      /\ \A d \in Call \ {c} : op'[d] = op[d]
  BY <1>1, <1>2, OneGoes DEF CallState
<1>4. op[c].pc = "idle" /\ UNCHANGED <<objects, files, audit, capa, asked, told>>
  BY DEF UploadStarts, Idle
<1>5. AuditTypeOK'
  BY <1>1, <1>3, <1>4 DEF AuditTypeOK
<1>6. CallsStand'
  <2>1. Stands(c)'
    <3>1. gaps' \/ gives = {"result", "score"}
      BY <1>1
    <3>2. op'[c].pc = "checked" /\ op'[c].gives = gives
      BY <1>3
    <3> QED
      BY <3>1, <3>2 DEF Stands
  <2>2. \A d \in Call \ {c} : Stands(d)'
    BY <1>1, <1>3, <1>4 DEF CallsStand, Stands
  <2>3. \A f \in files \cup asked : f # c
    BY <1>4 DEF CallsStand
  <2> QED
    BY <1>3, <1>4, <2>1, <2>2, <2>3 DEF CallsStand, AuditTypeOK
<1> QED
  BY <1>1, <1>4, <1>5, <1>6 DEF ShownReportOpens, ReportIsOfOneUpload,
     CapaKeepsWhatWasTold, DeletedIsGone

LEMMA PutPreserves ==
  ASSUME AuditInv, NEW c \in Call, UploadPuts(c)
  PROVE  AuditInv'
<1> USE DEF AuditInv
<1>1. /\ op[c].pc = "checked" /\ objects' = objects \cup {c}
      /\ UNCHANGED <<files, audit, capa, asked, gaps, told>>
  BY DEF UploadPuts
<1>2. /\ op' \in [Call -> CallState] /\ op'[c] \in UploadState
      /\ op'[c].pc = "put" /\ op'[c].gives = op[c].gives
      /\ \A d \in Call \ {c} : op'[d] = op[d]
  BY <1>1, UploadGoes DEF UploadPuts
<1>3. op[c] \in UploadState /\ c \notin asked /\ c \notin files
  BY <1>1, Kinds DEF CallsStand
<1>4. AuditTypeOK'
  BY <1>1, <1>2 DEF AuditTypeOK
<1>5. CallsStand'
  <2>1. Stands(c)'
    BY <1>1, <1>2, <1>3 DEF CallsStand, Stands
  <2>2. \A d \in Call \ {c} : Stands(d)'
    BY <1>1, <1>2, <1>3 DEF CallsStand, Stands
  <2> QED
    BY <1>1, <1>2, <1>3, <2>1, <2>2 DEF CallsStand, AuditTypeOK
<1> QED
  BY <1>1, <1>3, <1>4, <1>5 DEF ShownReportOpens, ReportIsOfOneUpload,
     CapaKeepsWhatWasTold, DeletedIsGone

LEMMA StorePreserves ==
  ASSUME AuditInv, NEW c \in Call, UploadStores(c)
  PROVE  AuditInv'
<1> USE DEF AuditInv
<1>1. /\ op[c].pc = "put" /\ files' = files \cup {c}
      /\ UNCHANGED <<objects, audit, capa, asked, gaps, told>>
  BY DEF UploadStores
<1>2. /\ op' \in [Call -> CallState] /\ op'[c] \in UploadState
      /\ op'[c].pc = "stored" /\ op'[c].gives = op[c].gives
      /\ \A d \in Call \ {c} : op'[d] = op[d]
  BY <1>1, UploadGoes DEF UploadStores
<1>3. op[c] \in UploadState /\ c \in objects /\ c \notin asked
  BY <1>1, Kinds DEF CallsStand, Stands
<1>4. AuditTypeOK'
  BY <1>1, <1>2 DEF AuditTypeOK
<1>5. CallsStand'
  <2>1. Stands(c)'
    BY <1>1, <1>2, <1>3 DEF CallsStand, Stands
  <2>2. \A d \in Call \ {c} : Stands(d)'
    BY <1>1, <1>2 DEF CallsStand, Stands
  <2> QED
    BY <1>1, <1>2, <1>3, <2>1, <2>2 DEF CallsStand, AuditTypeOK
<1> QED
  BY <1>1, <1>3, <1>4, <1>5 DEF ShownReportOpens, ReportIsOfOneUpload,
     CapaKeepsWhatWasTold, DeletedIsGone

\* A call that ends, with or without having written, stands nowhere.
LEMMA EndStands ==
  ASSUME AuditInv, NEW c \in Call, Goes(c, Done), UNCHANGED <<gaps, objects, asked>>,
         files' \subseteq files, op[c].pc # "idle"
  PROVE  op' \in [Call -> CallState] /\ CallsStand'
<1>1. /\ op' \in [Call -> CallState] /\ op'[c] = Done
      /\ \A d \in Call \ {c} : op'[d] = op[d]
  BY OneGoes DEF AuditInv, CallState
<1>2. Done.pc = "done" /\ Done \notin UploadState
  BY DEF Done, UploadState
<1>3. Stands(c)'
  BY <1>1, <1>2 DEF Stands, Done
<1>4. \A d \in Call \ {c} : Stands(d)'
  BY <1>1 DEF AuditInv, CallsStand, Stands
<1> QED
  BY <1>1, <1>2, <1>3, <1>4 DEF AuditInv, AuditTypeOK, CallsStand

\* The three columns are written together, for a file that is stored.
LEMMA LinkPreserves ==
  ASSUME AuditInv, NEW c \in Call, UploadLinks(c)
  PROVE  AuditInv'
<1> USE DEF AuditInv
<1>1. /\ op[c].pc = "stored" /\ c \in files /\ Goes(c, Done)
      /\ audit' = [result |-> Coalesce("result" \in op[c].gives, audit.result, c),
                   score |-> Coalesce("score" \in op[c].gives, audit.score, c),
                   file |-> c]
      /\ UNCHANGED <<objects, files, capa, asked, gaps, told>>
  BY DEF UploadLinks
<1>2. op' \in [Call -> CallState] /\ CallsStand'
  BY <1>1, EndStands
<1>3. audit' \in [result : Call \cup {Nothing}, score : Call \cup {Nothing},
                  file : Call \cup {Nothing}]
  BY <1>1 DEF AuditTypeOK, Coalesce
<1>4. AuditTypeOK'
  BY <1>1, <1>2, <1>3 DEF AuditTypeOK
<1>5. gaps \/ op[c].gives = {"result", "score"}
  BY <1>1, Kinds DEF CallsStand, Stands
<1>6. ReportIsOfOneUpload'
  BY <1>1, <1>5 DEF ReportIsOfOneUpload, Coalesce
<1>7. ShownReportOpens'
  BY <1>1 DEF ShownReportOpens, CallsStand
<1> QED
  BY <1>1, <1>2, <1>4, <1>6, <1>7 DEF CapaKeepsWhatWasTold, DeletedIsGone

\* delete_file
LEMMA ErasePreserves ==
  ASSUME AuditInv, NEW c \in Call, EraseReads(c) \/ EraseObject(c) \/ EraseRow(c)
  PROVE  AuditInv'
<1> USE DEF AuditInv
<1>1. CASE EraseReads(c)
  <2>1. PICK f \in files : Goes(c, [pc |-> "found", file |-> f]) /\ asked' = asked \cup {f}
    BY <1>1 DEF EraseReads
  <2>2. /\ op[c].pc = "idle" /\ f \in Call /\ f # c
        /\ UNCHANGED <<objects, files, audit, capa, gaps, told>>
    BY <1>1, <2>1 DEF EraseReads, Idle, AuditTypeOK, CallsStand
  <2>3. [pc |-> "found", file |-> f] \in EraseState
    BY <2>2 DEF EraseState
  <2>4. /\ op' \in [Call -> CallState] /\ op'[c] = [pc |-> "found", file |-> f]
        /\ \A d \in Call \ {c} : op'[d] = op[d]
    BY <2>1, <2>3, OneGoes DEF CallState
  <2>5. AuditTypeOK'
    BY <2>1, <2>2, <2>4 DEF AuditTypeOK
  <2>6. CallsStand'
    <3>1. op'[c].pc = "found" /\ op'[c].file = f /\ op'[c] \notin UploadState
      BY <2>4 DEF UploadState
    <3>2. Stands(c)'
      BY <2>1, <3>1 DEF Stands
    <3>3. \A d \in Call \ {c} : Stands(d)'
      BY <2>1, <2>2, <2>4 DEF CallsStand, Stands
    <3>4. \A g \in files \cup asked' : g \in Call \ {c} /\ op[g].pc \in {"stored", "done"}
      BY <2>1, <2>2 DEF CallsStand, AuditTypeOK
    <3> QED
      BY <2>1, <2>2, <2>4, <3>2, <3>3, <3>4 DEF CallsStand
  <2> QED
    BY <2>1, <2>2, <2>5, <2>6 DEF ShownReportOpens, ReportIsOfOneUpload,
       CapaKeepsWhatWasTold, DeletedIsGone
<1>2. CASE EraseObject(c)
  <2>1. /\ op[c].pc = "found" /\ objects' = objects \ {op[c].file}
        /\ Goes(c, [op[c] EXCEPT !.pc = "emptied"])
        /\ UNCHANGED <<files, audit, capa, asked, gaps, told>>
    BY <1>2 DEF EraseObject
  <2>2. op[c] \in EraseState /\ op[c].file \in asked
    BY <2>1, Kinds DEF CallsStand, Stands
  <2>3. /\ [op[c] EXCEPT !.pc = "emptied"] \in EraseState
        /\ [op[c] EXCEPT !.pc = "emptied"].pc = "emptied"
        /\ [op[c] EXCEPT !.pc = "emptied"].file = op[c].file
    BY <2>2 DEF EraseState
  <2>4. /\ op' \in [Call -> CallState] /\ op'[c] = [op[c] EXCEPT !.pc = "emptied"]
        /\ \A d \in Call \ {c} : op'[d] = op[d]
    BY <2>1, <2>3, OneGoes DEF CallState
  <2>5. AuditTypeOK'
    BY <2>1, <2>4 DEF AuditTypeOK
  <2>6. CallsStand'
    <3>1. op'[c].pc = "emptied" /\ op'[c].file = op[c].file /\ op'[c] \notin UploadState
      BY <2>3, <2>4 DEF UploadState
    <3>2. Stands(c)'
      BY <2>1, <2>2, <3>1 DEF Stands
    <3>3. \A d \in Call \ {c} : op[d].pc = "put" => d # op[c].file
      BY <2>2 DEF CallsStand
    <3>4. \A d \in Call \ {c} : Stands(d)'
      BY <2>1, <2>2, <2>4, <3>3 DEF CallsStand, Stands
    <3>5. \A g \in files \cup asked : g \in Call \ {c} /\ op[g].pc \in {"stored", "done"}
      BY <2>1 DEF CallsStand, AuditTypeOK
    <3> QED
      BY <2>1, <2>2, <2>4, <3>2, <3>4, <3>5 DEF CallsStand
  <2> QED
    BY <2>1, <2>2, <2>5, <2>6 DEF ShownReportOpens, ReportIsOfOneUpload,
       CapaKeepsWhatWasTold, DeletedIsGone
<1>3. CASE EraseRow(c)
  <2>1. /\ op[c].pc = "emptied" /\ audit.file # op[c].file
        /\ files' = files \ {op[c].file} /\ Goes(c, Done)
        /\ UNCHANGED <<objects, audit, capa, asked, gaps, told>>
    BY <1>3 DEF EraseRow
  <2>2. op' \in [Call -> CallState] /\ CallsStand'
    BY <2>1, EndStands
  <2>3. op[c].file \notin objects
    BY <2>1 DEF CallsStand, Stands
  <2>4. AuditTypeOK'
    BY <2>1, <2>2 DEF AuditTypeOK
  <2> QED
    BY <2>1, <2>2, <2>3, <2>4 DEF ShownReportOpens, ReportIsOfOneUpload,
       CapaKeepsWhatWasTold, DeletedIsGone
<1> QED
  BY <1>1, <1>2, <1>3

\* update_capa_status
LEMMA CapaPreserves ==
  ASSUME AuditInv, NEW c \in Call, CapaReads(c) \/ CapaWrites(c)
  PROVE  AuditInv'
<1> USE DEF AuditInv
<1>1. CASE CapaReads(c)
  <2>1. PICK i \in Item, status \in {"open", "closed"} :
          Goes(c, [pc |-> "seen", item |-> i, status |-> status, list |-> capa])
    BY <1>1 DEF CapaReads
  <2> DEFINE next == [pc |-> "seen", item |-> i, status |-> status, list |-> capa]
  <2>2. op[c].pc = "idle" /\ UNCHANGED <<objects, files, audit, capa, asked, gaps, told>>
    BY <1>1 DEF CapaReads, Idle
  <2>3. next \in CapaState /\ next.pc = "seen" /\ next \notin UploadState
    BY DEF CapaState, UploadState, AuditTypeOK
  <2> HIDE DEF next
  <2>4. /\ op' \in [Call -> CallState] /\ op'[c] = next
        /\ \A d \in Call \ {c} : op'[d] = op[d]
    BY <2>1, <2>3, OneGoes DEF CallState, next
  <2>5. AuditTypeOK'
    BY <2>2, <2>4 DEF AuditTypeOK
  <2>6. CallsStand'
    <3>1. Stands(c)'
      BY <2>3, <2>4 DEF Stands
    <3>2. \A d \in Call \ {c} : Stands(d)'
      BY <2>2, <2>4 DEF CallsStand, Stands
    <3> QED
      BY <2>2, <2>4, <3>1, <3>2 DEF CallsStand, AuditTypeOK
  <2> QED
    BY <2>2, <2>5, <2>6 DEF ShownReportOpens, ReportIsOfOneUpload,
       CapaKeepsWhatWasTold, DeletedIsGone
<1>2. CASE CapaWrites(c)
  <2>1. /\ op[c].pc = "seen" /\ Goes(c, Done)
        /\ capa' = [capa EXCEPT ![op[c].item] = op[c].status]
        /\ told' = [told EXCEPT ![op[c].item] = op[c].status]
        /\ UNCHANGED <<objects, files, audit, asked, gaps>>
    BY <1>2 DEF CapaWrites
  <2>2. op' \in [Call -> CallState] /\ CallsStand'
    BY <2>1, EndStands
  <2>3. op[c].item \in Item /\ op[c].status \in {"open", "closed"}
    BY <2>1, Kinds DEF CapaState
  <2>4. AuditTypeOK'
    BY <2>1, <2>2, <2>3 DEF AuditTypeOK
  <2> QED
    BY <2>1, <2>2, <2>4 DEF ShownReportOpens, ReportIsOfOneUpload,
       CapaKeepsWhatWasTold, DeletedIsGone
<1> QED
  BY <1>1, <1>2

\* A refusal or a death between two commits.
LEMMA DeathPreserves ==
  ASSUME AuditInv, NEW c \in Call, CallDies(c)
  PROVE  AuditInv'
<1> USE DEF AuditInv
<1>1. Goes(c, Done) /\ UNCHANGED <<objects, files, audit, capa, asked, gaps, told>>
  BY DEF CallDies
<1>2. op[c].pc # "idle"
  BY DEF CallDies, AuditTypeOK, CallState, Idle, UploadState, EraseState, CapaState
<1>3. op' \in [Call -> CallState] /\ CallsStand'
  BY <1>1, <1>2, EndStands
<1>4. AuditTypeOK'
  BY <1>1, <1>3 DEF AuditTypeOK
<1> QED
  BY <1>1, <1>3, <1>4 DEF ShownReportOpens, ReportIsOfOneUpload,
     CapaKeepsWhatWasTold, DeletedIsGone

\* However calls overlap and die, the three places of a report stay in step.
THEOREM AuditInvariant == AuditSpec => []AuditInv
<1>1. AuditInv /\ [AuditNext]_auditVars => AuditInv'
  <2> SUFFICES ASSUME AuditInv, [AuditNext]_auditVars PROVE AuditInv'
    OBVIOUS
  <2>1. CASE UNCHANGED auditVars
    BY <2>1 DEF auditVars, AuditInv, AuditTypeOK, CallsStand, Stands, ShownReportOpens,
       ReportIsOfOneUpload, CapaKeepsWhatWasTold, DeletedIsGone
  <2>2. CASE AuditNext
    BY <2>2, StartPreserves, PutPreserves, StorePreserves, LinkPreserves,
       ErasePreserves, CapaPreserves, DeathPreserves DEF AuditNext
  <2> QED
    BY <2>1, <2>2
<1> QED
  BY InitAudit, <1>1, PTL DEF AuditSpec

\* The report that an audit shows can be opened, unless its file was to go.
THEOREM ReportOpens == AuditSpec => []ShownReportOpens
<1>1. AuditInv => ShownReportOpens
  BY DEF AuditInv
<1> QED
  BY <1>1, AuditInvariant, PTL

\* Complete uploads do not mix.
THEOREM OneUpload == AuditSpec => []ReportIsOfOneUpload
<1>1. AuditInv => ReportIsOfOneUpload
  BY DEF AuditInv
<1> QED
  BY <1>1, AuditInvariant, PTL

\* No delete leaves bytes without a row.
THEOREM NoOrphanBytes == AuditSpec => []DeletedIsGone
<1>1. AuditInv => DeletedIsGone
  BY DEF AuditInv
<1> QED
  BY <1>1, AuditInvariant, PTL

-----------------------------------------------------------------------------
(***************************************************************************)
(* ReportApproval, for every set of approval lines and any number of calls *)
(* that overlap.  What a call loaded is old, but it names a step of the    *)
(* line that had been reached; decisions are never taken back, so what it  *)
(* writes keeps the order of the line.                                     *)
(***************************************************************************)
\* Steps are numbered from one to the length of the line.
LEMMA StepNumbers ==
  ASSUME ReportTypeOK
  PROVE  Len(line) \in Nat /\ Steps = 1..Len(line)
BY DEF ReportTypeOK, Steps

LEMMA InitReport == ReportInit => ReportInv
<1> SUFFICES ASSUME ReportInit PROVE ReportInv
  OBVIOUS
<1>1. ReportTypeOK
  <2>1. <<>> \in Seq(Approver) /\ DOMAIN <<>> = {}
    OBVIOUS
  <2>2. step \in [DOMAIN line -> StepStatus]
    BY <2>1 DEF ReportInit
  <2> QED
    BY <2>1, <2>2 DEF ReportInit, ReportTypeOK, ReportState, Settled
<1>2. Steps = {}
  BY DEF ReportInit, Steps
<1> QED
  BY <1>1, <1>2 DEF ReportInit, ReportInv, DecidedInOrder, SomebodyMayDecide, OutcomeFitsSteps,
     Settled, PreviousReviewers, RejectReasons

\* A call under way works on a report that exists.
LEMMA Under ==
  ASSUME ReportInv, NEW d \in Desk, call[d] # NoCall
  PROVE  /\ call[d] \in DeskState /\ Loaded(d)
         /\ report.status # "none" /\ report.current \in Steps
<1>1. call[d] \in DeskState /\ Loaded(d)
  BY DEF ReportInv, ReportTypeOK
<1>2. ASSUME report.status = "none" PROVE FALSE
  <2>1. Steps = {}
    BY <1>2, StepNumbers DEF ReportInv
  <2> QED
    BY <1>1, <2>1 DEF Loaded
<1> QED
  BY <1>1, <1>2 DEF ReportInv

\* POST /reports
LEMMA CreatePreserves ==
  ASSUME ReportInv, Create
  PROVE  ReportInv'
<1> PICK l \in Lines :
       /\ l # <<>>
       /\ line' = l
       /\ step' = [i \in DOMAIN l |-> "pending"]
  BY DEF Create
<1>1. l \in Seq(Approver) /\ Len(l) \in Nat /\ Len(l) > 0 /\ DOMAIN l = 1..Len(l)
  BY LinesAssumption
<1>2. /\ report \in ReportState /\ report.status = "none"
      /\ report' = [report EXCEPT !.status = "draft"]
      /\ UNCHANGED <<call, said, raced>> /\ said = {}
  BY DEF Create, ReportInv, ReportTypeOK
<1>3. Steps' = 1..Len(l) /\ \A i \in Steps' : step'[i] = "pending"
  BY <1>1 DEF Steps
<1>4. \A d \in Desk : call[d] = NoCall
  BY <1>2, Under
<1>5. ReportTypeOK'
  BY <1>1, <1>2 DEF ReportInv, ReportTypeOK, ReportState, StepStatus
<1>6. report'.status = "draft" /\ report'.current = report.current
  BY <1>2 DEF ReportState
<1>7. report.current = 1 /\ 1 \in Steps'
  BY <1>1, <1>2, <1>3 DEF ReportInv
<1> QED
  BY <1>2, <1>3, <1>4, <1>5, <1>6, <1>7
  DEF ReportInv, DecidedInOrder, SomebodyMayDecide, OutcomeFitsSteps, Settled,
      PreviousReviewers, Loaded

\* The two reads of a call write nothing but the call.
LEMMA LoadPreserves ==
  ASSUME ReportInv, NEW d \in Desk, LoadsReport(d) \/ LoadsStep(d)
  PROVE  ReportInv'
<1>1. UNCHANGED <<report, line, step, said, raced>> /\ Steps' = Steps
  BY DEF LoadsReport, LoadsStep, Steps
<1>2. call \in [Desk -> DeskState \cup {NoCall}]
  BY DEF ReportInv, ReportTypeOK
<1>3. /\ call' \in [Desk -> DeskState \cup {NoCall}]
      /\ \A e \in Desk : call'[e] = NoCall \/ Loaded(e)'
  <2>1. CASE LoadsReport(d)
    <3>1. PICK what \in {"submit", "approve", "reject"} :
            call' = [call EXCEPT ![d] = [pc |-> "loaded", what |-> what, seen |-> report]]
      BY <2>1 DEF LoadsReport
    <3>2. report \in ReportState /\ report.current \in Steps
      BY <2>1 DEF LoadsReport, ReportInv, ReportTypeOK
    <3>3. \A i \in Steps : i < report.current => step[i] # "pending"
      BY DEF ReportInv, DecidedInOrder, PreviousReviewers
    <3>4. call'[d] \in DeskState /\ Loaded(d)'
      BY <1>1, <1>2, <3>1, <3>2, <3>3 DEF DeskState, Loaded
    <3>5. \A e \in Desk \ {d} : call'[e] = call[e]
      BY <1>2, <3>1
    <3> QED
      BY <1>1, <1>2, <3>1, <3>4, <3>5 DEF ReportInv, Loaded
  <2>2. CASE LoadsStep(d)
    <3>1. call[d] \in DeskState /\ Loaded(d)
      BY <2>2, Under DEF LoadsStep, NoCall
    <3>2. CASE call' = [call EXCEPT ![d] = NoCall]
      BY <1>1, <1>2, <3>2 DEF ReportInv, Loaded
    <3>3. CASE /\ call' = [call EXCEPT ![d].pc = "ready"]
               /\ call[d].seen.status = "approval_pending" /\ call[d].what # "submit"
      <4>1. call'[d] = [call[d] EXCEPT !.pc = "ready"]
        BY <1>2, <3>3
      <4>2. call'[d] \in DeskState /\ Loaded(d)'
        BY <1>1, <3>1, <3>3, <4>1 DEF DeskState, Loaded
      <4>3. \A e \in Desk \ {d} : call'[e] = call[e]
        BY <1>2, <3>3
      <4> QED
        BY <1>1, <1>2, <3>3, <4>2, <4>3 DEF ReportInv, Loaded
    <3> QED
      BY <2>2, <3>2, <3>3 DEF LoadsStep, Refused
  <2> QED
    BY <2>1, <2>2
<1> QED
  BY <1>1, <1>3 DEF ReportInv, ReportTypeOK, DecidedInOrder, PreviousReviewers,
     SomebodyMayDecide, Inbox, OutcomeFitsSteps, RejectReasons

\* submit
LEMMA SubmitPreserves ==
  ASSUME ReportInv, NEW d \in Desk, Submit(d)
  PROVE  ReportInv'
<1>1. UNCHANGED <<line, step>> /\ Steps' = Steps
  BY DEF Submit, Steps
<1>2. /\ call \in [Desk -> DeskState \cup {NoCall}]
      /\ call' = [call EXCEPT ![d] = NoCall]
  BY DEF Submit, Refused, Commits, ReportInv, ReportTypeOK
<1>3. /\ call' \in [Desk -> DeskState \cup {NoCall}]
      /\ \A e \in Desk : call'[e] = NoCall \/ Loaded(e)'
  BY <1>1, <1>2 DEF ReportInv, Loaded
<1>4. CASE UNCHANGED <<report, said, raced>>
  BY <1>1, <1>3, <1>4 DEF ReportInv, ReportTypeOK, DecidedInOrder, PreviousReviewers,
     SomebodyMayDecide, Inbox, OutcomeFitsSteps, RejectReasons
<1>5. CASE /\ call[d].seen.status = "draft"
           /\ report' = [report EXCEPT !.status = "approval_pending"]
           /\ Commits(d, "submitted")
  <2>1. report \in ReportState /\ report.status # "none" /\ report.current \in Steps
    BY Under DEF Submit, NoCall, ReportInv, ReportTypeOK
  <2>2. /\ report' \in ReportState /\ report'.status = "approval_pending"
        /\ report'.current = report.current
    BY <1>5, <2>1 DEF ReportState
  <2>3. said' = said /\ raced' = (raced \/ Stale(d))
    BY <1>5 DEF Commits, Settled
  <2>4. ReportTypeOK'
    BY <1>1, <1>3, <2>2, <2>3 DEF ReportInv, ReportTypeOK
  <2>5. DecidedInOrder'
    BY <1>1, <2>2 DEF ReportInv, DecidedInOrder, PreviousReviewers
  <2>6. ASSUME ~ raced'
        PROVE  /\ ~ raced /\ said = {} /\ report.current = 1
               /\ \A i \in Steps : step[i] = "pending"
    <3>1. ~ raced /\ report.status = "draft"
      BY <1>5, <2>3, <2>6 DEF Stale
    <3>2. said = {}
      BY <3>1 DEF ReportInv, ReportTypeOK, OutcomeFitsSteps, Settled
    <3> QED
      BY <3>1, <3>2 DEF ReportInv
  <2>7. SomebodyMayDecide'
    <3> SUFFICES ASSUME ~ raced'
                 PROVE  /\ report.current \in Inbox(line[report.current])
                        /\ \A i \in Steps : i < report.current => step[i] = "approved"
      BY <1>1, <2>1, <2>2 DEF SomebodyMayDecide, Inbox
    <3> QED
      BY <2>1, <2>6, StepNumbers DEF Inbox, ReportInv
  <2>8. OutcomeFitsSteps'
    BY <2>2, <2>3, <2>6 DEF OutcomeFitsSteps
  <2> QED
    BY <1>1, <1>3, <2>1, <2>2, <2>4, <2>5, <2>7, <2>8 DEF ReportInv
<1> QED
  BY <1>4, <1>5 DEF Submit

\* A decision of the step that a call loaded, whatever it was then: it becomes
\* decided or decided again, after all steps before it.
LEMMA DecisionKeepsOrder ==
  ASSUME ReportInv, NEW d \in Desk, call[d].pc = "ready",
         NEW result \in {"approved", "rejected"},
         step' = [step EXCEPT ![call[d].seen.current] = result],
         call' = [call EXCEPT ![d] = NoCall], UNCHANGED line
  PROVE  /\ Steps' = Steps
         /\ step' \in [DOMAIN line -> StepStatus]
         /\ step'[call[d].seen.current] = result
         /\ \A i \in Steps : i # call[d].seen.current => step'[i] = step[i]
         /\ \A i, j \in Steps : i < j /\ step'[j] # "pending" => step'[i] # "pending"
         /\ call' \in [Desk -> DeskState \cup {NoCall}]
         /\ \A e \in Desk : call'[e] = NoCall \/ Loaded(e)'
<1> DEFINE n == call[d].seen.current
<1>1. Loaded(d) /\ n \in Steps
  BY Under DEF NoCall, Loaded
<1>2. /\ step \in [DOMAIN line -> StepStatus] /\ Steps = DOMAIN line
      /\ call \in [Desk -> DeskState \cup {NoCall}]
  BY DEF ReportInv, ReportTypeOK, Steps
<1>3. /\ Steps' = Steps
      /\ step' \in [DOMAIN line -> StepStatus]
      /\ step'[n] = result
      /\ \A i \in Steps : i # n => step'[i] = step[i]
  BY <1>1, <1>2 DEF Steps, StepStatus
<1>4. \A i \in Steps : step[i] # "pending" => step'[i] # "pending"
  BY <1>3
<1>5. \A i, j \in Steps : i < j /\ step'[j] # "pending" => step'[i] # "pending"
  <2> SUFFICES ASSUME NEW i \in Steps, NEW j \in Steps, i < j, step'[j] # "pending"
               PROVE  step'[i] # "pending"
    OBVIOUS
  <2>1. CASE j = n
    BY <1>1, <1>4, <2>1 DEF Loaded
  <2>2. CASE j # n
    BY <1>3, <1>4, <2>2 DEF ReportInv, DecidedInOrder
  <2> QED
    BY <2>1, <2>2
<1>6. \A e \in Desk : call'[e] = NoCall \/ Loaded(e)'
  BY <1>2, <1>3, <1>4 DEF ReportInv, Loaded
<1> QED
  BY <1>2, <1>3, <1>5, <1>6

\* What a call that is not stale knows when it decides.
LEMMA FreshDecision ==
  ASSUME ReportInv, NEW d \in Desk, call[d].pc = "ready", ~ (raced \/ Stale(d))
  PROVE  /\ report = call[d].seen /\ report.status = "approval_pending"
         /\ said = {} /\ report.current \in Steps /\ step[report.current] = "pending"
         /\ \A i \in Steps : i < report.current => step[i] = "approved"
<1>1. call[d].seen.status = "approval_pending" /\ call[d].what # "submit"
  BY Under DEF NoCall, Loaded
<1>2. ~ raced /\ report = call[d].seen /\ step[call[d].seen.current] = "pending"
  BY <1>1 DEF Stale
<1>3. SomebodyMayDecide /\ OutcomeFitsSteps /\ said \subseteq Settled
  BY DEF ReportInv, ReportTypeOK
<1>4. said = {}
  BY <1>1, <1>2, <1>3 DEF OutcomeFitsSteps, Settled
<1> QED
  BY <1>1, <1>2, <1>3, <1>4 DEF SomebodyMayDecide

\* approve
LEMMA ApprovePreserves ==
  ASSUME ReportInv, NEW d \in Desk, Approve(d)
  PROVE  ReportInv'
<1> DEFINE n == call[d].seen.current
           last == n >= Len(line)
<1>1. /\ call[d].pc = "ready" /\ UNCHANGED line
      /\ step' = [step EXCEPT ![n] = "approved"]
      /\ report' = IF last THEN [report EXCEPT !.status = "fully_approved"]
                           ELSE [report EXCEPT !.current = n + 1]
      /\ call' = [call EXCEPT ![d] = NoCall]
      /\ raced' = (raced \/ Stale(d))
      /\ said' \in {said, said \cup ({IF last THEN "fully_approved" ELSE "stage_approved"}
                                    \cap Settled)}
  BY DEF Approve, Commits
<1>2. /\ Steps' = Steps
      /\ step' \in [DOMAIN line -> StepStatus]
      /\ step'[n] = "approved"
      /\ \A i \in Steps : i # n => step'[i] = step[i]
      /\ \A i, j \in Steps : i < j /\ step'[j] # "pending" => step'[i] # "pending"
      /\ call' \in [Desk -> DeskState \cup {NoCall}]
      /\ \A e \in Desk : call'[e] = NoCall \/ Loaded(e)'
  BY <1>1, DecisionKeepsOrder
<1>3. /\ report \in ReportState /\ report.status # "none" /\ report.current \in Steps
      /\ n \in Steps /\ Len(line) \in Nat /\ Steps = 1..Len(line)
      /\ \A i \in Steps : i < n => step[i] # "pending"
      /\ said \subseteq Settled /\ raced \in BOOLEAN
  BY <1>1, Under, StepNumbers DEF NoCall, Loaded, ReportInv, ReportTypeOK
<1>4. /\ last => report'.status = "fully_approved" /\ report'.current = report.current
      /\ ~ last => report'.status = report.status /\ report'.current = n + 1
      /\ report' \in ReportState
  BY <1>1, <1>3 DEF ReportState, Settled
<1>5. last => said' \subseteq said \cup {"fully_approved"}
  BY <1>1
<1>6. ~ last => said' = said
  BY <1>1 DEF Settled
<1> HIDE DEF last
<1>7. ReportTypeOK'
  <2>1. said' \subseteq Settled
    BY <1>3, <1>5, <1>6 DEF Settled
  <2>2. raced' \in BOOLEAN
    BY <1>1, <1>3 DEF Stale
  <2> QED
    BY <1>1, <1>2, <1>4, <2>1, <2>2 DEF ReportInv, ReportTypeOK
<1>8. report'.current \in Steps
  BY <1>3, <1>4 DEF last
<1>9. \A i \in Steps : step[i] # "pending" => step'[i] # "pending"
  BY <1>2
<1>10. DecidedInOrder'
  <2>1. ASSUME NEW i \in Steps, i < report'.current PROVE step'[i] # "pending"
    <3>1. CASE last
      BY <1>4, <1>9, <2>1, <3>1 DEF ReportInv, DecidedInOrder, PreviousReviewers
    <3>2. CASE ~ last
      BY <1>2, <1>3, <1>4, <1>9, <2>1, <3>2
    <3> QED
      BY <3>1, <3>2
  <2>2. ASSUME report'.status = "fully_approved", NEW i \in Steps PROVE step'[i] # "pending"
    <3>1. CASE last
      BY <1>2, <1>3, <1>9, <3>1 DEF last
    <3>2. CASE ~ last
      BY <1>4, <1>9, <2>2, <3>2 DEF ReportInv, DecidedInOrder
    <3> QED
      BY <3>1, <3>2
  <2> QED
    BY <1>2, <2>1, <2>2 DEF DecidedInOrder, PreviousReviewers
<1>11. ASSUME ~ raced'
       PROVE  /\ n = report.current /\ report.status = "approval_pending" /\ said = {}
              /\ step[n] = "pending"
              /\ \A i \in Steps : i <= n => step'[i] = "approved"
              /\ \A i \in Steps : i > n => step'[i] = "pending"
  <2>1. /\ n = report.current /\ report.status = "approval_pending" /\ said = {}
        /\ step[n] = "pending"
        /\ \A i \in Steps : i < n => step[i] = "approved"
    BY <1>1, <1>11, FreshDecision
  <2>2. \A i \in Steps : i > n => step[i] = "pending"
    BY <1>3, <2>1 DEF ReportInv, DecidedInOrder
  <2> QED
    BY <1>2, <1>3, <2>1, <2>2
<1>12. SomebodyMayDecide'
  <2> SUFFICES ASSUME ~ raced', report'.status = "approval_pending"
               PROVE  /\ step'[report'.current] = "pending"
                      /\ \A i \in Steps : i < report'.current => step'[i] = "approved"
    BY <1>1, <1>2, <1>8 DEF SomebodyMayDecide, Inbox
  <2>1. ~ last /\ report'.current = n + 1
    BY <1>4
  <2> QED
    BY <1>3, <1>8, <1>11, <2>1
<1>13. OutcomeFitsSteps'
  <2> SUFFICES ASSUME ~ raced'
               PROVE  /\ report'.status = "fully_approved" =>
                           \A i \in Steps : step'[i] = "approved"
                      /\ report'.status # "returned"
                      /\ \A outcome \in said' : report'.status = outcome
    BY <1>2 DEF OutcomeFitsSteps
  <2>1. CASE last
    BY <1>3, <1>4, <1>5, <1>11, <2>1 DEF last
  <2>2. CASE ~ last
    BY <1>4, <1>6, <1>11, <2>2
  <2> QED
    BY <2>1, <2>2
<1>14. report'.status = "draft" => raced'
  BY <1>4, <1>11
<1> QED
  BY <1>2, <1>3, <1>4, <1>7, <1>8, <1>10, <1>12, <1>13, <1>14 DEF ReportInv

\* reject
LEMMA RejectPreserves ==
  ASSUME ReportInv, NEW d \in Desk, Reject(d)
  PROVE  ReportInv'
<1> DEFINE n == call[d].seen.current
<1>1. /\ call[d].pc = "ready" /\ UNCHANGED line
      /\ step' = [step EXCEPT ![n] = "rejected"]
      /\ report' = [report EXCEPT !.status = "returned"]
      /\ call' = [call EXCEPT ![d] = NoCall]
      /\ raced' = (raced \/ Stale(d))
      /\ said' \in {said, said \cup ({"returned"} \cap Settled)}
  BY DEF Reject, Commits
<1>2. /\ Steps' = Steps
      /\ step' \in [DOMAIN line -> StepStatus]
      /\ step'[n] = "rejected"
      /\ \A i \in Steps : i # n => step'[i] = step[i]
      /\ \A i, j \in Steps : i < j /\ step'[j] # "pending" => step'[i] # "pending"
      /\ call' \in [Desk -> DeskState \cup {NoCall}]
      /\ \A e \in Desk : call'[e] = NoCall \/ Loaded(e)'
  BY <1>1, DecisionKeepsOrder
<1>3. /\ report \in ReportState /\ report.current \in Steps /\ n \in Steps
      /\ said \subseteq Settled /\ raced \in BOOLEAN
  BY <1>1, Under DEF NoCall, Loaded, ReportInv, ReportTypeOK
<1>4. report' \in ReportState /\ report'.status = "returned" /\ report'.current = report.current
  BY <1>1, <1>3 DEF ReportState, Settled
<1>5. ReportTypeOK'
  <2>1. said' \subseteq Settled
    BY <1>1, <1>3
  <2>2. raced' \in BOOLEAN
    BY <1>1, <1>3 DEF Stale
  <2> QED
    BY <1>1, <1>2, <1>4, <2>1, <2>2 DEF ReportInv, ReportTypeOK
<1>6. DecidedInOrder'
  BY <1>2, <1>4 DEF ReportInv, DecidedInOrder, PreviousReviewers
<1>7. SomebodyMayDecide'
  BY <1>4 DEF SomebodyMayDecide
<1>8. OutcomeFitsSteps'
  <2> SUFFICES ASSUME ~ raced' PROVE RejectReasons' # {} /\ said' \subseteq {"returned"}
    BY <1>4 DEF OutcomeFitsSteps
  <2>1. said = {}
    BY <1>1, FreshDecision
  <2> QED
    BY <1>1, <1>2, <1>3, <2>1 DEF RejectReasons
<1> QED
  BY <1>2, <1>3, <1>4, <1>5, <1>6, <1>7, <1>8 DEF ReportInv

\* No call, however stale what it loaded, breaks the invariant.
THEOREM ReportInvariant == ReportSpec => []ReportInv
<1>1. ReportInv /\ [ReportNext]_reportVars => ReportInv'
  <2> SUFFICES ASSUME ReportInv, [ReportNext]_reportVars PROVE ReportInv'
    OBVIOUS
  <2>1. CASE UNCHANGED reportVars
    BY <2>1 DEF reportVars, ReportInv, ReportTypeOK, DecidedInOrder, PreviousReviewers,
       SomebodyMayDecide, Inbox, OutcomeFitsSteps, RejectReasons, Loaded, Steps
  <2>2. CASE ReportNext
    BY <2>2, CreatePreserves, LoadPreserves, SubmitPreserves, ApprovePreserves,
       RejectPreserves DEF ReportNext
  <2> QED
    BY <2>1, <2>2
<1> QED
  BY InitReport, <1>1, PTL DEF ReportSpec

\* The line is decided in its order, whatever overlaps.
THEOREM LineInOrder == ReportSpec => []DecidedInOrder
<1>1. ReportInv => DecidedInOrder
  BY DEF ReportInv
<1> QED
  BY <1>1, ReportInvariant, PTL

\* Without a stale write a report under approval is in the inbox of the approver
\* of its current step.
THEOREM NotStuck == ReportSpec => []SomebodyMayDecide
<1>1. ReportInv => SomebodyMayDecide
  BY DEF ReportInv
<1> QED
  BY <1>1, ReportInvariant, PTL

\* Without a stale write the outcome is what the steps say.
THEOREM OutcomeIsEarned == ReportSpec => []OutcomeFitsSteps
<1>1. ReportInv => OutcomeFitsSteps
  BY DEF ReportInv
<1> QED
  BY <1>1, ReportInvariant, PTL

\* Only a stale write changes a settled report.
THEOREM SettledForGood == ReportSpec => SettledStays
<1> DEFINE A == report.status \in Settled /\ ~ raced' => report' = report /\ step' = step
<1>1. ReportInv /\ [ReportNext]_reportVars => [A]_reportVars
  <2> SUFFICES ASSUME ReportInv, ReportNext, report.status \in Settled, ~ raced'
               PROVE  report' = report /\ step' = step
    OBVIOUS
  <2>1. ~ Create
    BY DEF Create, Settled
  <2>2. PICK d \in Desk : LoadsReport(d) \/ LoadsStep(d) \/ Submit(d) \/ Approve(d) \/ Reject(d)
    BY <2>1 DEF ReportNext
  <2>3. CASE LoadsReport(d) \/ LoadsStep(d)
    BY <2>3 DEF LoadsReport, LoadsStep
  <2>4. CASE Submit(d)
    <3>1. call[d].seen.status # "draft"
      BY <2>4 DEF Submit, Commits, Stale, Settled
    <3> QED
      BY <2>4, <3>1 DEF Submit
  <2>5. CASE Approve(d) \/ Reject(d)
    <3>1. call[d].pc = "ready" /\ ~ (raced \/ Stale(d))
      BY <2>5 DEF Approve, Reject, Commits
    <3> QED
      BY <3>1, FreshDecision DEF Settled
  <2> QED
    BY <2>2, <2>3, <2>4, <2>5
<1> QED
  BY <1>1, ReportInvariant, PTL DEF ReportSpec, SettledStays
=============================================================================
