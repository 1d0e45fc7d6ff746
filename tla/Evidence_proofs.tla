--------------------------- MODULE Evidence_proofs ---------------------------
(***************************************************************************)
(* The inductive invariants of the two modules that turn evidence into     *)
(* rows: the documents that are parsed, and the judgments of the           *)
(* compliance node.                                                        *)
(*                                                                         *)
(* DocumentIngest, for any number of PATCH calls, web workers, documents,  *)
(* tries and faults.  A document is parsed once because its claim is open  *)
(* exactly while a worker holds it: a death either takes the claim back    *)
(* with the transaction, or finds it committed with the row.               *)
(*                                                                         *)
(* Compliance, for any lists of regulations, any answers of the language   *)
(* model and any number of starts of the node, of the script and of        *)
(* replaced declarations.  A running node has rows for what it has judged  *)
(* of one list; what is stored of an earlier start is all of its list.     *)
(***************************************************************************)
EXTENDS DocumentIngest, Compliance, TLAPS

-----------------------------------------------------------------------------
(* DocumentIngest *)

\* Extraction rows are short sequences of flags.
LEMMA RowsGrow ==
  ASSUME NEW s \in Seq(BOOLEAN)
  PROVE  /\ Append(s, FALSE) \in Seq(BOOLEAN)
         /\ Len(Append(s, FALSE)) = Len(s) + 1
         /\ Append(s, FALSE) # <<>>
         /\ Len(s) \in Nat
         /\ s = <<>> => Len(s) = 0
<1>1. /\ Append(s, FALSE) \in Seq(BOOLEAN)
      /\ Len(Append(s, FALSE)) = Len(s) + 1
      /\ Len(s) \in Nat
      /\ Len(<<>>) = 0
  OBVIOUS
<1>2. Append(s, FALSE) # <<>>
  <2> SUFFICES ASSUME Append(s, FALSE) = <<>> PROVE FALSE
    OBVIOUS
  <2>1. Len(s) + 1 = 0
    BY <1>1
  <2> QED
    BY <1>1, <2>1
<1> QED
  BY <1>1, <1>2

LEMMA InitDocument == Init => DocumentInv
<1> SUFFICES ASSUME Init PROVE DocumentInv
  OBVIOUS
<1>1. <<>> \in Seq(BOOLEAN)
  OBVIOUS
<1>2. TypeOK
  <2>1. tries \in [Document -> 0..MaxTries] /\ faults \in 0..MaxFaults
    BY TriesAssumption DEF Init
  <2> QED
    BY <1>1, <2>1
    DEF Init, TypeOK, PatchPoint, HandlerPoint, JobState, WorkerPoint, ClaimState
<1> QED
  BY <1>2 DEF Init, DocumentInv, IngestFollowsCommit, ParsedOnce, ClaimIsHeld, JobsAreStored

\* update_supplier_detail
LEMMA PatchPreserves ==
  ASSUME DocumentInv, NEW p \in Patch, PatchReads(p) \/ PatchStep(p) \/ PatchDies(p)
  PROVE  DocumentInv'
<1> USE DEF DocumentInv
<1>1. CASE PatchReads(p)
  BY <1>1 DEF PatchReads, ingest, queue, parse, TypeOK, PatchPoint,
     IngestFollowsCommit, ParsedOnce, ClaimIsHeld, JobsAreStored
<1>2. CASE PatchCommits(p)
  BY <1>2 DEF PatchCommits, ingest, queue, parse, TypeOK, PatchPoint,
     IngestFollowsCommit, ParsedOnce, ClaimIsHeld, JobsAreStored
<1>3. CASE PatchPublishes(p)
  <2>1. url
    BY <1>3 DEF PatchPublishes, IngestFollowsCommit
  <2>11. TypeOK'
    BY <1>3, <2>1 DEF PatchPublishes, queue, parse, TypeOK, PatchPoint, HandlerPoint
  <2>12. IngestFollowsCommit'
    BY <1>3, <2>1 DEF PatchPublishes, queue, parse, TypeOK, IngestFollowsCommit
  <2>13. ParsedOnce'
    BY <1>3, <2>1 DEF PatchPublishes, queue, parse, TypeOK, ParsedOnce, ClaimIsHeld, JobsAreStored
  <2>14. ClaimIsHeld'
    BY <1>3, <2>1 DEF PatchPublishes, queue, parse, TypeOK, ClaimIsHeld, JobsAreStored
  <2>15. JobsAreStored'
    BY <1>3, <2>1 DEF PatchPublishes, queue, parse, TypeOK, JobsAreStored, ClaimIsHeld
  <2> QED
    BY <2>11, <2>12, <2>13, <2>14, <2>15
<1>4. CASE PatchDies(p)
  <2>1. faults' \in 0..MaxFaults
    BY <1>4, TriesAssumption DEF PatchDies, TypeOK
  <2>2. TypeOK'
    BY <1>4, <2>1 DEF PatchDies, ingest, queue, parse, TypeOK, PatchPoint
  <2> QED
    BY <1>4, <2>2 DEF PatchDies, ingest, queue, parse, TypeOK,
       IngestFollowsCommit, ParsedOnce, ClaimIsHeld, JobsAreStored
<1> QED
  BY <1>1, <1>2, <1>3, <1>4 DEF PatchStep

\* on_supplier_document_uploaded
LEMMA HandlerPreserves ==
  ASSUME DocumentInv, NEW x \in Patch \X Web, HandlerStep(x) \/ HandlerDies(x)
  PROVE  DocumentInv'
<1> USE DEF DocumentInv
<1>1. CASE HandlerLooks(x)
  BY <1>1 DEF HandlerLooks, upload, queue, parse, TypeOK, HandlerPoint,
     IngestFollowsCommit, ParsedOnce, ClaimIsHeld, JobsAreStored
<1>2. CASE HandlerStores(x)
  <2>11. TypeOK'
    BY <1>2 DEF HandlerStores, upload, queue, parse, TypeOK, HandlerPoint
  <2>12. IngestFollowsCommit'
    BY <1>2 DEF HandlerStores, upload, queue, parse, TypeOK, IngestFollowsCommit
  <2>13. ParsedOnce'
    BY <1>2 DEF HandlerStores, upload, queue, parse, TypeOK, ParsedOnce, ClaimIsHeld, JobsAreStored
  <2>14. ClaimIsHeld'
    BY <1>2 DEF HandlerStores, upload, queue, parse, TypeOK, ClaimIsHeld, JobsAreStored
  <2>15. JobsAreStored'
    BY <1>2 DEF HandlerStores, upload, queue, parse, TypeOK, JobsAreStored, ClaimIsHeld
  <2> QED
    BY <2>11, <2>12, <2>13, <2>14, <2>15
<1>3. CASE HandlerEnqueues(x)
  <2>1. stored[x] \in docs
    BY <1>3 DEF HandlerEnqueues, JobsAreStored
  <2>0. stored[x] \in Document
    BY <2>1 DEF TypeOK
  <2>11. TypeOK'
    <3>1. tries' \in [Document -> 0..MaxTries]
      <4>1. 0 \in 0..MaxTries
        BY TriesAssumption
      <4>2. tries' = tries \/ tries' = [tries EXCEPT ![stored[x]] = 0]
        BY <1>3 DEF HandlerEnqueues, Enqueue, queue
      <4> QED
        BY <2>0, <4>1, <4>2 DEF TypeOK
    <3>2. job' \in [Document -> JobState]
      BY <1>3 DEF HandlerEnqueues, Enqueue, queue, TypeOK, JobState
    <3>3. handler' \in [Patch \X Web -> HandlerPoint]
      BY <1>3 DEF HandlerEnqueues, TypeOK, HandlerPoint
    <3> QED
      BY <1>3, <3>1, <3>2, <3>3 DEF HandlerEnqueues, upload, parse, TypeOK
  <2>12. IngestFollowsCommit'
    BY <1>3, <2>1, TriesAssumption DEF HandlerEnqueues, Enqueue, upload, queue, parse, TypeOK, IngestFollowsCommit
  <2>13. ParsedOnce'
    BY <1>3, <2>1, TriesAssumption DEF HandlerEnqueues, Enqueue, upload, queue, parse, TypeOK, ParsedOnce, ClaimIsHeld, JobsAreStored
  <2>2. \A e \in Document :
          \/ job'[e] = job[e] /\ tries'[e] = tries[e]
          \/ job[e] = "none" /\ job'[e] = "queued" /\ tries'[e] = 0
    BY <1>3, <2>0 DEF HandlerEnqueues, Enqueue, queue, TypeOK
  <2>14. ClaimIsHeld'
    <3>1. 0 < MaxTries
      BY TriesAssumption
    <3> QED
      BY <1>3, <2>2, <3>1 DEF HandlerEnqueues, parse, ClaimIsHeld
  <2>15. JobsAreStored'
    BY <1>3, <2>1, TriesAssumption DEF HandlerEnqueues, Enqueue, upload, queue, parse, TypeOK, JobsAreStored, ClaimIsHeld
  <2> QED
    BY <2>11, <2>12, <2>13, <2>14, <2>15
<1>4. CASE HandlerDies(x)
  <2>1. faults' \in 0..MaxFaults
    BY <1>4, TriesAssumption DEF HandlerDies, TypeOK
  <2>2. TypeOK'
    BY <1>4, <2>1 DEF HandlerDies, upload, queue, parse, TypeOK, HandlerPoint
  <2> QED
    BY <1>4, <2>2 DEF HandlerDies, upload, queue, parse, TypeOK,
       IngestFollowsCommit, ParsedOnce, ClaimIsHeld, JobsAreStored
<1> QED
  BY <1>1, <1>2, <1>3, <1>4 DEF HandlerStep

\* process_document_parse and what ARQ does with its job
LEMMA ParsePreserves ==
  ASSUME DocumentInv, NEW d \in Document, ParseStep(d) \/ WorkerRaises(d) \/ WorkerDies(d)
  PROVE  DocumentInv'
<1> USE DEF DocumentInv
<1>0. rows[d] \in Seq(BOOLEAN)
  BY DEF TypeOK
<1>1. CASE JobStarts(d)
  <2>11. TypeOK'
    <3>1. tries' \in [Document -> 0..MaxTries]
      BY <1>1, TriesAssumption DEF JobStarts, TypeOK
    <3>2. job' \in [Document -> JobState]
      <4>1. \/ job' = [job EXCEPT ![d] = "running"]
            \/ job' = [job EXCEPT ![d] = "done"]
        BY <1>1 DEF JobStarts
      <4> QED
        BY <4>1 DEF TypeOK, JobState
    <3>3. /\ claim' \in [Document -> ClaimState]
          /\ worker' \in [Document -> WorkerPoint]
      BY <1>1 DEF JobStarts, parse, TypeOK, ClaimState, WorkerPoint
    <3> QED
      BY <1>1, <3>1, <3>2, <3>3 DEF JobStarts, upload, ingest, TypeOK
  <2>12. IngestFollowsCommit'
    BY <1>1, TriesAssumption DEF JobStarts, upload, ingest, parse, TypeOK, IngestFollowsCommit
  <2>13. ParsedOnce'
    BY <1>1, TriesAssumption DEF JobStarts, upload, ingest, parse, TypeOK, ParsedOnce, ClaimIsHeld, JobsAreStored
  <2>14. ClaimIsHeld'
    BY <1>1, TriesAssumption DEF JobStarts, upload, ingest, parse, TypeOK, ClaimIsHeld, JobsAreStored
  <2>15. JobsAreStored'
    BY <1>1, TriesAssumption DEF JobStarts, upload, ingest, parse, TypeOK, JobsAreStored, ClaimIsHeld
  <2> QED
    BY <2>11, <2>12, <2>13, <2>14, <2>15
<1>2. CASE ParseCommits(d)
  <2>1. /\ rows' \in [Document -> Seq(BOOLEAN)]
        /\ Len(rows'[d]) = Len(rows[d]) + 1
        /\ rows'[d] # <<>>
        /\ \A e \in Document \ {d} : rows'[e] = rows[e]
        /\ rows[d] = <<>> => Len(rows[d]) = 0
    BY <1>0, <1>2, RowsGrow DEF ParseCommits, TypeOK
  <2>11. TypeOK'
    BY <1>2, <2>1 DEF ParseCommits, upload, ingest, queue, TypeOK, WorkerPoint, ClaimState
  <2>12. IngestFollowsCommit'
    BY <1>2, <2>1 DEF ParseCommits, upload, ingest, queue, TypeOK, IngestFollowsCommit
  <2>13. ParsedOnce'
    BY <1>2, <2>1 DEF ParseCommits, upload, ingest, queue, TypeOK, ParsedOnce, ClaimIsHeld, JobsAreStored
  <2>14. ClaimIsHeld'
    BY <1>2, <2>1 DEF ParseCommits, upload, ingest, queue, TypeOK, ClaimIsHeld, JobsAreStored
  <2>15. JobsAreStored'
    BY <1>2, <2>1 DEF ParseCommits, upload, ingest, queue, TypeOK, JobsAreStored, ClaimIsHeld
  <2> QED
    BY <2>11, <2>12, <2>13, <2>14, <2>15
<1>3. CASE ParseFlags(d)
  <2>11. TypeOK'
    BY <1>3 DEF ParseFlags, upload, ingest, queue, TypeOK, WorkerPoint
  <2>12. IngestFollowsCommit'
    BY <1>3 DEF ParseFlags, upload, ingest, queue, TypeOK, IngestFollowsCommit
  <2>13. ParsedOnce'
    BY <1>3 DEF ParseFlags, upload, ingest, queue, TypeOK, ParsedOnce, ClaimIsHeld, JobsAreStored
  <2>14. ClaimIsHeld'
    BY <1>3 DEF ParseFlags, upload, ingest, queue, TypeOK, ClaimIsHeld, JobsAreStored
  <2>15. JobsAreStored'
    BY <1>3 DEF ParseFlags, upload, ingest, queue, TypeOK, JobsAreStored, ClaimIsHeld
  <2> QED
    BY <2>11, <2>12, <2>13, <2>14, <2>15
<1>4. CASE WorkerRecords(d)
  <2>1. /\ rows' \in [Document -> Seq(BOOLEAN)]
        /\ Len(rows'[d]) = Len(rows[d]) + 1
        /\ rows'[d] # <<>>
        /\ \A e \in Document \ {d} : rows'[e] = rows[e]
        /\ rows[d] = <<>> => Len(rows[d]) = 0
    BY <1>0, <1>4, RowsGrow DEF WorkerRecords, TypeOK
  <2>11. TypeOK'
    BY <1>4, <2>1 DEF WorkerRecords, upload, ingest, TypeOK, JobState, WorkerPoint, ClaimState
  <2>12. IngestFollowsCommit'
    BY <1>4, <2>1 DEF WorkerRecords, upload, ingest, TypeOK, IngestFollowsCommit
  <2>2. Len(rows[d]) \in {0, 1}
    BY <1>0, <1>4, RowsGrow DEF WorkerRecords, ParsedOnce, ClaimIsHeld
  <2>3. /\ claim'[d] = "done"
        /\ \A e \in Document \ {d} : claim'[e] = claim[e]
    BY <1>4 DEF WorkerRecords, TypeOK
  <2>4. Len(rows'[d]) \in {1, 2}
    <3>1. CASE Len(rows[d]) = 0
      BY <2>1, <3>1
    <3>2. CASE Len(rows[d]) = 1
      BY <2>1, <3>2
    <3> QED
      BY <2>2, <3>1, <3>2
  <2>13. ParsedOnce'
    BY <2>1, <2>3, <2>4 DEF ParsedOnce
  <2>14. ClaimIsHeld'
    BY <1>4, <2>1 DEF WorkerRecords, upload, ingest, TypeOK, ClaimIsHeld, JobsAreStored
  <2>15. JobsAreStored'
    BY <1>4, <2>1 DEF WorkerRecords, upload, ingest, TypeOK, JobsAreStored, ClaimIsHeld
  <2> QED
    BY <2>11, <2>12, <2>13, <2>14, <2>15
<1>5. CASE WorkerRaises(d)
  <2>11. TypeOK'
    <3>1. faults' \in 0..MaxFaults
      BY <1>5, TriesAssumption DEF WorkerRaises, TypeOK
    <3>2. claim' \in [Document -> ClaimState]
      BY <1>5 DEF WorkerRaises, RolledBack, TypeOK, ClaimState
    <3>3. /\ job' \in [Document -> JobState]
          /\ worker' \in [Document -> WorkerPoint]
      BY <1>5 DEF WorkerRaises, TypeOK, JobState, WorkerPoint
    <3> QED
      BY <1>5, <3>1, <3>2, <3>3 DEF WorkerRaises, upload, ingest, TypeOK
  <2>12. IngestFollowsCommit'
    BY <1>5 DEF WorkerRaises, RolledBack, upload, ingest, TypeOK, IngestFollowsCommit
  <2>13. ParsedOnce'
    BY <1>5 DEF WorkerRaises, RolledBack, upload, ingest, TypeOK, ParsedOnce, ClaimIsHeld, JobsAreStored
  <2>14. ClaimIsHeld'
    BY <1>5 DEF WorkerRaises, RolledBack, upload, ingest, TypeOK, ClaimIsHeld, JobsAreStored
  <2>15. JobsAreStored'
    BY <1>5 DEF WorkerRaises, RolledBack, upload, ingest, TypeOK, JobsAreStored, ClaimIsHeld
  <2> QED
    BY <2>11, <2>12, <2>13, <2>14, <2>15
<1>6. CASE WorkerDies(d)
  <2>11. TypeOK'
    <3>1. faults' \in 0..MaxFaults
      BY <1>6, TriesAssumption DEF WorkerDies, TypeOK
    <3>2. claim' \in [Document -> ClaimState]
      BY <1>6 DEF WorkerDies, RolledBack, TypeOK, ClaimState
    <3>3. /\ job' \in [Document -> JobState]
          /\ worker' \in [Document -> WorkerPoint]
      BY <1>6 DEF WorkerDies, TypeOK, JobState, WorkerPoint
    <3> QED
      BY <1>6, <3>1, <3>2, <3>3 DEF WorkerDies, upload, ingest, TypeOK
  <2>12. IngestFollowsCommit'
    BY <1>6 DEF WorkerDies, RolledBack, upload, ingest, TypeOK, IngestFollowsCommit
  <2>13. ParsedOnce'
    BY <1>6 DEF WorkerDies, RolledBack, upload, ingest, TypeOK, ParsedOnce, ClaimIsHeld, JobsAreStored
  <2>14. ClaimIsHeld'
    BY <1>6 DEF WorkerDies, RolledBack, upload, ingest, TypeOK, ClaimIsHeld, JobsAreStored
  <2>15. JobsAreStored'
    BY <1>6 DEF WorkerDies, RolledBack, upload, ingest, TypeOK, JobsAreStored, ClaimIsHeld
  <2> QED
    BY <2>11, <2>12, <2>13, <2>14, <2>15
<1> QED
  BY <1>1, <1>2, <1>3, <1>4, <1>5, <1>6 DEF ParseStep

\* A parse asked for by hand, a result that is forgotten, a confirmation.
LEMMA OtherPreserves ==
  ASSUME DocumentInv, NEW d \in Document, ParseRequested(d) \/ ResultExpires(d) \/ Confirm(d)
  PROVE  DocumentInv'
<1> USE DEF DocumentInv
<1>1. CASE ParseRequested(d)
  <2>1. /\ job' = [job EXCEPT ![d] = "queued"]
        /\ tries' = [tries EXCEPT ![d] = 0]
        /\ UNCHANGED <<url, patch, handler, stored, docs, worker, claim, rows, faults>>
        /\ d \in docs /\ job[d] = "none"
    BY <1>1 DEF ParseRequested, Enqueue, upload, ingest, parse
  <2>2. TypeOK'
    <3>1. tries' \in [Document -> 0..MaxTries]
      BY <2>1, TriesAssumption DEF TypeOK
    <3>2. job' \in [Document -> JobState]
      BY <2>1 DEF TypeOK, JobState
    <3> QED
      BY <2>1, <3>1, <3>2 DEF TypeOK
  <2>3. ClaimIsHeld'
    <3>1. 0 < MaxTries
      BY TriesAssumption
    <3> QED
      BY <2>1, <3>1 DEF TypeOK, ClaimIsHeld
  <2> QED
    BY <2>1, <2>2, <2>3 DEF TypeOK, IngestFollowsCommit, ParsedOnce, JobsAreStored
<1>2. CASE ResultExpires(d)
  BY <1>2 DEF ResultExpires, upload, ingest, parse, TypeOK, JobState,
     IngestFollowsCommit, ParsedOnce, ClaimIsHeld, JobsAreStored
<1>3. CASE Confirm(d)
  <2>1. /\ rows[d] \in Seq(BOOLEAN)
        /\ rows'[d] \in Seq(BOOLEAN)
        /\ Len(rows'[d]) = Len(rows[d])
        /\ rows[d] # <<>>
        /\ rows' \in [Document -> Seq(BOOLEAN)]
        /\ \A e \in Document \ {d} : rows'[e] = rows[e]
    BY <1>3 DEF Confirm, TypeOK
  <2> QED
    BY <1>3, <2>1 DEF Confirm, upload, ingest, queue, parse, TypeOK,
       IngestFollowsCommit, ParsedOnce, ClaimIsHeld, JobsAreStored
<1> QED
  BY <1>1, <1>2, <1>3

\* However PATCH calls, deliveries and parse jobs interleave, die, raise and are
\* started again (process_document_parse, claim_job): every document is parsed
\* at most once, and no claim is left over that blocks one nobody has parsed.
THEOREM DocumentInvariant == Spec => []DocumentInv
<1>1. DocumentInv /\ [Next]_vars => DocumentInv'
  <2> SUFFICES ASSUME DocumentInv, [Next]_vars PROVE DocumentInv'
    OBVIOUS
  <2>1. CASE UNCHANGED vars
    BY <2>1 DEF vars, DocumentInv, TypeOK, IngestFollowsCommit, ParsedOnce,
       ClaimIsHeld, JobsAreStored
  <2> QED
    BY <2>1, PatchPreserves, HandlerPreserves, ParsePreserves, OtherPreserves DEF Next
<1> QED
  BY <1>1, InitDocument, PTL DEF Spec

\* A document's rows are those of one call of the worker (claim_job).
THEOREM DocumentParsedOnce == Spec => []ParsedOnce
<1>1. DocumentInv => ParsedOnce
  BY DEF DocumentInv
<1> QED
  BY <1>1, DocumentInvariant, PTL

-----------------------------------------------------------------------------
(* Compliance: lists and codes *)

\* Every list of a destination is made of known codes.
LEMMA ListsAreOfCodes ==
  ASSUME NEW dest \in Destination
  PROVE  /\ Judged[dest] \in Seq(Code)
         /\ Range(Judged[dest]) \subseteq Code
         /\ NoneTwice(Judged[dest])
<1>1. dest \in {"EU", "US", "KR", "BOTH"}
  BY JudgedAssumption DEF RegulationsOf
<1>2. Range(RegulationsOf[dest]) \subseteq Code
  BY <1>1 DEF RegulationsOf, Code, Range
<1>3. Judged[dest] \in Seq(Range(RegulationsOf[dest]))
  BY JudgedAssumption
<1> QED
  BY <1>2, <1>3, JudgedAssumption DEF Range

\* What is no stub has clauses to be judged over, and a judge of its own.
LEMMA JudgesOfCodes ==
  ASSUME NEW c \in Code
  PROVE  /\ c \notin Stubs => c \in Seeded
         /\ c \notin Stubs => Judge(c) \in {"uflpa", "recycled", "carbon", "generic"}
         /\ c \in Stubs => Judge(c) = "stub"
BY DEF Code, Range, RegulationsOf, Stubs, Seeded, Judge

\* Without its head a list that names nothing twice names all else, once.
LEMMA RestOfList ==
  ASSUME NEW list \in Seq(Code), list # <<>>, NoneTwice(list)
  PROVE  /\ Head(list) \in Code /\ Head(list) \in Range(list)
         /\ Tail(list) \in Seq(Code) /\ NoneTwice(Tail(list))
         /\ Range(Tail(list)) = Range(list) \ {Head(list)}
<1>1. Len(list) \in Nat /\ Len(list) > 0 /\ DOMAIN list = 1..Len(list)
  OBVIOUS
<1>2. /\ Tail(list) \in Seq(Code) /\ Head(list) = list[1]
      /\ DOMAIN Tail(list) = 1..(Len(list) - 1)
      /\ \A i \in 1..(Len(list) - 1) : Tail(list)[i] = list[i + 1]
  BY <1>1
<1>3. NoneTwice(Tail(list))
  BY <1>1, <1>2 DEF NoneTwice
<1>4. Range(Tail(list)) = Range(list) \ {Head(list)}
  <2>1. ASSUME NEW i \in DOMAIN Tail(list)
        PROVE  Tail(list)[i] \in Range(list) /\ Tail(list)[i] # Head(list)
    BY <1>1, <1>2 DEF NoneTwice, Range
  <2>2. ASSUME NEW i \in DOMAIN list, list[i] # Head(list)
        PROVE  list[i] \in Range(Tail(list))
    <3>1. i # 1 /\ i - 1 \in DOMAIN Tail(list) /\ Tail(list)[i - 1] = list[i]
      BY <1>1, <1>2, <2>2
    <3> QED
      BY <3>1 DEF Range
  <2> QED
    BY <2>1, <2>2 DEF Range
<1>5. Head(list) \in Code /\ Head(list) \in Range(list)
  BY <1>1, <1>2 DEF Range
<1> QED
  BY <1>2, <1>3, <1>4, <1>5

-----------------------------------------------------------------------------
(* The script *)

\* A node that is idle, or has just failed, is one.
LEMMA IdleFits ==
  Idle \in Node
<1>1. Rejected \in Result
  BY DEF Rejected, Result, Storable
<1>2. <<>> \in Seq(Code) /\ 0 \in 0..MaxRuns
  BY BoundAssumption
<1> QED
  BY <1>1, <1>2 DEF Idle, Node, NodePoint

\* Nothing is stored and nothing runs.
LEMMA InitResults == ComplianceInit => ResultsInv
<1> SUFFICES ASSUME ComplianceInit PROVE ResultsInv
  OBVIOUS
<1>1. Idle \in Node
  BY IdleFits
<1>2. ComplianceTypeOK
  BY <1>1 DEF ComplianceInit, ComplianceTypeOK
<1> QED
  BY <1>2 DEF ComplianceInit, Idle, ResultsInv, UncitedIsRejected, PartialIsFlagged, JudgeFits, RowsFit,
     NoneTwice, Running, ShelfFits

\* A step of the script leaves the desk, and clauses that are indexed.
LEMMA ScriptPreserves ==
  ASSUME ResultsInv,
         BootStarts \/ IndexRules \/ SeedClauses \/ IndexClauses \/ BootCrashes
  PROVE  ResultsInv'
<1>1. UNCHANGED <<declared, forms, node, results>>
  BY DEF BootStarts, IndexRules, SeedClauses, IndexClauses, BootCrashes, desk
<1> DEFINE Boot == [pc : {"off", "rules", "seed", "clauses", "up"}, raised : BOOLEAN, starts : Nat]
<1>2. /\ rules' \in {"pending", "indexed"} /\ clauses' \in {"absent", "pending", "indexed"}
      /\ boot' \in Boot /\ booted' \in BOOLEAN
      /\ boot'.pc = "clauses" /\ ~ boot'.raised => clauses' # "absent"
      /\ booted => booted'
      /\ booted' => clauses' = "indexed"
  <2> USE DEF ResultsInv, ComplianceTypeOK, ShelfFits
  <2>1. CASE BootStarts
    BY <2>1 DEF BootStarts
  <2>2. CASE IndexRules
    BY <2>2 DEF IndexRules
  <2>3. CASE SeedClauses
    BY <2>3 DEF SeedClauses
  <2>4. CASE IndexClauses
    <3>1. UNCHANGED rules /\ boot' \in Boot /\ boot'.pc = "up"
          /\ clauses' \in {"absent", "pending", "indexed"}
          /\ (clauses = "indexed" => clauses' = "indexed")
      BY <2>4 DEF IndexClauses
    <3>2. \/ UNCHANGED booted
          \/ booted' = (booted \/ ~ boot.raised) /\ (~ boot.raised => clauses' = "indexed")
      BY <2>4 DEF IndexClauses
    <3>3. booted' \in BOOLEAN /\ (booted => booted') /\ (booted' => clauses' = "indexed")
      <4>1. booted \in BOOLEAN /\ (booted => clauses' = "indexed")
        BY <3>1
      <4>2. CASE UNCHANGED booted
        BY <4>1, <4>2
      <4>3. CASE booted' = (booted \/ ~ boot.raised) /\ (~ boot.raised => clauses' = "indexed")
        <5>1. (booted' \in BOOLEAN) /\ (booted' <=> booted \/ ~ boot.raised)
          BY <4>3, Zenon
        <5> QED
          BY <4>1, <4>3, <5>1, Zenon
      <4> QED
        BY <3>2, <4>2, <4>3
    <3> QED
      BY <3>1, <3>3
  <2>5. CASE BootCrashes
    BY <2>5 DEF BootCrashes
  <2> QED
    BY <2>1, <2>2, <2>3, <2>4, <2>5
<1>3. ComplianceTypeOK'
  BY <1>1, <1>2 DEF ResultsInv, ComplianceTypeOK
<1>4. ShelfFits'
  BY <1>1, <1>2 DEF ResultsInv, ShelfFits, Current
<1> QED
  BY <1>1, <1>3, <1>4 DEF ResultsInv, UncitedIsRejected, PartialIsFlagged, JudgeFits, Current,
     RowsFit, Running, Judges

-----------------------------------------------------------------------------
(* The node's steps within one regulation *)

Working == {"next", "uflpa", "recycled", "carbon", "generic", "count", "ask", "insert"}

\* What is in a node has its type.
LEMMA NodeIsTyped ==
  ASSUME ResultsInv
  PROVE  /\ node \in Node
         /\ node.todo # <<>> => Current \in Code
BY RestOfList DEF ResultsInv, ComplianceTypeOK, RowsFit, Node, Current

\* A step that inserts nothing, and leaves the list, leaves all that is said of rows.
LEMMA RowsStay ==
  ASSUME ResultsInv, UNCHANGED shop,
         node.pc \in Working, node'.pc \in Working, node' \in Node,
         node'.todo = node.todo, node'.run = node.run, node'.ready = node.ready,
         node'.review = node.review, node'.rows = node.rows
  PROVE  ComplianceTypeOK' /\ UncitedIsRejected' /\ PartialIsFlagged' /\ RowsFit'
<1>1. UNCHANGED <<rules, clauses, boot, booted, declared, forms, results>>
  BY DEF shop, shelf
<1>2. ComplianceTypeOK'
  BY <1>1 DEF ResultsInv, ComplianceTypeOK
<1>3. UncitedIsRejected' /\ PartialIsFlagged'
  BY <1>1 DEF ResultsInv, UncitedIsRejected, PartialIsFlagged
<1>4. \A dest \in Destination : Judges(dest) => Judges(dest)'
  BY DEF Judges
<1>5. RowsFit'
  BY <1>1, <1>4 DEF ResultsInv, RowsFit, Working, Running
<1> QED
  BY <1>2, <1>3, <1>5

\* The search finds clauses once the script has done all its steps.
LEMMA SearchPreserves ==
  ASSUME ResultsInv, Search
  PROVE  ResultsInv'
<1>1. /\ node.pc = "next" /\ node.todo # <<>> /\ Current \notin Stubs
      /\ node' = [node EXCEPT !.pc = Judge(Current), !.found = Found(Current)]
      /\ UNCHANGED shop
  BY DEF Search
<1>2. Current \in Code /\ node \in Node
  BY <1>1, NodeIsTyped
<1>3. Judge(Current) \in {"uflpa", "recycled", "carbon", "generic"} /\ Current \in Seeded
  BY <1>1, <1>2, JudgesOfCodes
<1>4. Found(Current) \in {"clauses", "rule", "nothing"}
  BY DEF Found
<1>5. /\ node' \in Node /\ node'.pc = Judge(Current) /\ node'.found = Found(Current)
      /\ node'.todo = node.todo /\ node'.run = node.run /\ node'.ready = node.ready
      /\ node'.review = node.review /\ node'.rows = node.rows
  BY <1>1, <1>2, <1>3, <1>4 DEF Node, NodePoint
<1>6. ComplianceTypeOK' /\ UncitedIsRejected' /\ PartialIsFlagged' /\ RowsFit'
  BY <1>1, <1>3, <1>5, RowsStay DEF Working
<1>7. Current' = Current
  BY <1>5 DEF Current
<1>8. JudgeFits'
  BY <1>1, <1>3, <1>5, <1>7 DEF JudgeFits
<1>9. ShelfFits'
  <2>1. node.ready /\ Current \notin Absent => Found(Current) = "clauses"
    BY <1>3 DEF Found, ResultsInv, ShelfFits
  <2>2. UNCHANGED <<boot, clauses, booted>>
    BY <1>1 DEF shop, shelf
  <2> QED
    BY <1>5, <1>7, <2>1, <2>2 DEF ResultsInv, ShelfFits
<1> QED
  BY <1>6, <1>8, <1>9 DEF ResultsInv

\* What a judge may return: a rejection for a human when nothing is cited.
NoJudgmentUncited(r) == ~ r.cited => r.verdict = "compliance_reject" /\ r.review

LEMMA AnswersAreValidated ==
  ASSUME NEW r \in Asked \cup {Rejected, Passed}
  PROVE  r \in Result /\ NoJudgmentUncited(r)
<1>1. CASE r \in {Rejected, Passed}
  <2>1. Rejected \in Result /\ Passed \in Result
    BY DEF Rejected, Passed, Result, Storable
  <2>2. NoJudgmentUncited(Rejected)
    BY DEF NoJudgmentUncited, Rejected
  <2>3. NoJudgmentUncited(Passed)
    BY DEF NoJudgmentUncited, Passed
  <2> QED
    BY <1>1, <2>1, <2>2, <2>3
<1>2. ASSUME NEW a \in Answers, r = Validated(a)
      PROVE  r \in Result /\ NoJudgmentUncited(r)
  <2>1. a \in Result
    BY AnswersAssumption
  <2>2. CASE a.cited
    BY <1>2, <2>1, <2>2 DEF Validated, NoJudgmentUncited
  <2>3. CASE ~ a.cited
    <3>1. r = [a EXCEPT !.verdict = "compliance_reject", !.review = TRUE]
      BY <1>2, <2>3 DEF Validated
    <3> QED
      BY <2>1, <3>1 DEF Result, Storable, NoJudgmentUncited
  <2> QED
    BY <2>1, <2>2, <2>3 DEF Result
<1> QED
  BY <1>1, <1>2 DEF Asked

\* A result that fits the regulation settles it.
LEMMA SettlingPreserves ==
  ASSUME ResultsInv, node.pc \in Working, node.pc # "insert", node.todo # <<>>,
         NEW r \in Result, NoJudgmentUncited(r), Settles(r),
         Judge(Current) = "carbon" /\ node.weighed # Factory /\ (~ node.moved \/ node.missing)
           => r.review,
         node.pc = "next" => Current \in Stubs
  PROVE  ResultsInv'
<1>1. node' = [node EXCEPT !.pc = "insert", !.result = r] /\ UNCHANGED shop
  BY DEF Settles
<1>2. /\ node' \in Node /\ node'.pc = "insert" /\ node'.result = r
      /\ node'.todo = node.todo /\ node'.run = node.run /\ node'.ready = node.ready
      /\ node'.review = node.review /\ node'.rows = node.rows /\ node'.found = node.found
      /\ node'.weighed = node.weighed /\ node'.moved = node.moved
      /\ node'.missing = node.missing
  BY <1>1, NodeIsTyped DEF Node, NodePoint
<1>3. ComplianceTypeOK' /\ UncitedIsRejected' /\ PartialIsFlagged' /\ RowsFit'
  BY <1>1, <1>2, RowsStay DEF Working
<1>4. Current' = Current
  BY <1>2 DEF Current
<1>5. JudgeFits'
  BY <1>2, <1>4 DEF JudgeFits, NoJudgmentUncited
<1>6. ShelfFits'
  <2>1. UNCHANGED <<boot, clauses, booted>>
    BY <1>1 DEF shop, shelf
  <2> QED
    BY <1>2, <1>4, <2>1 DEF ResultsInv, ShelfFits, Working
<1> QED
  BY <1>3, <1>5, <1>6 DEF ResultsInv

\* Every judge settles on something that fits.
LEMMA JudgingPreserves ==
  ASSUME ResultsInv,
         JudgeStub \/ JudgeUflpa \/ JudgeGeneric \/ JudgeRecycled \/ JudgeCarbon
  PROVE  ResultsInv'
<1> USE DEF ResultsInv
<1>1. CASE JudgeStub
  <2>1. Current \in Code /\ Judge(Current) = "stub"
    BY <1>1, NodeIsTyped, JudgesOfCodes DEF JudgeStub
  <2> QED
    BY <1>1, <2>1, SettlingPreserves, AnswersAreValidated DEF JudgeStub, Working
<1>2. CASE JudgeUflpa
  BY <1>2, SettlingPreserves, AnswersAreValidated DEF JudgeUflpa, Working, JudgeFits
<1>3. CASE JudgeGeneric
  BY <1>3, SettlingPreserves, AnswersAreValidated DEF JudgeGeneric, Working, JudgeFits
<1>4. CASE JudgeRecycled
  BY <1>4, SettlingPreserves, AnswersAreValidated DEF JudgeRecycled, Working, JudgeFits
<1>5. CASE JudgeCarbon
  <2>1. PICK r \in Asked : Settles([r EXCEPT !.review = @ \/ node.missing])
    BY <1>5 DEF JudgeCarbon
  <2> DEFINE q == [r EXCEPT !.review = @ \/ node.missing]
  <2>2. r \in Result /\ NoJudgmentUncited(r) /\ node.missing \in BOOLEAN
    BY AnswersAreValidated, NodeIsTyped DEF Node
  <2>3. q.cited = r.cited /\ q.verdict = r.verdict /\ q.review = (r.review \/ node.missing)
        /\ q = [r EXCEPT !.review = q.review]
    BY <2>2 DEF Result
  <2>4. q.review \in BOOLEAN
    BY <2>3
  <2>5. q \in Result
    BY <2>2, <2>3, <2>4 DEF Result
  <2>6. NoJudgmentUncited(q) /\ (node.missing => q.review)
    BY <2>2, <2>3 DEF NoJudgmentUncited
  <2>7. node.pc = "ask" /\ node.todo # <<>>
        /\ (~ node.moved /\ node.weighed # Factory => node.missing)
    BY <1>5 DEF JudgeCarbon, JudgeFits
  <2> HIDE DEF q
  <2> QED
    BY <2>1, <2>5, <2>6, <2>7, SettlingPreserves DEF Working, q
<1> QED
  BY <1>1, <1>2, <1>3, <1>4, <1>5

\* The two statements see the same declarations unless they move in between.
LEMMA WeighingPreserves ==
  ASSUME ResultsInv, WeighCarbon
  PROVE  ResultsInv'
<1>1. /\ node' = [node EXCEPT !.pc = "count", !.weighed = declared, !.moved = FALSE]
      /\ node.pc = "carbon" /\ UNCHANGED shop
  BY DEF WeighCarbon
<1>2. declared \in SUBSET Factory
  BY DEF ResultsInv, ComplianceTypeOK
<1>3. /\ node' \in Node /\ node'.pc = "count" /\ node'.weighed = declared
      /\ node'.todo = node.todo /\ node'.run = node.run /\ node'.ready = node.ready
      /\ node'.review = node.review /\ node'.rows = node.rows /\ node'.found = node.found
  BY <1>1, <1>2, NodeIsTyped DEF Node, NodePoint
<1>4. ComplianceTypeOK' /\ UncitedIsRejected' /\ PartialIsFlagged' /\ RowsFit'
  BY <1>1, <1>3, RowsStay DEF Working
<1>5. Current' = Current /\ UNCHANGED <<declared, boot, clauses, booted>>
  BY <1>1, <1>3 DEF Current, shop, shelf
<1>6. JudgeFits'
  BY <1>1, <1>3, <1>5 DEF ResultsInv, JudgeFits
<1>7. ShelfFits'
  BY <1>1, <1>3, <1>5 DEF ResultsInv, ShelfFits
<1> QED
  BY <1>4, <1>6, <1>7 DEF ResultsInv

LEMMA CountingPreserves ==
  ASSUME ResultsInv, CountMissing
  PROVE  ResultsInv'
<1>1. node.pc = "count" /\ node.todo # <<>>
  BY DEF CountMissing, ResultsInv, JudgeFits
<1>2. CASE node.weighed = {}
  <2>1. Settles(Rejected) /\ Rejected.review
    BY <1>2 DEF CountMissing, Rejected
  <2> QED
    BY <1>1, <2>1, SettlingPreserves, AnswersAreValidated DEF Working
<1>3. CASE node.weighed # {}
  <2>1. node' = [node EXCEPT !.pc = "ask", !.missing = (declared # Factory)] /\ UNCHANGED shop
    BY <1>3 DEF CountMissing
  <2>2. /\ node' \in Node /\ node'.pc = "ask" /\ node'.missing = (declared # Factory)
        /\ node'.todo = node.todo /\ node'.run = node.run /\ node'.ready = node.ready
        /\ node'.review = node.review /\ node'.rows = node.rows /\ node'.found = node.found
        /\ node'.weighed = node.weighed /\ node'.moved = node.moved
    BY <2>1, NodeIsTyped DEF Node, NodePoint
  <2>3. ComplianceTypeOK' /\ UncitedIsRejected' /\ PartialIsFlagged' /\ RowsFit'
    BY <1>1, <2>1, <2>2, RowsStay DEF Working
  <2>4. Current' = Current /\ UNCHANGED <<declared, boot, clauses, booted>>
    BY <2>1, <2>2 DEF Current, shop, shelf
  <2>5. JudgeFits'
    <3>1. ~ node.moved => node.weighed = declared
      BY <1>1 DEF ResultsInv, JudgeFits
    <3>2. Judge(Current) = "carbon"
      BY <1>1 DEF ResultsInv, JudgeFits
    <3> QED
      BY <1>1, <2>2, <2>4, <3>1, <3>2 DEF JudgeFits
  <2>6. ShelfFits'
    BY <1>1, <2>2, <2>4 DEF ResultsInv, ShelfFits
  <2> QED
    BY <2>3, <2>5, <2>6 DEF ResultsInv
<1> QED
  BY <1>2, <1>3

\* A supplier that replaces declarations moves them under a node that counts.
LEMMA ReplacingPreserves ==
  ASSUME ResultsInv, DeclarationsReplaced
  PROVE  ResultsInv'
<1>1. /\ declared' \in SUBSET Factory /\ forms' = forms + 1
      /\ UNCHANGED <<rules, clauses, boot, booted, results>>
      /\ node' = IF node.pc = "count" THEN [node EXCEPT !.moved = TRUE] ELSE node
  BY DEF DeclarationsReplaced, shelf
<1>2. /\ node' \in Node /\ node'.pc = node.pc
      /\ (node.pc = "count" => node'.moved) /\ (node.pc # "count" => node' = node)
      /\ node'.todo = node.todo /\ node'.run = node.run /\ node'.ready = node.ready
      /\ node'.review = node.review /\ node'.rows = node.rows /\ node'.found = node.found
      /\ node'.reason = node.reason
  BY <1>1, NodeIsTyped DEF Node
<1>3. ComplianceTypeOK'
  BY <1>1, <1>2 DEF ResultsInv, ComplianceTypeOK
<1>4. \A dest \in Destination : Judges(dest) => Judges(dest)'
  BY <1>2 DEF Judges
<1>5. RowsFit' /\ UncitedIsRejected' /\ PartialIsFlagged'
  BY <1>1, <1>2, <1>4 DEF ResultsInv, RowsFit, Running, UncitedIsRejected, PartialIsFlagged
<1>6. Current' = Current
  BY <1>2 DEF Current
<1>7. JudgeFits' /\ ShelfFits'
  BY <1>1, <1>2, <1>6 DEF ResultsInv, JudgeFits, ShelfFits
<1> QED
  BY <1>3, <1>5, <1>7 DEF ResultsInv

-----------------------------------------------------------------------------
(* The node starts, inserts, fails, commits and returns *)

\* A start is a new one, and finds a list of one destination or none.
LEMMA StartPreserves ==
  ASSUME ResultsInv, NodeStarts
  PROVE  ResultsInv'
<1>0. PICK dest \in Destination : \E todo \in {Judged[dest], <<>>} :
        node' = [Idle EXCEPT !.pc = IF todo = <<>> THEN "skipped" ELSE "next",
                             !.todo = todo, !.run = node.run + 1, !.ready = booted]
  BY DEF NodeStarts
<1>1. PICK todo \in {Judged[dest], <<>>} :
        node' = [Idle EXCEPT !.pc = IF todo = <<>> THEN "skipped" ELSE "next",
                             !.todo = todo, !.run = node.run + 1, !.ready = booted]
  BY <1>0
<1>2. /\ node.pc \in {"idle", "failed"} /\ node.run < MaxRuns
      /\ UNCHANGED <<rules, clauses, boot, booted, declared, forms, results>>
  BY DEF NodeStarts, shop, shelf
<1>3. node.run + 1 \in 1..MaxRuns /\ node.run \in Nat /\ booted \in BOOLEAN
  BY <1>2, BoundAssumption, NodeIsTyped DEF Node, ResultsInv, ComplianceTypeOK
<1>4. todo \in Seq(Code) /\ NoneTwice(todo)
  <2>1. <<>> \in Seq(Code) /\ NoneTwice(<<>>)
    BY DEF NoneTwice
  <2> QED
    BY <2>1, ListsAreOfCodes
<1>5. /\ node'.pc = IF todo = <<>> THEN "skipped" ELSE "next"
      /\ node'.todo = todo /\ node'.run = node.run + 1 /\ node'.ready = booted
      /\ node'.rows = {} /\ node'.review = FALSE
  BY <1>1 DEF Idle
<1>6. node' \in Node
  <2> DEFINE pc == IF todo = <<>> THEN "skipped" ELSE "next"
  <2>1. pc \in NodePoint /\ node.run + 1 \in 0..MaxRuns
    BY <1>3, BoundAssumption DEF NodePoint
  <2>2. node' = [Idle EXCEPT !.pc = pc, !.todo = todo, !.run = node.run + 1, !.ready = booted]
    BY <1>1
  <2> HIDE DEF pc
  <2> QED
    BY <1>3, <1>4, <2>1, <2>2, IdleFits DEF Node
<1>7. ComplianceTypeOK'
  BY <1>2, <1>6 DEF ResultsInv, ComplianceTypeOK
<1>8. RowsFit'
  <2>1. \A r \in results : r.run \in Nat /\ r.run <= node.run
    BY <1>3 DEF ResultsInv, ComplianceTypeOK, RowsFit, ResultRow
  <2>2. \A r \in results : r.run < node.run + 1 /\ r.run <= node.run + 1
    BY <1>3, <2>1
  <2>3. todo # <<>> => Judges(dest)'
    BY <1>1, <1>5 DEF Judges
  <2>4. node.run + 1 > 0
    BY <1>3
  <2> QED
    BY <1>2, <1>4, <1>5, <2>2, <2>3, <2>4 DEF RowsFit, Running
<1>9. UncitedIsRejected' /\ PartialIsFlagged' /\ JudgeFits'
  BY <1>2, <1>5 DEF ResultsInv, UncitedIsRejected, PartialIsFlagged, JudgeFits
<1>10. ShelfFits'
  BY <1>2, <1>5 DEF ResultsInv, ShelfFits
<1> QED
  BY <1>7, <1>8, <1>9, <1>10 DEF ResultsInv

\* A node that fails takes its rows with it.
LEMMA FailurePreserves ==
  ASSUME ResultsInv, InsertRaises \/ NodeFails
  PROVE  ResultsInv'
<1>1. /\ node' = [Idle EXCEPT !.pc = "failed", !.run = node.run]
      /\ UNCHANGED <<rules, clauses, boot, booted, declared, forms, results>>
  BY DEF InsertRaises, NodeFails, shop, shelf
<1>2. /\ node'.pc = "failed" /\ node'.run = node.run /\ node'.rows = {}
      /\ node'.todo = <<>> /\ node'.ready = FALSE
  BY <1>1 DEF Idle
<1>3. node' \in Node
  BY <1>1, NodeIsTyped, IdleFits DEF Node, NodePoint
<1>4. NoneTwice(<<>>)
  BY DEF NoneTwice
<1>5. RowsFit'
  BY <1>1, <1>2, <1>4 DEF ResultsInv, RowsFit, Running
<1> QED
  BY <1>1, <1>2, <1>3, <1>5 DEF ResultsInv, ComplianceTypeOK, UncitedIsRejected, PartialIsFlagged, JudgeFits,
     ShelfFits

\* The row of a regulation, with what its judge decided.
LEMMA RowFits ==
  ASSUME ResultsInv, node.pc = "insert", CanInsert, Current \notin Absent
  PROVE  /\ Row \in ResultRow /\ Row.run = node.run /\ Row.code = Current
         /\ Row.review = node.result.review /\ Row.found = node.found
         /\ ~ Row.cited => Row.verdict = "compliance_reject" /\ Row.review
         /\ Row.partial => Row.review
<1>1. node.todo # <<>> /\ node.run > 0
  BY DEF ResultsInv, JudgeFits, RowsFit
<1>2. Current \in Code /\ node \in Node /\ node.run \in 1..MaxRuns
  BY <1>1, NodeIsTyped, BoundAssumption DEF Node
<1>3. node.result \in Result /\ node.result.verdict \in Storable \cup {"null"}
      /\ node.found \in {"clauses", "rule", "nothing"} /\ node.moved \in BOOLEAN
  BY <1>2 DEF Node, CanInsert
<1>4. /\ Row.run = node.run /\ Row.code = Current /\ Row.verdict = node.result.verdict
      /\ Row.cited = node.result.cited /\ Row.review = node.result.review
      /\ Row.sure = node.result.sure /\ Row.found = node.found
      /\ Row.partial = (Judge(Current) = "carbon" /\ node.weighed # Factory
                         /\ (~ node.moved \/ node.missing))
  BY DEF Row
<1>5. Row \in ResultRow
  <2>1. Row.partial \in BOOLEAN
    BY <1>4
  <2>2. Row = [run |-> Row.run, code |-> Row.code, verdict |-> Row.verdict, cited |-> Row.cited,
               review |-> Row.review, sure |-> Row.sure, found |-> Row.found,
               partial |-> Row.partial]
    BY DEF Row
  <2> QED
    BY <1>2, <1>3, <1>4, <2>1, <2>2 DEF Result, ResultRow
<1>6. ~ Row.cited => Row.verdict = "compliance_reject" /\ Row.review
  BY <1>4 DEF ResultsInv, JudgeFits
<1>7. Row.partial => Row.review
  BY <1>4 DEF ResultsInv, JudgeFits
<1> QED
  BY <1>4, <1>5, <1>6, <1>7

\* Inserting moves the head of the list to the rows, or to what could not be
\* stored, and keeps every flag.
LEMMA InsertPreserves ==
  ASSUME ResultsInv, Insert
  PROVE  ResultsInv'
<1>1. /\ node.pc = "insert" /\ CanInsert
      /\ Proceeds(node.rows \cup NewRows, node.review \/ node.result.review)
      /\ UNCHANGED <<rules, clauses, boot, booted, declared, forms, results>>
  BY DEF Insert, shop, shelf
<1>2. node.todo # <<>> /\ node \in Node /\ Current \in Code /\ NoneTwice(node.todo)
  BY <1>1, NodeIsTyped DEF ResultsInv, JudgeFits, RowsFit
<1>3. /\ Tail(node.todo) \in Seq(Code) /\ NoneTwice(Tail(node.todo))
      /\ Range(Tail(node.todo)) = Range(node.todo) \ {Current}
      /\ Current \in Range(node.todo)
  BY <1>2, RestOfList DEF Node, Current
<1>4. NewRows = IF Current \in Absent THEN {} ELSE {Row}
  BY DEF NewRows
<1>5. \A r \in NewRows :
        /\ r \in ResultRow /\ r.run = node.run /\ r.code = Current
        /\ r.review = node.result.review
        /\ ~ r.cited => r.verdict = "compliance_reject" /\ r.review
        /\ r.partial => r.review
  BY <1>1, <1>4, RowFits
<1>6. /\ node'.pc = "next" /\ node'.todo = Tail(node.todo) /\ node'.run = node.run
      /\ node'.ready = node.ready
      /\ node'.rows = node.rows \cup NewRows
      /\ node'.review = (node.review \/ node.result.review)
  BY <1>1, <1>2 DEF Proceeds, Node
<1>7. node' \in Node
  <2>1. node.rows \cup NewRows \in SUBSET ResultRow
    BY <1>2, <1>5 DEF Node
  <2>2. node.review \in BOOLEAN /\ node.result.review \in BOOLEAN
    BY <1>2 DEF Node, Result
  <2>3. (node.review \/ node.result.review) \in BOOLEAN
    OBVIOUS
  <2>4. Rejected \in Result
    BY AnswersAreValidated
  <2> DEFINE mine == node.rows \cup NewRows
             review == (node.review \/ node.result.review)
  <2>5. node' = [node EXCEPT !.pc = "next", !.todo = Tail(@), !.found = "nothing",
                             !.weighed = {}, !.missing = FALSE, !.moved = FALSE,
                             !.result = Rejected, !.rows = mine, !.review = review]
    BY <1>1 DEF Proceeds
  <2>6. mine \in SUBSET ResultRow /\ review \in BOOLEAN
    BY <2>1, <2>3
  <2> HIDE DEF mine, review
  <2> QED
    BY <1>2, <1>3, <2>4, <2>5, <2>6 DEF Node, NodePoint
<1>8. ComplianceTypeOK'
  BY <1>1, <1>7 DEF ResultsInv, ComplianceTypeOK
<1>9. UncitedIsRejected' /\ PartialIsFlagged'
  BY <1>1, <1>5, <1>6 DEF ResultsInv, UncitedIsRejected, PartialIsFlagged
<1>10. JudgeFits' /\ ShelfFits'
  BY <1>1, <1>6 DEF ResultsInv, JudgeFits, ShelfFits
<1>11. ASSUME NEW dest \in Destination, Judges(dest)
       PROVE  Judges(dest)' /\ \A r \in node.rows : r.code # Current
  <2>1. /\ Range(node.todo) \subseteq Range(Judged[dest])
        /\ {r.code : r \in node.rows} = (Range(Judged[dest]) \ Range(node.todo)) \ Absent
    BY <1>11 DEF Judges
  <2>2. \A r \in node.rows : r.code # Current
    BY <1>3, <2>1
  <2>3. Range(node'.todo) \subseteq Range(Judged[dest])
    BY <1>3, <1>6, <2>1
  <2>4. {r.code : r \in NewRows} = {Current} \ Absent
    BY <1>4, <1>5
  <2>5. {r.code : r \in node'.rows} = {r.code : r \in node.rows} \cup {r.code : r \in NewRows}
    BY <1>6
  <2>6. {r.code : r \in node'.rows} = (Range(Judged[dest]) \ Range(node'.todo)) \ Absent
    BY <1>3, <1>6, <2>1, <2>4, <2>5
  <2>7. node'.review =>
          (\E r \in node'.rows : r.review) \/ Range(Judged[dest]) \cap Absent # {}
    <3>1. CASE node.review
      BY <1>6, <1>11, <3>1 DEF Judges
    <3>2. CASE node.result.review
      <4>1. CASE Current \in Absent
        BY <1>3, <2>1, <4>1
      <4>2. CASE Current \notin Absent
        <5>1. Row \in NewRows /\ Row.review
          BY <1>4, <1>5, <3>2, <4>2
        <5> QED
          BY <1>6, <5>1
      <4> QED
        BY <4>1, <4>2
    <3> QED
      BY <1>6, <3>1, <3>2
  <2> QED
    BY <2>2, <2>3, <2>6, <2>7 DEF Judges
<1>12. PICK dest \in Destination : Judges(dest)
  BY <1>1 DEF ResultsInv, RowsFit, Running
<1>13. \A q, r \in node'.rows : q.code = r.code => q = r
  BY <1>4, <1>5, <1>6, <1>11, <1>12 DEF ResultsInv, RowsFit
<1>14. \A r \in node'.rows : r.run = node'.run /\ (r.review => node'.review)
  BY <1>5, <1>6 DEF ResultsInv, RowsFit
<1>15. RowsFit'
  BY <1>1, <1>3, <1>6, <1>11, <1>12, <1>13, <1>14 DEF ResultsInv, RowsFit, Running
<1> QED
  BY <1>8, <1>9, <1>10, <1>15 DEF ResultsInv

\* The rows of a start are stored together.
LEMMA CommitPreserves ==
  ASSUME ResultsInv, Commit
  PROVE  ResultsInv'
<1>1. /\ node.pc = "next" /\ node.todo = <<>>
      /\ results' = results \cup node.rows
      /\ node' = [node EXCEPT !.pc = "committed"]
      /\ UNCHANGED <<rules, clauses, boot, booted, declared, forms>>
  BY DEF Commit, shelf
<1>2. /\ node' \in Node /\ node'.pc = "committed"
      /\ node'.todo = node.todo /\ node'.run = node.run /\ node'.ready = node.ready
      /\ node'.review = node.review /\ node'.rows = node.rows /\ node.run \in Nat
  BY <1>1, NodeIsTyped, BoundAssumption DEF Node, NodePoint
<1>3. ComplianceTypeOK'
  BY <1>1, <1>2 DEF ResultsInv, ComplianceTypeOK, Node
<1>4. \A dest \in Destination : Judges(dest) => Judges(dest)'
  BY <1>2 DEF Judges
<1>5. {r \in results' : r.run = node'.run} = node'.rows
  <2>1. \A r \in results : r.run \in Nat /\ r.run < node.run
    BY <1>1 DEF ResultsInv, RowsFit, ComplianceTypeOK, ResultRow
  <2>2. \A r \in node.rows : r.run = node.run
    BY DEF ResultsInv, RowsFit
  <2> QED
    BY <1>1, <1>2, <2>1, <2>2
<1>6. RowsFit'
  <2>1. \A r \in results' : r.run <= node'.run
    BY <1>1, <1>2 DEF ResultsInv, RowsFit
  <2>2. \E dest \in Destination : Judges(dest)'
    BY <1>1, <1>4 DEF ResultsInv, RowsFit, Running
  <2> QED
    BY <1>1, <1>2, <1>5, <2>1, <2>2 DEF ResultsInv, RowsFit
<1>7. UncitedIsRejected' /\ PartialIsFlagged' /\ JudgeFits' /\ ShelfFits'
  BY <1>1, <1>2 DEF ResultsInv, UncitedIsRejected, PartialIsFlagged, JudgeFits, ShelfFits
<1> QED
  BY <1>3, <1>6, <1>7 DEF ResultsInv

\* The node answers with the flag it has gathered.
LEMMA ReturnPreserves ==
  ASSUME ResultsInv, Returns
  PROVE  ResultsInv'
<1>1. /\ node.pc = "committed"
      /\ node' = [node EXCEPT !.pc = "done",
                              !.reason = IF node.review THEN "low_confidence" ELSE "none"]
      /\ UNCHANGED <<rules, clauses, boot, booted, declared, forms, results>>
  BY DEF Returns, shop, shelf
<1>2. /\ node' \in Node /\ node'.pc = "done" /\ (node'.reason = "low_confidence" <=> node.review)
      /\ node'.todo = node.todo /\ node'.run = node.run /\ node'.ready = node.ready
      /\ node'.review = node.review /\ node'.rows = node.rows
  BY <1>1, NodeIsTyped DEF Node, NodePoint
<1>3. \A dest \in Destination : Judges(dest) => Judges(dest)'
  BY <1>2 DEF Judges
<1>4. RowsFit'
  BY <1>1, <1>2, <1>3 DEF ResultsInv, RowsFit, Running
<1> QED
  BY <1>1, <1>2, <1>4 DEF ResultsInv, ComplianceTypeOK, UncitedIsRejected, PartialIsFlagged, JudgeFits,
     ShelfFits

-----------------------------------------------------------------------------
(* The theorems *)

\* Whatever the model answers and however often the node is started, killed and
\* overtaken by suppliers and the script: what is stored passed the CHECK, and
\* nothing that cites no clause or rests on part of the data is stored as a
\* judgment.
THEOREM ResultsInvariant == ComplianceSpec => []ResultsInv
<1>1. ResultsInv /\ [ComplianceNext]_complianceVars => ResultsInv'
  <2> SUFFICES ASSUME ResultsInv, [ComplianceNext]_complianceVars PROVE ResultsInv'
    OBVIOUS
  <2>1. CASE UNCHANGED complianceVars
    BY <2>1 DEF complianceVars, ResultsInv, ComplianceTypeOK, UncitedIsRejected, PartialIsFlagged, JudgeFits, Current,
       RowsFit, Running, Judges, ShelfFits
  <2>2. CASE ComplianceNext
    BY <2>2, ScriptPreserves, ReplacingPreserves, StartPreserves, SearchPreserves,
       JudgingPreserves, WeighingPreserves, CountingPreserves, InsertPreserves, CommitPreserves,
       ReturnPreserves, FailurePreserves DEF ComplianceNext, NodeStep
  <2> QED
    BY <2>1, <2>2
<1> QED
  BY InitResults, <1>1, PTL DEF ComplianceSpec

\* A flag of any regulation reaches the reason that routes the batch to a human,
\* and a reason has a flagged row, or a regulation that could not be stored.
THEOREM ReasonIsFounded == ComplianceSpec => []ReasonFitsRows
<1>1. ResultsInv => ReasonFitsRows
  <2> SUFFICES ASSUME ResultsInv, node.pc = "done" PROVE ReasonFitsRows
    BY DEF ReasonFitsRows
  <2> DEFINE mine == {r \in results : r.run = node.run}
  <2>1. mine = node.rows /\ (node.reason = "low_confidence" <=> node.review)
        /\ \A r \in node.rows : r.review => node.review
    BY DEF ResultsInv, RowsFit
  <2>2. PICK dest \in Destination : Judges(dest)
    BY DEF ResultsInv, RowsFit, Running
  <2>3. {r.code : r \in mine} \subseteq Range(Judged[dest])
    BY <2>1, <2>2 DEF Judges
  <2>4. node.review => (\E r \in mine : NeedsReview(r)) \/ Range(Judged[dest]) \cap Absent # {}
    BY <2>1, <2>2 DEF Judges, NeedsReview
  <2> QED
    BY <2>1, <2>3, <2>4 DEF ReasonFitsRows
<1> QED
  BY <1>1, ResultsInvariant, PTL

\* The rows of a run that is not being committed stay what they are.
LEMMA OtherRunsStay ==
  ASSUME ResultsInv, [ComplianceNext]_complianceVars, ~ Commit
  PROVE  results' = results
BY DEF complianceVars, ComplianceNext, BootStarts, IndexRules, SeedClauses, IndexClauses, BootCrashes, desk,
   DeclarationsReplaced, NodeStarts, NodeStep, Search, JudgeStub, JudgeUflpa, JudgeGeneric,
   JudgeRecycled, Settles, WeighCarbon, CountMissing, JudgeCarbon, Insert, InsertRaises, Returns,
   NodeFails, shop

\* Of every start there is a row for each regulation of one destination that has
\* one, or none.
THEOREM RowsOfARunAreWhole == ComplianceSpec => []RowsComeTogether
<1>1. ComplianceInit => RowsComeTogether
  BY DEF ComplianceInit, RowsComeTogether
<1>2. ResultsInv /\ RowsComeTogether /\ [ComplianceNext]_complianceVars => RowsComeTogether'
  <2> SUFFICES ASSUME ResultsInv, RowsComeTogether, [ComplianceNext]_complianceVars PROVE RowsComeTogether'
    OBVIOUS
  <2>1. CASE ~ Commit
    BY <2>1, OtherRunsStay DEF RowsComeTogether
  <2>2. CASE Commit
    <3> SUFFICES ASSUME NEW k \in 1..MaxRuns, {r \in results' : r.run = k} # {}
                 PROVE  \E dest \in Destination :
                          /\ {r.code : r \in {q \in results' : q.run = k}}
                               = Range(Judged[dest]) \ Absent
                          /\ \A q, r \in {s \in results' : s.run = k} : q.code = r.code => q = r
      BY DEF RowsComeTogether
    <3>1. /\ node.pc = "next" /\ node.todo = <<>> /\ results' = results \cup node.rows
          /\ \A r \in node.rows : r.run = node.run
          /\ \A r \in results : r.run < node.run
      BY <2>2 DEF Commit, ResultsInv, RowsFit
    <3>2. node.run \in Nat /\ \A r \in results : r.run \in Nat
      BY NodeIsTyped, BoundAssumption DEF Node, ResultsInv, ComplianceTypeOK, ResultRow
    <3>3. CASE k # node.run
      <4>1. {r \in results' : r.run = k} = {r \in results : r.run = k}
        BY <3>1, <3>3
      <4> QED
        BY <4>1 DEF RowsComeTogether
    <3>4. CASE k = node.run
      <4>1. {r \in results' : r.run = k} = node.rows
        BY <3>1, <3>2, <3>4
      <4>2. PICK dest \in Destination : Judges(dest)
        BY <3>1 DEF ResultsInv, RowsFit, Running
      <4>3. {r.code : r \in node.rows} = Range(Judged[dest]) \ Absent
        BY <3>1, <4>2 DEF Judges, Range
      <4>4. \A q, r \in node.rows : q.code = r.code => q = r
        BY DEF ResultsInv, RowsFit
      <4> QED
        BY <4>1, <4>3, <4>4
    <3> QED
      BY <3>3, <3>4
  <2> QED
    BY <2>1, <2>2
<1> QED
  BY <1>1, <1>2, ResultsInvariant, PTL DEF ComplianceSpec

\* After a start of the script has done all its steps, whatever it is that a node
\* asks the model about is judged over clauses.
THEOREM ClausesAreJudgedOver == ComplianceSpec => []JudgedOverClauses
<1>1. ComplianceInit => JudgedOverClauses
  BY DEF ComplianceInit, Idle, JudgedOverClauses
<1>2. ResultsInv /\ JudgedOverClauses /\ [ComplianceNext]_complianceVars => JudgedOverClauses'
  <2> SUFFICES ASSUME ResultsInv, JudgedOverClauses, [ComplianceNext]_complianceVars PROVE JudgedOverClauses'
    OBVIOUS
  <2>1. CASE Insert
    <3>1. /\ node.pc = "insert" /\ CanInsert /\ node.todo # <<>>
          /\ Proceeds(node.rows \cup NewRows, node.review \/ node.result.review)
      BY <2>1 DEF Insert, ResultsInv, JudgeFits
    <3>2. node'.rows = node.rows \cup NewRows /\ node'.ready = node.ready
      BY <3>1, NodeIsTyped DEF Proceeds, Node
    <3>3. ASSUME NEW r \in NewRows, node.ready, r.code \notin Stubs
          PROVE  r.found = "clauses"
      <4>1. r = Row /\ Current \notin Absent
        BY DEF NewRows
      <4>2. r.code = Current /\ r.found = node.found
        BY <3>1, <4>1, RowFits
      <4> QED
        BY <3>1, <3>3, <4>1, <4>2 DEF ResultsInv, ShelfFits
    <3> QED
      BY <3>2, <3>3 DEF JudgedOverClauses
  <2>2. CASE ~ Insert
    <3>1. \/ node'.rows = node.rows /\ node'.ready = node.ready
          \/ node'.rows = {}
      <4> USE NodeIsTyped DEF Node
      <4>1. CASE UNCHANGED complianceVars
        BY <4>1 DEF complianceVars
      <4>2. CASE NodeStarts \/ NodeFails \/ InsertRaises
        BY <4>2 DEF NodeStarts, NodeFails, InsertRaises, Idle
      <4>3. CASE DeclarationsReplaced
        BY <4>3 DEF DeclarationsReplaced
      <4>4. CASE BootStarts \/ IndexRules \/ SeedClauses \/ IndexClauses \/ BootCrashes
        BY <4>4 DEF BootStarts, IndexRules, SeedClauses, IndexClauses, BootCrashes, desk
      <4>5. CASE NodeStep /\ ~ Insert /\ ~ InsertRaises
        BY <4>5 DEF NodeStep, Search, JudgeStub, JudgeUflpa, JudgeGeneric, JudgeRecycled, Settles,
           WeighCarbon, CountMissing, JudgeCarbon, Commit, Returns
      <4> QED
        BY <2>2, <4>1, <4>2, <4>3, <4>4, <4>5 DEF ComplianceNext
    <3> QED
      BY <3>1 DEF JudgedOverClauses
  <2> QED
    BY <2>1, <2>2
<1> QED
  BY <1>1, <1>2, ResultsInvariant, PTL DEF ComplianceSpec
=============================================================================
