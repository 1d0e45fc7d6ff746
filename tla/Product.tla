------------------------------- MODULE Product -------------------------------
(***************************************************************************)
(* A product of the catalogue: its BOM versions, the calls that activate   *)
(* and deprecate them, the import that upserts customers and announces the *)
(* new ones, and the tree of parts that GET /products/{id}/bom assembles.  *)
(*                                                                         *)
(* An activation reads a version without a lock, deprecates the versions   *)
(* it sees active, and writes its own: calls overlap in between.           *)
(***************************************************************************)
EXTENDS Naturals, FiniteSets

CONSTANTS
  Version,          \* BOM versions of the product
  Call, NoCall,     \* calls of activate, deprecate and import
  Customers,        \* customers of an import, 1..Customers in its order
  Part, NoPart,
  DepthLimit        \* 5 in the code: how deep the tree query goes

ASSUME NullAssumption == NoCall \notin Call /\ NoPart \notin Part
ASSUME BoundAssumption == Customers \in Nat /\ DepthLimit \in Nat
ASSUME FiniteAssumption == IsFiniteSet(Part)

VARIABLES
  status,     \* bom_versions.status
  rowLock,    \* who holds the row of a version
  call,
  customer,   \* a customer's row, its lock, and the events that announced it
  parent,     \* parts.parent_part_id
  items,      \* parts that bom_items gives the active version
  overlap     \* not stored: has a call written after what it read had changed?

vars == <<status, rowLock, call, customer, parent, items, overlap>>
parts == <<parent, items>>

BomVersionStatus == {"draft", "active", "deprecated"}
Customer == 1..Customers

CallState ==
  [op : {"none", "activate", "deprecate", "import"},
   st : {"idle", "read", "selected", "locked", "upserting", "committed", "over"},
   v : SUBSET Version, off : SUBSET Version, saw : [Version -> BomVersionStatus],
   at : Nat, new : SUBSET Customer]

CallIn(st) ==
  [op |-> "none", st |-> st, v |-> {}, off |-> {},
   saw |-> [v \in Version |-> "draft"], at |-> 0, new |-> {}]

-----------------------------------------------------------------------------
(* The tree *)

\* The k-th part above p.
Above(p, k) ==
  LET A[n \in Nat] == IF n = 0 THEN p
                      ELSE IF A[n - 1] = NoPart THEN NoPart ELSE parent[A[n - 1]]
  IN  A[k]

Hanging == {p \in items : parent[p] # NoPart}

AnchorsBelowItems ==   \* mutant: the subquery does not leave out root parts
  {p \in Hanging : parent[p] \notin items}

\* WHERE parent_part_id NOT IN (...): for a part without a parent it is NULL,
\* that is false, as soon as the subquery returns a row.
Anchors == IF Hanging = {} THEN items ELSE {p \in Hanging : parent[p] \notin Hanging}

\* The recursion goes by parts.parent_part_id, in the BOM or not.
Depths(p) == {k \in 0..DepthLimit : Above(p, k) \in Anchors}

NodeMap == {p \in Part : Depths(p) # {}}

ShallowestRow(p) ==   \* mutant: the first row of a part is kept
  CHOOSE k \in Depths(p) : \A j \in Depths(p) : k <= j

\* Rows come by depth: node_map keeps the last one, the deepest.
Depth(p) == CHOOSE k \in Depths(p) : \A j \in Depths(p) : k >= j

RootNodes == {p \in NodeMap : Depth(p) = 0}

\* The parts that hang, by children, below a root of the answer.
Shown ==
  {p \in NodeMap :
     \E k \in 0..Cardinality(Part) :
       Above(p, k) \in RootNodes /\ \A j \in 0..k : Above(p, j) \in NodeMap}

Init ==
  /\ status \in [Version -> BomVersionStatus]
  /\ \A v, w \in Version : status[v] = "active" /\ status[w] = "active" => v = w
  /\ rowLock = [v \in Version |-> NoCall]
  /\ call = [c \in Call |-> CallIn("idle")]
  /\ customer = [k \in Customer |-> [stored |-> FALSE, lock |-> NoCall, announced |-> 0]]
  /\ parent \in [Part -> Part \cup {NoPart}]
  /\ \A p \in Part : Above(p, Cardinality(Part)) = NoPart
  /\ items \in SUBSET Part
  /\ overlap = FALSE

-----------------------------------------------------------------------------
(* activate_bom_version, deprecate_bom_version *)

AnyTransition(from, to) == from # to   \* mutant: the matrix is forgotten

\* BOM_STATUS_TRANSITIONS
Transition(from, to) ==
  \/ from = "draft" /\ to \in {"active", "deprecated"}
  \/ from = "active" /\ to = "deprecated"

Target(op) == IF op = "activate" THEN "active" ELSE "deprecated"

Reads(c, op, v) ==
  /\ call[c].st = "idle"
  /\ Transition(status[v], Target(op))
  /\ call' = [call EXCEPT ![c].op = op, ![c].st = "read", ![c].v = {v}, ![c].saw = status]
  /\ UNCHANGED <<status, rowLock, customer, parts, overlap>>

SelectsNone(c) ==   \* mutant: the others are not selected
  /\ call[c].op = "activate" /\ call[c].st = "read"
  /\ call' = [call EXCEPT ![c].st = "selected"]
  /\ UNCHANGED <<status, rowLock, customer, parts, overlap>>

\* The UPDATE of the others starts: it sees what is committed by now.
Selects(c) ==
  /\ call[c].op = "activate" /\ call[c].st = "read"
  /\ call' = [call EXCEPT ![c].st = "selected",
                ![c].off = {w \in Version \ call[c].v : status[w] = "active"}]
  /\ UNCHANGED <<status, rowLock, customer, parts, overlap>>

\* It has waited for their rows, and leaves alone those no longer active.
Locks(c) ==
  /\ call[c].st = "selected"
  /\ \A w \in call[c].off : rowLock[w] = NoCall
  /\ rowLock' = [w \in Version |-> IF w \in call[c].off THEN c ELSE rowLock[w]]
  /\ call' = [call EXCEPT ![c].st = "locked",
                ![c].off = {w \in call[c].off : status[w] = "active"}]
  /\ UNCHANGED <<status, customer, parts, overlap>>

Ends(c) ==
  /\ call' = [call EXCEPT ![c] = CallIn("over")]
  /\ rowLock' = [w \in Version |-> IF rowLock[w] = c THEN NoCall ELSE rowLock[w]]

Writes(c) ==
  LET v == CHOOSE w \in call[c].v : TRUE IN
  /\ \/ call[c].op = "activate" /\ call[c].st = "locked"
     \/ call[c].op = "deprecate" /\ call[c].st = "read"
  /\ rowLock[v] \in {NoCall, c}
  /\ status' = [w \in Version |->
                  IF w = v THEN Target(call[c].op)
                  ELSE IF w \in call[c].off THEN "deprecated" ELSE status[w]]
  /\ overlap' = (overlap \/ call[c].saw # status)
  /\ Ends(c)
  /\ UNCHANGED <<customer, parts>>

-----------------------------------------------------------------------------
(* import_products *)

ImportStarts(c) ==
  /\ call[c].st = "idle"
  /\ Customers > 0
  /\ call' = [call EXCEPT ![c].op = "import", ![c].st = "upserting", ![c].at = 1]
  /\ UNCHANGED <<status, rowLock, customer, parts, overlap>>

UpsertsUnaware(c) ==   \* mutant: a SELECT decides which customers are new
  LET k == call[c].at IN
  /\ call[c].st = "upserting" /\ k <= Customers
  /\ call' = [call EXCEPT ![c].at = k + 1,
                ![c].new = IF customer[k].stored THEN @ ELSE @ \cup {k}]
  /\ UNCHANGED <<status, rowLock, customer, parts, overlap>>

\* ON CONFLICT waits for another import of the customer to end; xmax = 0 tells
\* whether the row is this one's.
Upserts(c) ==
  LET k == call[c].at IN
  /\ call[c].st = "upserting" /\ k <= Customers
  /\ customer[k].lock = NoCall
  /\ customer' = [customer EXCEPT ![k].lock = c]
  /\ call' = [call EXCEPT ![c].at = k + 1,
                ![c].new = IF customer[k].stored THEN @ ELSE @ \cup {k}]
  /\ UNCHANGED <<status, rowLock, parts, overlap>>

ImportCommits(c) ==
  /\ call[c].st = "upserting" /\ call[c].at > Customers
  /\ customer' = [k \in Customer |->
       [customer[k] EXCEPT !.stored = TRUE, !.lock = IF @ = c THEN NoCall ELSE @]]
  /\ call' = [call EXCEPT ![c].st = "committed"]
  /\ UNCHANGED <<status, rowLock, parts, overlap>>

\* CustomerImported, for each new customer, after the commit.
Publishes(c, k) ==
  /\ call[c].st = "committed" /\ k \in call[c].new
  /\ customer' = [customer EXCEPT ![k].announced = @ + 1]
  /\ call' = [call EXCEPT ![c].new = @ \ {k}]
  /\ UNCHANGED <<status, rowLock, parts, overlap>>

\* The call ends, or dies: a transaction is rolled back, events are not sent.
CallEnds(c) ==
  /\ call[c].st \notin {"idle", "over"}
  /\ customer' = [k \in Customer |->
       [customer[k] EXCEPT !.lock = IF @ = c THEN NoCall ELSE @]]
  /\ Ends(c)
  /\ UNCHANGED <<status, parts, overlap>>

-----------------------------------------------------------------------------
Next ==
  \E c \in Call :
    \/ \E v \in Version, op \in {"activate", "deprecate"} : Reads(c, op, v)
    \/ Selects(c) \/ Locks(c) \/ Writes(c)
    \/ ImportStarts(c) \/ Upserts(c) \/ ImportCommits(c)
    \/ \E k \in Customer : Publishes(c, k)
    \/ CallEnds(c)

Spec == Init /\ [][Next]_vars

-----------------------------------------------------------------------------
(* Properties *)

\* Every variable has its type.
TypeOK ==
  /\ status \in [Version -> BomVersionStatus]
  /\ rowLock \in [Version -> Call \cup {NoCall}]
  /\ call \in [Call -> CallState]
  /\ customer \in [Customer -> [stored : BOOLEAN, lock : Call \cup {NoCall}, announced : Nat]]
  /\ parent \in [Part -> Part \cup {NoPart}]
  /\ items \in SUBSET Part
  /\ overlap \in BOOLEAN

\* A product has one active version at most, unless two calls overlapped: the
\* rule of state_machine.py holds for calls one after the other, and only so.
OneActive ==
  ~ overlap => \A v, w \in Version : status[v] = "active" /\ status[w] = "active" => v = w

\* A deprecated version stays deprecated, with the same exception.
DeprecatedStays ==
  [][~ overlap' =>
       \A v \in Version : status[v] = "deprecated" => status'[v] = "deprecated"]_vars

\* However imports overlap, fail and are repeated, a customer is announced as
\* new once at most, and only when it is stored.
AnnouncedOnce ==
  \A k \in Customer :
    /\ customer[k].announced <= 1
    /\ customer[k].announced = 1 => customer[k].stored

\* An import holds the rows of the customers it has upserted, from the first on,
\* and no others.
LocksAreHeld ==
  /\ \A c \in Call : call[c].st = "upserting" => call[c].at >= 1
  /\ \A k \in Customer, c \in Call :
       customer[k].lock = c <=> call[c].st = "upserting" /\ k < call[c].at

\* A customer that an import takes for new is announced by no one else: nobody
\* has stored it before the commit, nobody else takes it for new after.
NewIsOwn ==
  \A c \in Call : \A k \in call[c].new :
    /\ customer[k].announced = 0
    /\ \/ call[c].st = "upserting" /\ k < call[c].at /\ ~ customer[k].stored
       \/ /\ call[c].st = "committed" /\ customer[k].stored
          /\ \A d \in Call \ {c} : k \notin call[d].new

Rank(s) == IF s = "draft" THEN 0 ELSE IF s = "active" THEN 1 ELSE 2

\* What a call on a version has seen lies behind what is stored; if it is still
\* what is stored, the versions the call takes off are the active ones.
SeenEarlier(c) ==
  /\ call[c].st \in {"idle", "read"} => call[c].off = {}
  /\ call[c].st \in {"read", "selected", "locked"} =>
       /\ call[c].op \in {"activate", "deprecate"}
       /\ \E v \in Version :
            /\ call[c].v = {v}
            /\ Transition(call[c].saw[v], Target(call[c].op))
            /\ call[c].st # "read" /\ call[c].saw = status =>
                 call[c].off = {w \in Version \ {v} : status[w] = "active"}
       /\ \A w \in Version : Rank(call[c].saw[w]) <= Rank(status[w])

VersionsAreSeen == ~ overlap => \A c \in Call : SeenEarlier(c)

\* The inductive invariant.
CatalogueInv ==
  /\ TypeOK
  /\ LocksAreHeld /\ NewIsOwn /\ AnnouncedOnce
  /\ VersionsAreSeen /\ OneActive

\* Does no part lie deeper below an anchor than the query goes?
WithinLimit ==
  \A p \in Part, k \in 0..Cardinality(Part) : Above(p, k) \in Anchors => k <= DepthLimit

\* A part is in the tree in one place, though the query may return it at several
\* depths: as a part of the BOM, and as a child of one outside the BOM.
PartsAreShownOnce ==
  WithinLimit => \A p \in RootNodes : parent[p] \notin NodeMap

\* Every part of the BOM is in the tree, unless it is a root part and others hang
\* below some part.
ItemsAreShown ==
  WithinLimit => IF Hanging = {} THEN items \subseteq Shown ELSE Hanging \subseteq Shown

\* Over every BOM and every forest of parts, the tree is neither doubled nor
\* short: what a recursion by depth and a NOT IN over NULLs make hard to see.
TreeShowsBom == PartsAreShownOnce /\ ItemsAreShown
=============================================================================
