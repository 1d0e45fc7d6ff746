------------------------------ MODULE SupplyChain ------------------------------
(***************************************************************************)
(* The supply chain map: edges of supply_chain_map from a supplier to the  *)
(* supplier it buys a part from, the header of each BOM version's map, the *)
(* queries that walk the map, and the judgement whether it is complete.    *)
(*                                                                         *)
(* An edge is checked for a cycle in one statement and inserted in a later *)
(* one: calls overlap in between.  Its hop_level is computed once, when it *)
(* is inserted.  Only the upsert of the header makes insertions into one   *)
(* map wait for each other.                                                *)
(***************************************************************************)
EXTENDS Naturals, Sequences, FiniteSets

CONSTANTS
  Supplier, Part,
  Bom,          \* BOM versions, of one product
  NoSupplier,   \* NULL: the parent of a root edge, an unknown discovered_via
  Call,         \* calls of register_relation and declare_source_change
  NoCall,
  MaxEdges,     \* bound on the edges stored
  MaxUpdates    \* bound on the calls that write on stored edges or headers

ASSUME NoSupplierAssumption == NoSupplier \notin Supplier
ASSUME BoundAssumption == MaxEdges \in Nat /\ MaxUpdates \in Nat
ASSUME FiniteAssumption == IsFiniteSet(Supplier)   \* so that its walks end

VARIABLES
  edges,     \* supply_chain_map, in order of insertion
  header,    \* supply_chain_maps.status of a BOM version
  call,      \* what a call has checked and not yet inserted
  hung,      \* calls whose cycle check does not return
  missing,   \* suppliers that lack a mandatory field
  notice,    \* has the owner been told that the map is ready?
  updates

vars == <<edges, header, call, hung, missing, notice, updates>>

Relation ==
  [kind : {"register", "declare"}, bom : Bom, parent : Supplier \cup {NoSupplier},
   child : Supplier, part : Part]

\* supply_chain_map, less the columns nothing reads.  "fresh" is not stored:
\* was the map at the insertion still the one the cycle check saw?
Edge ==
  [bom : Bom, parent : Supplier \cup {NoSupplier}, child : Supplier, part : Part,
   hop : Nat, via : Supplier \cup {NoSupplier}, confirmed : BOOLEAN,
   verified : BOOLEAN, fresh : BOOLEAN]

Init ==
  /\ edges = <<>>
  /\ header = [b \in Bom |-> "none"]
  /\ call = [c \in Call |-> NoCall]
  /\ hung = {}
  /\ missing = Supplier
  /\ notice = FALSE
  /\ updates = 0

-----------------------------------------------------------------------------
(* Walking the map *)

Edges == DOMAIN edges

Children(S) == {edges[i].child : i \in {j \in Edges : edges[j].parent \in S}}

\* would_create_cycle walks all maps down from the new child ...
Descendants(s) ==
  LET D[n \in Nat] == IF n = 0 THEN Children({s})
                               ELSE D[n - 1] \cup Children(D[n - 1])
  IN  D[Cardinality(Supplier)]

DirectChildren(p, c) == p \in Children({c})   \* mutant: the walk stops at once

Upwards(p, c) == c \in Descendants(p)   \* mutant: the walk starts at the parent

WouldCreateCycle(p, c) == p \in Descendants(c)

\* ... with UNION ALL and no path: a cycle on the way is walked for ever, unless
\* the parent turns up and ends the EXISTS.
NeverReturns(p, c) ==
  /\ ~WouldCreateCycle(p, c)
  /\ \E s \in {c} \cup Descendants(c) : s \in Descendants(s)

\* get_n_tier_supply_chain: a path goes on to the edges one hop further in the
\* same map, and ends where it meets a supplier and part again.
Follows(i, p) ==
  LET last == edges[p[Len(p)]] IN
  /\ edges[i].parent = last.child
  /\ edges[i].bom = last.bom
  /\ edges[i].hop = last.hop + 1
  /\ \A k \in 1..(Len(p) - 1) :
       <<edges[p[k]].child, edges[p[k]].part>> # <<last.child, last.part>>

Paths ==
  LET P[n \in Nat] ==
        IF n = 0 THEN {<<i>> : i \in {j \in Edges : edges[j].parent = NoSupplier}}
        ELSE {Append(x[1], x[2]) : x \in {y \in P[n - 1] \X Edges : Follows(y[2], y[1])}}
  IN  UNION {P[n] : n \in 0..Len(edges)}

Tree == {p[Len(p)] : p \in Paths}

\* get_supply_chain_map lists the edges of the BOM version, however they hang ...
MapRows(b) == {i \in Edges : edges[i].bom = b}

SharesOfAnchors(b) ==   \* mutant: the rows of the recursion are left out
  {p[1] : p \in {q \in Paths : Len(q) = 1 /\ edges[q[1]].bom = b}}

\* ... and beside them the contributions, which walk like the tree and leave out
\* the row that meets a supplier and part again.
Shares(b) ==
  LET Closes(p) == \E k \in 1..(Len(p) - 1) :
        /\ edges[p[k]].child = edges[p[Len(p)]].child
        /\ edges[p[k]].part = edges[p[Len(p)]].part
  IN  {p[Len(p)] : p \in {q \in Paths : edges[q[1]].bom = b /\ ~ Closes(q)}}

RootAnchors == Children({NoSupplier})

OneTierOfNodes == RootAnchors \cup Children(RootAnchors)   \* mutant: no recursion

\* get_supplier_field_data, with a guard on the path; hop and map do not matter.
GapNodes == RootAnchors \cup UNION {Descendants(s) : s \in RootAnchors}

\* get_validation_summary; no code but the seed writes supply_ratio, and a map
\* without ratios passes their check.
ReadyForFinal ==
  LET suppliers == GapNodes \ RootAnchors
  IN  suppliers # {} /\ suppliers \cap missing = {}

-----------------------------------------------------------------------------
(* register_relation, declare_source_change *)

Pending == {c \in Call : call[c] # NoCall}

\* Only a registration compares the two, only a registration has a root.
RegisterAccepts(r) == r.kind = "register" /\ r.parent # r.child
DeclareAccepts(r) == r.kind = "declare" /\ r.parent # NoSupplier

Checks(c, r) ==
  /\ call[c] = NoCall /\ c \notin hung
  /\ Len(edges) + Cardinality(Pending) < MaxEdges
  /\ RegisterAccepts(r) \/ DeclareAccepts(r)
  /\ ~WouldCreateCycle(r.parent, r.child)
  /\ IF r.parent # NoSupplier /\ NeverReturns(r.parent, r.child)
       THEN hung' = hung \cup {c} /\ UNCHANGED call
       ELSE /\ call' = [call EXCEPT ![c] = [relation |-> r, saw |-> Len(edges)]]
            /\ UNCHANGED hung
  /\ UNCHANGED <<edges, header, missing, notice, updates>>

ParentHops(r) ==
  {edges[i].hop : i \in {j \in Edges : edges[j].child = r.parent /\ edges[j].bom = r.bom}}

HopsFromOne(r) ==   \* mutant: the parent of a root is looked up like any other
  IF ParentHops(r) = {} THEN {1}
  ELSE {h + 1 : h \in {g \in ParentHops(r) :
          r.kind = "register" => \A k \in ParentHops(r) : g <= k}}

HopsUnknown(r) ==   \* mutant: a registration starts below the root
  IF r.parent = NoSupplier THEN {0} ELSE {1}

\* A registration takes the lowest edge into the parent, a declaration any.
Hops(r) ==
  IF r.parent = NoSupplier THEN {0}
  ELSE IF ParentHops(r) = {} THEN {1}
  ELSE {h + 1 : h \in {g \in ParentHops(r) :
          r.kind = "register" => \A k \in ParentHops(r) : g <= k}}

\* _ensure_map_header, create_supply_relation or declare_new_source, commit.
Inserts(c) ==
  /\ call[c] # NoCall
  /\ LET r == call[c].relation IN
     /\ \E h \in Hops(r) :
          edges' = Append(edges,
            [bom |-> r.bom, parent |-> r.parent, child |-> r.child, part |-> r.part,
             hop |-> h, via |-> IF r.kind = "declare" THEN r.parent ELSE NoSupplier,
             confirmed |-> FALSE, verified |-> FALSE,
             fresh |-> call[c].saw = Len(edges)])
     /\ header' = [header EXCEPT ![r.bom] = IF @ = "none" THEN "building" ELSE @]
  /\ call' = [call EXCEPT ![c] = NoCall]
  /\ UNCHANGED <<hung, missing, notice, updates>>

-----------------------------------------------------------------------------
(* What is written on stored edges *)

Update(S, new(_)) ==
  /\ updates < MaxUpdates
  /\ updates' = updates + 1
  /\ edges' = [i \in Edges |-> IF i \in S THEN new(edges[i]) ELSE edges[i]]
  /\ UNCHANGED <<header, call, hung, missing, notice>>

\* supplychain_record_discovered_via: SupplierInvited, delivered once or more
RecordDiscoveredVia(inviter, invitee) ==
  Update({i \in Edges : edges[i].child = invitee /\ edges[i].via = NoSupplier},
         LAMBDA e : [e EXCEPT !.via = inviter])

SetSupplierVerification(b, s, v) ==
  Update({i \in Edges : edges[i].bom = b /\ edges[i].child = s},
         LAMBDA e : [e EXCEPT !.verified = v])

ConfirmMap(i) == Update({i}, LAMBDA e : [e EXCEPT !.confirmed = TRUE])

\* The first tier is the hop_level, whatever the parent is.
ConfirmPool(b, S) ==
  Update({i \in Edges : edges[i].bom = b /\ edges[i].hop = 1 /\ edges[i].child \in S},
         LAMBDA e : [e EXCEPT !.confirmed = TRUE])

SetMapStatus(b, status) ==
  /\ updates < MaxUpdates
  /\ updates' = updates + 1
  /\ header[b] # "none"
  /\ header' = [header EXCEPT ![b] = status]
  /\ UNCHANGED <<edges, call, hung, missing, notice>>

-----------------------------------------------------------------------------
(* Completeness *)

\* A supplier hands in its mandatory fields.
FieldsArrive(s) ==
  /\ missing' = missing \ {s}
  /\ UNCHANGED <<edges, header, call, hung, notice, updates>>

NotifiesUnready ==   \* mutant: the judgement is not looked at
  /\ GapNodes # {}
  /\ notice' = TRUE
  /\ UNCHANGED <<edges, header, call, hung, missing, updates>>

\* notify_final_validation_ready, after an event that the graph has finished;
\* the key of the notice names the map, so that it is sent once.
NotifyFinalValidationReady ==
  /\ ReadyForFinal
  /\ notice' = TRUE
  /\ UNCHANGED <<edges, header, call, hung, missing, updates>>

-----------------------------------------------------------------------------
Next ==
  \/ \E c \in Call : Inserts(c) \/ \E r \in Relation : Checks(c, r)
  \/ \E s, t \in Supplier : RecordDiscoveredVia(s, t)
  \/ \E b \in Bom :
       \/ \E s \in Supplier, v \in BOOLEAN : SetSupplierVerification(b, s, v)
       \/ \E S \in SUBSET Supplier : ConfirmPool(b, S)
       \/ \E status \in {"building", "completed"} : SetMapStatus(b, status)
  \/ \E i \in Edges : ConfirmMap(i)
  \/ \E s \in Supplier : FieldsArrive(s)
  \/ NotifyFinalValidationReady

Spec == Init /\ [][Next]_vars

-----------------------------------------------------------------------------
(* Properties *)

\* Every variable has its type.
TypeOK ==
  /\ edges \in Seq(Edge)
  /\ header \in [Bom -> {"none", "building", "completed"}]
  /\ call \in [Call -> [relation : Relation, saw : Nat] \cup {NoCall}]
  /\ hung \in SUBSET Call
  /\ missing \in SUBSET Supplier
  /\ notice \in BOOLEAN
  /\ updates \in 0..MaxUpdates

\* Whoever registers or declares, in whatever order: an edge below the first
\* tier hangs on an edge of its own map that is one hop higher, only root edges
\* have hop 0, and every edge belongs to a map with a header.
HopIsContinuous ==
  \A i \in Edges :
    /\ edges[i].hop = 0 <=> edges[i].parent = NoSupplier
    /\ edges[i].hop > 1 =>
         \E j \in Edges : /\ edges[j].bom = edges[i].bom
                          /\ edges[j].child = edges[i].parent
                          /\ edges[j].hop + 1 = edges[i].hop
    /\ header[edges[i].bom] # "none"

Acyclic == \A s \in Supplier : s \notin Descendants(s)

\* A cycle takes two calls that overlap, or a declaration that names its own
\* supplier: the check, alone, lets no cycle of any length in.
CyclesNeedOverlap ==
  (\A i \in Edges : edges[i].fresh /\ edges[i].parent # edges[i].child) => Acyclic

\* No call is caught in the endless walk of a cycle check but after calls that
\* overlapped, or after a declaration that named its own supplier: registered and
\* declared one after the other, every check there will be returns.
HangsTakeOverlap ==
  hung # {} => \E i \in Edges : ~ edges[i].fresh \/ edges[i].parent = edges[i].child

\* Was there, at its insertion, an edge for this one to hang on?
Orderly(i) ==
  \/ edges[i].parent = NoSupplier
  \/ \E j \in 1..(i - 1) :
       edges[j].bom = edges[i].bom /\ edges[j].child = edges[i].parent

\* A call whose check has seen the whole map, as it is stored, closes no cycle.
ChecksHold ==
  \A c \in Call : call[c] # NoCall =>
    /\ call[c].saw <= Len(edges)
    /\ call[c].saw = Len(edges) =>
         ~WouldCreateCycle(call[c].relation.parent, call[c].relation.child)

\* A map without a cycle that was registered from the root down is shown whole,
\* though two calls compute hop_level differently and a supplier may supply at
\* several hops.
OrderlyMapIsShown == Acyclic /\ (\A i \in Edges : Orderly(i)) => Tree = Edges

\* An edge that was inserted below another hangs, one hop lower, on an edge; and
\* no edge lies lower than the edges before it allow.
OrderlyHangs ==
  \A i \in Edges :
    /\ edges[i].hop <= i
    /\ Orderly(i) /\ edges[i].parent # NoSupplier =>
         \E j \in Edges : /\ edges[j].bom = edges[i].bom
                          /\ edges[j].child = edges[i].parent
                          /\ edges[j].hop + 1 = edges[i].hop

MapInv == TypeOK /\ HopIsContinuous

\* The inductive invariant, to which CyclesNeedOverlap adds itself.
ChainInv == MapInv /\ ChecksHold /\ OrderlyHangs

\* Every edge that the map lists and the tree shows has its contribution, unless
\* its supplier lies on a cycle: the two recursions stop at a cycle differently.
MapIsWeighed ==
  \A b \in Bom : \A i \in (Tree \cap MapRows(b)) \ Shares(b) :
    edges[i].child \in Descendants(edges[i].child)

\* Whatever the tree shows is looked at for gaps: the two queries walk the map
\* by different rules.
TreeIsChecked == {edges[i].child : i \in Tree} \subseteq GapNodes

\* The walks of the map agree where one relies on another: nothing that is shown
\* lacks its contribution or is left out of the gap check.
WalksAgree == MapIsWeighed /\ TreeIsChecked

\* The owner is told only of a map in which no supplier below the root that the
\* tree shows lacks a field.
NoticeIsEarned ==
  [][notice' # notice =>
       {edges[i].child : i \in Tree} \cap missing \subseteq RootAnchors]_vars
=============================================================================
