-------------------------- MODULE SupplyChain_proofs --------------------------
(***************************************************************************)
(* The inductive invariant of SupplyChain, for any number of suppliers,    *)
(* parts, BOM versions, calls and edges.  hop_level is written once, from  *)
(* the edges that are there, and edges are neither removed nor moved: an   *)
(* edge one hop higher, once found, stays.                                 *)
(*                                                                         *)
(* A walk down the map is a recursion over as many rounds as there are     *)
(* suppliers: it is the least set that the edges lead out of no more.      *)
(* That is all the proofs use of it, and a path is all they use of the     *)
(* tree.                                                                   *)
(***************************************************************************)
EXTENDS SupplyChain, Recursion, TLAPS

\* What a step of the map does to it: stored edges keep what places them, and
\* headers that exist stay.
Keeps ==
  /\ Edges \subseteq DOMAIN edges'
  /\ \A i \in Edges :
       /\ edges'[i].bom = edges[i].bom
       /\ edges'[i].parent = edges[i].parent
       /\ edges'[i].child = edges[i].child
       /\ edges'[i].hop = edges[i].hop
  /\ \A b \in Bom : header[b] # "none" => header'[b] # "none"

\* The part of HopIsContinuous that speaks of one edge.
Hangs(i) ==
  /\ edges[i].hop = 0 <=> edges[i].parent = NoSupplier
  /\ edges[i].hop > 1 =>
       \E j \in Edges : /\ edges[j].bom = edges[i].bom
                        /\ edges[j].child = edges[i].parent
                        /\ edges[j].hop + 1 = edges[i].hop
  /\ header[edges[i].bom] # "none"

\* A stored edge that hung on another still does.
LEMMA StoredEdgesHang ==
  ASSUME TypeOK, Keeps, NEW i \in Edges, Hangs(i)
  PROVE  Hangs(i)'
<1>1. /\ i \in DOMAIN edges'
      /\ edges'[i].hop = edges[i].hop
      /\ edges'[i].parent = edges[i].parent
      /\ edges'[i].bom = edges[i].bom
  BY DEF Keeps
<1>2. edges[i].bom \in Bom
  <2>1. edges[i] \in Edge
    BY DEF TypeOK, Edges
  <2> QED
    BY <2>1 DEF Edge
<1>3. header'[edges'[i].bom] # "none"
  BY <1>1, <1>2 DEF Keeps, Hangs
<1>4. ASSUME edges[i].hop > 1
      PROVE  \E j \in DOMAIN edges' : /\ edges'[j].bom = edges'[i].bom
                                      /\ edges'[j].child = edges'[i].parent
                                      /\ edges'[j].hop + 1 = edges'[i].hop
  <2>1. PICK j \in Edges : /\ edges[j].bom = edges[i].bom
                           /\ edges[j].child = edges[i].parent
                           /\ edges[j].hop + 1 = edges[i].hop
    BY <1>4 DEF Hangs
  <2>2. j \in DOMAIN edges'
    BY DEF Keeps
  <2> QED
    BY <1>1, <2>1, <2>2 DEF Keeps
<1> QED
  BY <1>1, <1>3, <1>4 DEF Hangs, Edges

\* Writing new columns N[i] on the stored edges of S, where N keeps what places
\* an edge.
LEMMA UpdateStep ==
  ASSUME MapInv, NEW S, NEW N \in [Edges -> Edge],
         \A i \in Edges : /\ N[i].bom = edges[i].bom
                          /\ N[i].parent = edges[i].parent
                          /\ N[i].child = edges[i].child
                          /\ N[i].hop = edges[i].hop,
         edges' = [i \in Edges |-> IF i \in S THEN N[i] ELSE edges[i]],
         updates < MaxUpdates, updates' = updates + 1,
         UNCHANGED <<header, call, hung, missing, notice>>
  PROVE  MapInv'
<1>1. /\ edges \in Seq(Edge)
      /\ \A i \in Edges : edges[i] \in Edge
      /\ Edges = 1..Len(edges)
      /\ Len(edges) \in Nat
  BY DEF MapInv, TypeOK, Edges
<1>2. edges' \in [1..Len(edges) -> Edge]
  BY <1>1
<1>3. edges' \in Seq(Edge) /\ DOMAIN edges' = Edges
  BY <1>1, <1>2
<1>4. TypeOK'
  BY <1>3, BoundAssumption DEF MapInv, TypeOK
<1>5. Keeps
  BY <1>3 DEF Keeps
<1>6. \A i \in Edges : Hangs(i)'
  BY <1>5, StoredEdgesHang DEF MapInv, HopIsContinuous, Hangs
<1>7. HopIsContinuous'
  BY <1>3, <1>6 DEF HopIsContinuous, Hangs, Edges
<1> QED BY <1>4, <1>7 DEF MapInv

\* One edge more, hung on an edge of its map, with the header in place.
LEMMA AppendStep ==
  ASSUME MapInv, NEW e \in Edge,
         edges' = Append(edges, e),
         header' = [header EXCEPT ![e.bom] = IF @ = "none" THEN "building" ELSE @],
         e.hop = 0 <=> e.parent = NoSupplier,
         e.hop > 1 => \E j \in Edges : /\ edges[j].bom = e.bom
                                       /\ edges[j].child = e.parent
                                       /\ edges[j].hop + 1 = e.hop
  PROVE  HopIsContinuous'
<1>1. /\ DOMAIN edges' = Edges \cup {Len(edges) + 1}
      /\ \A i \in Edges : edges'[i] = edges[i]
      /\ edges'[Len(edges) + 1] = e
  BY DEF MapInv, TypeOK, Edges
<1>2. \A b \in Bom : header[b] # "none" => header'[b] # "none"
  BY DEF MapInv, TypeOK
<1>3. Keeps
  BY <1>1, <1>2 DEF Keeps
<1>4. \A i \in Edges : Hangs(i)'
  BY <1>3, StoredEdgesHang DEF MapInv, HopIsContinuous, Hangs
<1>5. header'[e.bom] # "none"
  BY DEF MapInv, TypeOK, Edge
<1>6. PICK n : n = Len(edges) + 1
  OBVIOUS
<1>7. Hangs(n)'
  BY <1>1, <1>5, <1>6 DEF Hangs, Edges
<1>8. \A i \in DOMAIN edges' : Hangs(i)'
  BY <1>1, <1>4, <1>6, <1>7
<1> QED
  BY <1>8 DEF HopIsContinuous, Hangs, Edges

\* The hop of a new edge is 0 for a root, and else one more than an edge's that
\* it hangs on, or 1.
LEMMA HopsHang ==
  ASSUME MapInv, NEW r \in Relation, NEW h \in Hops(r)
  PROVE  /\ h \in Nat
         /\ h = 0 <=> r.parent = NoSupplier
         /\ h > 1 => \E j \in Edges : /\ edges[j].bom = r.bom
                                      /\ edges[j].child = r.parent
                                      /\ edges[j].hop + 1 = h
<1>1. \A j \in Edges : edges[j].hop \in Nat
  <2>1. \A j \in Edges : edges[j] \in Edge
    BY DEF MapInv, TypeOK, Edges
  <2> QED
    BY <2>1 DEF Edge
<1>2. CASE r.parent = NoSupplier
  BY <1>2 DEF Hops
<1>3. CASE r.parent # NoSupplier /\ ParentHops(r) = {}
  BY <1>3 DEF Hops
<1>4. CASE r.parent # NoSupplier /\ ParentHops(r) # {}
  <2>1. PICK g \in ParentHops(r) : h = g + 1
    BY <1>4 DEF Hops
  <2>2. PICK j \in Edges : /\ edges[j].child = r.parent
                           /\ edges[j].bom = r.bom
                           /\ g = edges[j].hop
    BY <2>1 DEF ParentHops
  <2> QED
    BY <1>1, <1>4, <2>1, <2>2
<1> QED
  BY <1>2, <1>3, <1>4

LEMMA InsertsStep ==
  ASSUME MapInv, NEW c \in Call, Inserts(c)
  PROVE  MapInv'
<1> DEFINE r == call[c].relation
<1>1. r \in Relation
  BY DEF Inserts, MapInv, TypeOK
<1>2. PICK h \in Hops(r) :
        edges' = Append(edges,
            [bom |-> r.bom, parent |-> r.parent, child |-> r.child, part |-> r.part,
             hop |-> h, via |-> IF r.kind = "declare" THEN r.parent ELSE NoSupplier,
             confirmed |-> FALSE, verified |-> FALSE,
             fresh |-> call[c].saw = Len(edges)])
  BY DEF Inserts
<1> DEFINE e == [bom |-> r.bom, parent |-> r.parent, child |-> r.child, part |-> r.part,
             hop |-> h, via |-> IF r.kind = "declare" THEN r.parent ELSE NoSupplier,
             confirmed |-> FALSE, verified |-> FALSE,
             fresh |-> call[c].saw = Len(edges)]
<1>3. /\ h \in Nat
      /\ h = 0 <=> r.parent = NoSupplier
      /\ h > 1 => \E j \in Edges : /\ edges[j].bom = r.bom
                                   /\ edges[j].child = r.parent
                                   /\ edges[j].hop + 1 = h
  BY <1>1, HopsHang
<1>4. e \in Edge
  BY <1>1, <1>3 DEF Edge, Relation
<1>5. header' = [header EXCEPT ![r.bom] = IF @ = "none" THEN "building" ELSE @]
  BY DEF Inserts
<1>6. HopIsContinuous'
  <2>1. e.bom = r.bom /\ e.parent = r.parent /\ e.hop = h
    OBVIOUS
  <2>2. edges' = Append(edges, e)
    BY <1>2
  <2> HIDE DEF e, r
  <2> QED
    BY <1>3, <1>4, <1>5, <2>1, <2>2, AppendStep
<1>7. TypeOK'
  <2>1. edges' \in Seq(Edge)
    BY <1>2, <1>4 DEF MapInv, TypeOK
  <2>2. header' \in [Bom -> {"none", "building", "completed"}]
    BY <1>5 DEF MapInv, TypeOK
  <2> QED
    BY <2>1, <2>2 DEF MapInv, TypeOK, Inserts
<1> QED
  BY <1>6, <1>7 DEF MapInv

\* A step that leaves edges and headers alone.
LEMMA OtherStep ==
  ASSUME MapInv, UNCHANGED <<edges, header>>, TypeOK'
  PROVE  MapInv'
BY DEF MapInv, HopIsContinuous, Edges

LEMMA NextKeepsMapInv == MapInv /\ [Next]_vars => MapInv'
<1> SUFFICES ASSUME MapInv, [Next]_vars PROVE MapInv'
  OBVIOUS
<1>0. \A i \in Edges : edges[i] \in Edge
  BY DEF MapInv, TypeOK, Edges
<1>1. ASSUME NEW c \in Call, Inserts(c) PROVE MapInv'
  BY <1>1, InsertsStep
<1>2. ASSUME NEW c \in Call, NEW r \in Relation, Checks(c, r) PROVE MapInv'
  <2>1. Len(edges) \in Nat
    BY DEF MapInv, TypeOK
  <2>2. TypeOK'
    BY <1>2, <2>1 DEF MapInv, TypeOK, Checks
  <2> QED
    BY <1>2, <2>2, OtherStep DEF Checks
<1>3. ASSUME NEW s \in Supplier, NEW t \in Supplier, RecordDiscoveredVia(s, t) PROVE MapInv'
  <2> DEFINE N == [i \in Edges |-> [edges[i] EXCEPT !.via = s]]
  <2>1. N \in [Edges -> Edge]
    BY <1>0 DEF Edge
  <2>2. \A i \in Edges : /\ N[i].bom = edges[i].bom
                         /\ N[i].parent = edges[i].parent
                         /\ N[i].child = edges[i].child
                         /\ N[i].hop = edges[i].hop
    BY <1>0 DEF Edge
  <2>3. \A S : edges' = [i \in Edges |-> IF i \in S THEN [edges[i] EXCEPT !.via = s] ELSE edges[i]]
                => edges' = [i \in Edges |-> IF i \in S THEN N[i] ELSE edges[i]]
    OBVIOUS
  <2>4. \E S : edges' = [i \in Edges |-> IF i \in S THEN N[i] ELSE edges[i]]
    BY <1>3, <2>3 DEF RecordDiscoveredVia, Update
  <2>5. /\ updates < MaxUpdates /\ updates' = updates + 1
        /\ UNCHANGED <<header, call, hung, missing, notice>>
    BY <1>3 DEF RecordDiscoveredVia, Update
  <2> HIDE DEF N
  <2> QED
    BY <2>1, <2>2, <2>4, <2>5, UpdateStep
<1>4. ASSUME NEW b \in Bom, NEW s \in Supplier, NEW v \in BOOLEAN, SetSupplierVerification(b, s, v) PROVE MapInv'
  <2> DEFINE N == [i \in Edges |-> [edges[i] EXCEPT !.verified = v]]
  <2>1. N \in [Edges -> Edge]
    BY <1>0 DEF Edge
  <2>2. \A i \in Edges : /\ N[i].bom = edges[i].bom
                         /\ N[i].parent = edges[i].parent
                         /\ N[i].child = edges[i].child
                         /\ N[i].hop = edges[i].hop
    BY <1>0 DEF Edge
  <2>3. \A S : edges' = [i \in Edges |-> IF i \in S THEN [edges[i] EXCEPT !.verified = v] ELSE edges[i]]
                => edges' = [i \in Edges |-> IF i \in S THEN N[i] ELSE edges[i]]
    OBVIOUS
  <2>4. \E S : edges' = [i \in Edges |-> IF i \in S THEN N[i] ELSE edges[i]]
    BY <1>4, <2>3 DEF SetSupplierVerification, Update
  <2>5. /\ updates < MaxUpdates /\ updates' = updates + 1
        /\ UNCHANGED <<header, call, hung, missing, notice>>
    BY <1>4 DEF SetSupplierVerification, Update
  <2> HIDE DEF N
  <2> QED
    BY <2>1, <2>2, <2>4, <2>5, UpdateStep
<1>5. ASSUME NEW i0 \in Edges, ConfirmMap(i0) PROVE MapInv'
  <2> DEFINE N == [i \in Edges |-> [edges[i] EXCEPT !.confirmed = TRUE]]
  <2>1. N \in [Edges -> Edge]
    BY <1>0 DEF Edge
  <2>2. \A i \in Edges : /\ N[i].bom = edges[i].bom
                         /\ N[i].parent = edges[i].parent
                         /\ N[i].child = edges[i].child
                         /\ N[i].hop = edges[i].hop
    BY <1>0 DEF Edge
  <2>3. \A S : edges' = [i \in Edges |-> IF i \in S THEN [edges[i] EXCEPT !.confirmed = TRUE] ELSE edges[i]]
                => edges' = [i \in Edges |-> IF i \in S THEN N[i] ELSE edges[i]]
    OBVIOUS
  <2>4. \E S : edges' = [i \in Edges |-> IF i \in S THEN N[i] ELSE edges[i]]
    BY <1>5, <2>3 DEF ConfirmMap, Update
  <2>5. /\ updates < MaxUpdates /\ updates' = updates + 1
        /\ UNCHANGED <<header, call, hung, missing, notice>>
    BY <1>5 DEF ConfirmMap, Update
  <2> HIDE DEF N
  <2> QED
    BY <2>1, <2>2, <2>4, <2>5, UpdateStep
<1>6. ASSUME NEW b \in Bom, NEW T \in SUBSET Supplier, ConfirmPool(b, T) PROVE MapInv'
  <2> DEFINE N == [i \in Edges |-> [edges[i] EXCEPT !.confirmed = TRUE]]
  <2>1. N \in [Edges -> Edge]
    BY <1>0 DEF Edge
  <2>2. \A i \in Edges : /\ N[i].bom = edges[i].bom
                         /\ N[i].parent = edges[i].parent
                         /\ N[i].child = edges[i].child
                         /\ N[i].hop = edges[i].hop
    BY <1>0 DEF Edge
  <2>3. \A S : edges' = [i \in Edges |-> IF i \in S THEN [edges[i] EXCEPT !.confirmed = TRUE] ELSE edges[i]]
                => edges' = [i \in Edges |-> IF i \in S THEN N[i] ELSE edges[i]]
    OBVIOUS
  <2>4. \E S : edges' = [i \in Edges |-> IF i \in S THEN N[i] ELSE edges[i]]
    BY <1>6, <2>3 DEF ConfirmPool, Update
  <2>5. /\ updates < MaxUpdates /\ updates' = updates + 1
        /\ UNCHANGED <<header, call, hung, missing, notice>>
    BY <1>6 DEF ConfirmPool, Update
  <2> HIDE DEF N
  <2> QED
    BY <2>1, <2>2, <2>4, <2>5, UpdateStep
<1>7. ASSUME NEW b \in Bom, NEW st \in {"building", "completed"}, SetMapStatus(b, st)
      PROVE MapInv'
  <2>1. TypeOK'
    BY <1>7, BoundAssumption DEF MapInv, TypeOK, SetMapStatus
  <2>2. edges' = edges /\ \A a \in Bom : header[a] # "none" => header'[a] # "none"
    BY <1>7 DEF MapInv, TypeOK, SetMapStatus
  <2>3. HopIsContinuous'
    BY <1>0, <2>2 DEF MapInv, HopIsContinuous, Edges, Edge
  <2> QED
    BY <2>1, <2>3 DEF MapInv
<1>8. ASSUME NEW s \in Supplier, FieldsArrive(s) PROVE MapInv'
  <2>1. TypeOK'
    BY <1>8 DEF MapInv, TypeOK, FieldsArrive
  <2> QED
    BY <1>8, <2>1, OtherStep DEF FieldsArrive
<1>9. CASE NotifyFinalValidationReady
  <2>1. TypeOK'
    BY <1>9 DEF MapInv, TypeOK, NotifyFinalValidationReady
  <2> QED
    BY <1>9, <2>1, OtherStep DEF NotifyFinalValidationReady
<1>10. CASE UNCHANGED vars
  <2>1. TypeOK'
    BY <1>10 DEF MapInv, TypeOK, vars
  <2> QED
    BY <1>10, <2>1, OtherStep DEF vars
<1> QED
  BY <1>1, <1>2, <1>3, <1>4, <1>5, <1>6, <1>7, <1>8, <1>9, <1>10 DEF Next

\* At the start the map is empty.
LEMMA InitMap == Init => MapInv
<1> SUFFICES ASSUME Init PROVE MapInv
  OBVIOUS
<1>1. edges \in Seq(Edge) /\ Edges = {}
  BY DEF Init, Edges
<1>2. TypeOK
  <2>1. updates \in 0..MaxUpdates
    BY BoundAssumption DEF Init
  <2>2. /\ header \in [Bom -> {"none", "building", "completed"}]
        /\ call \in [Call -> [relation : Relation, saw : Nat] \cup {NoCall}]
    BY DEF Init
  <2> QED
    BY <1>1, <2>1, <2>2 DEF Init, TypeOK
<1> QED
  BY <1>1, <1>2 DEF MapInv, HopIsContinuous

\* Every edge below the first tier hangs on an edge one hop higher in its map.
LEMMA MapInvariant == Spec => []MapInv
BY InitMap, NextKeepsMapInv, PTL DEF Spec

-----------------------------------------------------------------------------
(* What a walk down the map returns *)

\* What the recursive query returns is closed under the edges of the map, and
\* is the least such set.
Closes(s) ==
  /\ Descendants(s) \subseteq Supplier
  /\ Children({s}) \subseteq Descendants(s)
  /\ Children(Descendants(s)) \subseteq Descendants(s)
  /\ \A X \in SUBSET Supplier :
       Children({s}) \subseteq X /\ Children(X) \subseteq X => Descendants(s) \subseteq X

\* An edge leads to a supplier.
LEMMA ChildrenAreSuppliers == TypeOK => \A S : Children(S) \in SUBSET Supplier
<1> SUFFICES ASSUME TypeOK, NEW S PROVE Children(S) \in SUBSET Supplier
  OBVIOUS
<1>1. \A i \in Edges : edges[i] \in Edge
  BY DEF TypeOK, Edges
<1> QED BY <1>1 DEF Children, Edge

\* The function that Descendants defines by recursion.
LEMMA DescendantsUnroll ==
  ASSUME TypeOK, NEW s
  PROVE  \E D \in [Nat -> SUBSET Supplier] :
           /\ D[0] = Children({s})
           /\ \A n \in Nat : D[n + 1] = D[n] \cup Children(D[n])
           /\ Descendants(s) = D[Cardinality(Supplier)]
<1> DEFINE Start == Children({s})
           Step == [X \in SUBSET Supplier |-> X \cup Children(X)]
           D == CHOOSE f : f = [n \in Nat |-> IF n = 0 THEN Start
                                              ELSE f[n - 1] \cup Children(f[n - 1])]
<1>1. Descendants(s) = D[Cardinality(Supplier)]
  BY DEF Descendants
<1>2. Start \in SUBSET Supplier /\ Step \in [SUBSET Supplier -> SUBSET Supplier]
  BY ChildrenAreSuppliers
<1>3. \A X \in SUBSET Supplier : Step[X] = X \cup Children(X)
  OBVIOUS
<1> HIDE DEF Start, Step
<1>4. PICK g \in [Nat -> SUBSET Supplier] :
        g[0] = Start /\ \A n \in Nat : g[n + 1] = Step[g[n]]
  <2> DEFINE T == SUBSET Supplier
  <2>1. Start \in T /\ Step \in [T -> T]
    BY <1>2
  <2> HIDE DEF T
  <2>2. \E g \in [Nat -> T] : g[0] = Start /\ \A n \in Nat : g[n + 1] = Step[g[n]]
    BY <2>1, Iteration
  <2> QED BY <2>2 DEF T
<1>5. g = [n \in Nat |-> IF n = 0 THEN Start ELSE g[n - 1] \cup Children(g[n - 1])]
  <2>1. ASSUME NEW n \in Nat, n # 0 PROVE g[n] = g[n - 1] \cup Children(g[n - 1])
    <3>1. n - 1 \in Nat /\ (n - 1) + 1 = n
      BY <2>1
    <3>2. g[(n - 1) + 1] = Step[g[n - 1]] /\ g[n - 1] \in SUBSET Supplier
      BY <1>4, <3>1
    <3> QED BY <1>3, <3>1, <3>2
  <2> QED BY <1>4, <2>1
<1>6. D = [n \in Nat |-> IF n = 0 THEN Start ELSE D[n - 1] \cup Children(D[n - 1])]
  BY <1>5
<1> HIDE DEF D
<1>7. D[0] = Start /\ \A n \in Nat : D[n + 1] = D[n] \cup Children(D[n])
  <2>1. ASSUME NEW n \in Nat PROVE D[n + 1] = D[n] \cup Children(D[n])
    <3>1. n + 1 \in Nat /\ n + 1 # 0 /\ (n + 1) - 1 = n
      OBVIOUS
    <3> QED BY <1>6, <3>1
  <2> QED BY <1>6, <2>1
<1>8. D \in [Nat -> SUBSET Supplier]
  <2> DEFINE S == {n \in Nat : D[n] \in SUBSET Supplier}
  <2>1. 0 \in S
    BY <1>2, <1>7
  <2>2. ASSUME NEW n \in Nat, n \in S PROVE n + 1 \in S
    BY <1>7, <2>2, ChildrenAreSuppliers
  <2> HIDE DEF S
  <2>3. Nat \subseteq S
    BY <2>1, <2>2, SetInduction
  <2> QED BY <1>6, <2>3 DEF S
<1> QED BY <1>1, <1>7, <1>8 DEF Start

\* The rounds of the recursion grow, stop growing once they pause, and have all
\* the suppliers to grow into.
LEMMA WalkCloses == TypeOK => \A s \in Supplier : Closes(s)
<1> SUFFICES ASSUME TypeOK, NEW s \in Supplier PROVE Closes(s)
  OBVIOUS
<1>1. PICK D \in [Nat -> SUBSET Supplier] :
        /\ D[0] = Children({s})
        /\ \A n \in Nat : D[n + 1] = D[n] \cup Children(D[n])
        /\ Descendants(s) = D[Cardinality(Supplier)]
  BY DescendantsUnroll
<1> DEFINE N == Cardinality(Supplier)
<1>2. N \in Nat /\ D[0] \subseteq D[N] /\ D[N + 1] = D[N]
  <2>1. \A n \in Nat : D[n] \subseteq D[n + 1]
    BY <1>1
  <2>2. ASSUME NEW n \in Nat, D[n + 1] = D[n] PROVE D[(n + 1) + 1] = D[n + 1]
    <3>1. n + 1 \in Nat
      OBVIOUS
    <3>2. /\ D[(n + 1) + 1] = D[n + 1] \cup Children(D[n + 1])
          /\ D[n + 1] = D[n] \cup Children(D[n])
      BY <1>1, <3>1
    <3> QED BY <2>2, <3>2
  <2> QED BY <2>1, <2>2, FiniteAssumption, Saturation
<1> HIDE DEF N
<1>3. ASSUME NEW X \in SUBSET Supplier, Children({s}) \subseteq X, Children(X) \subseteq X
      PROVE  D[N] \subseteq X
  <2> DEFINE S == {n \in Nat : D[n] \subseteq X}
  <2>1. 0 \in S
    BY <1>1, <1>3
  <2>2. ASSUME NEW n \in Nat, n \in S PROVE n + 1 \in S
    <3>1. Children(D[n]) \subseteq Children(X)
      BY <2>2 DEF Children
    <3> QED BY <1>1, <1>3, <2>2, <3>1
  <2> HIDE DEF S
  <2>3. Nat \subseteq S
    BY <2>1, <2>2, SetInduction
  <2> QED BY <1>2, <2>3 DEF S
<1>4. Children(D[N]) \subseteq D[N]
  BY <1>1, <1>2
<1>5. Descendants(s) = D[N]
  BY <1>1 DEF N
<1>6. D[N] \subseteq Supplier /\ Children({s}) \subseteq D[N]
  BY <1>1, <1>2
<1> QED BY <1>3, <1>4, <1>5, <1>6 DEF Closes

\* ... and in the next state, too.
LEMMA WalkClosesNext == TypeOK' => (\A s \in Supplier : Closes(s))'
BY WalkCloses, PTL

-----------------------------------------------------------------------------
(* A cycle takes two calls that overlap *)

\* A step that neither inserts an edge nor moves one.
SameMap ==
  /\ DOMAIN edges' = Edges
  /\ Len(edges') = Len(edges)
  /\ \A i \in Edges : /\ edges'[i].bom = edges[i].bom
                       /\ edges'[i].parent = edges[i].parent
                       /\ edges'[i].child = edges[i].child
                       /\ edges'[i].hop = edges[i].hop
                       /\ edges'[i].fresh = edges[i].fresh

\* Writing new columns N[i] on the stored edges of S, where N moves none.
LEMMA UpdateSameMap ==
  ASSUME TypeOK, NEW S, NEW N,
         edges' = [i \in Edges |-> IF i \in S THEN N[i] ELSE edges[i]],
         \A i \in Edges : /\ N[i].bom = edges[i].bom
                          /\ N[i].parent = edges[i].parent
                          /\ N[i].child = edges[i].child
                          /\ N[i].hop = edges[i].hop
                          /\ N[i].fresh = edges[i].fresh
  PROVE  SameMap
<1>1. DOMAIN edges = 1..Len(edges) /\ Len(edges) \in Nat
  BY DEF TypeOK
<1>2. DOMAIN edges' = 1..Len(edges)
  BY <1>1 DEF Edges
<1>3. Len(edges') = Len(edges)
  <2>1. edges' \in Seq({edges'[i] : i \in 1..Len(edges)})
    BY <1>1, <1>2 DEF Edges
  <2> QED BY <1>1, <1>2, <2>1
<1> QED BY <1>1, <1>2, <1>3 DEF SameMap, Edges

\* Every step either inserts one edge or leaves the map as it is.
LEMMA StepOfMap ==
  ASSUME TypeOK, Next
  PROVE  \/ \E c \in Call : Inserts(c)
         \/ SameMap /\ (UNCHANGED call \/ \E c \in Call, r \in Relation : Checks(c, r))
<1>0. \A i \in Edges : edges[i] \in Edge
  BY DEF TypeOK, Edges
<1>1. CASE UNCHANGED edges
  <2>1. SameMap
    BY <1>1 DEF SameMap, Edges
  <2> QED
    BY <1>1, <2>1 DEF Next, RecordDiscoveredVia, SetSupplierVerification, ConfirmPool,
       ConfirmMap, Update, SetMapStatus, FieldsArrive, NotifyFinalValidationReady
<1>2. ASSUME NEW s \in Supplier, NEW t \in Supplier, RecordDiscoveredVia(s, t)
      PROVE  SameMap /\ UNCHANGED call
  <2> DEFINE N == [i \in Edges |-> [edges[i] EXCEPT !.via = s]]
  <2>1. \E S : edges' = [i \in Edges |-> IF i \in S THEN N[i] ELSE edges[i]]
    BY <1>2 DEF RecordDiscoveredVia, Update
  <2>2. \A i \in Edges : /\ N[i].bom = edges[i].bom
                         /\ N[i].parent = edges[i].parent
                         /\ N[i].child = edges[i].child
                         /\ N[i].hop = edges[i].hop
                         /\ N[i].fresh = edges[i].fresh
    BY <1>0 DEF Edge
  <2> HIDE DEF N
  <2>3. SameMap
    BY <2>1, <2>2, UpdateSameMap
  <2>4. UNCHANGED call
    BY <1>2 DEF RecordDiscoveredVia, Update
  <2> QED BY <2>3, <2>4
<1>3. ASSUME NEW b \in Bom, NEW s \in Supplier, NEW v \in BOOLEAN,
             SetSupplierVerification(b, s, v)
      PROVE  SameMap /\ UNCHANGED call
  <2> DEFINE N == [i \in Edges |-> [edges[i] EXCEPT !.verified = v]]
  <2>1. \E S : edges' = [i \in Edges |-> IF i \in S THEN N[i] ELSE edges[i]]
    BY <1>3 DEF SetSupplierVerification, Update
  <2>2. \A i \in Edges : /\ N[i].bom = edges[i].bom
                         /\ N[i].parent = edges[i].parent
                         /\ N[i].child = edges[i].child
                         /\ N[i].hop = edges[i].hop
                         /\ N[i].fresh = edges[i].fresh
    BY <1>0 DEF Edge
  <2> HIDE DEF N
  <2>3. SameMap
    BY <2>1, <2>2, UpdateSameMap
  <2>4. UNCHANGED call
    BY <1>3 DEF SetSupplierVerification, Update
  <2> QED BY <2>3, <2>4
<1>4. ASSUME NEW S, edges' = [i \in Edges |-> IF i \in S THEN [edges[i] EXCEPT !.confirmed = TRUE]
                                                         ELSE edges[i]]
      PROVE  SameMap
  <2> DEFINE N == [i \in Edges |-> [edges[i] EXCEPT !.confirmed = TRUE]]
  <2>1. edges' = [i \in Edges |-> IF i \in S THEN N[i] ELSE edges[i]]
    BY <1>4
  <2>2. \A i \in Edges : /\ N[i].bom = edges[i].bom
                         /\ N[i].parent = edges[i].parent
                         /\ N[i].child = edges[i].child
                         /\ N[i].hop = edges[i].hop
                         /\ N[i].fresh = edges[i].fresh
    BY <1>0 DEF Edge
  <2> HIDE DEF N
  <2> QED BY <2>1, <2>2, UpdateSameMap
<1>5. ASSUME NEW i0 \in Edges, ConfirmMap(i0) PROVE SameMap /\ UNCHANGED call
  BY <1>4, <1>5 DEF ConfirmMap, Update
<1>6. ASSUME NEW b \in Bom, NEW T \in SUBSET Supplier, ConfirmPool(b, T)
      PROVE  SameMap /\ UNCHANGED call
  BY <1>4, <1>6 DEF ConfirmPool, Update
<1> QED
  BY <1>1, <1>2, <1>3, <1>5, <1>6
  DEF Next, Checks, SetMapStatus, FieldsArrive, NotifyFinalValidationReady

\* The walk looks at nothing but the edges' ends.
LEMMA SameWalk ==
  ASSUME TypeOK, TypeOK', SameMap, NEW s \in Supplier
  PROVE  Descendants(s)' = Descendants(s)
<1>1. Closes(s) /\ Closes(s)'
  BY WalkCloses, WalkClosesNext
<1>2. PICK d : d = Descendants(s)'
  OBVIOUS
<1>3. \A S : Children(S)' = Children(S)
  BY DEF SameMap, Children, Edges
<1>4. /\ d \in SUBSET Supplier /\ Children({s}) \subseteq d /\ Children(d) \subseteq d
      /\ \A X \in SUBSET Supplier :
           Children({s}) \subseteq X /\ Children(X) \subseteq X => d \subseteq X
  BY <1>1, <1>2, <1>3 DEF Closes
<1> QED BY <1>1, <1>2, <1>4 DEF Closes

\* A new edge adds to a walk that meets its upper end, and adds what lies below.
LEMMA NewEdgeWalk ==
  ASSUME TypeOK, TypeOK', NEW e \in Edge, edges' = Append(edges, e), NEW s \in Supplier
  PROVE  Descendants(s)' \subseteq
           Descendants(s) \cup (IF e.parent \in {s} \cup Descendants(s)
                                THEN {e.child} \cup Descendants(e.child) ELSE {})
<1> DEFINE Below == {e.child} \cup Descendants(e.child)
           X == Descendants(s) \cup (IF e.parent \in {s} \cup Descendants(s) THEN Below ELSE {})
<1>1. e.child \in Supplier
  BY DEF Edge
<1>2. Closes(s) /\ Closes(s)' /\ Closes(e.child)
  BY <1>1, WalkCloses, WalkClosesNext
<1>3. PICK d : d = Descendants(s)'
  OBVIOUS
<1>4. ASSUME NEW S PROVE Children(S)' = Children(S) \cup (IF e.parent \in S THEN {e.child} ELSE {})
  <2>1. /\ DOMAIN edges' = Edges \cup {Len(edges) + 1}
        /\ \A i \in Edges : edges'[i] = edges[i]
        /\ edges'[Len(edges) + 1] = e
    BY DEF TypeOK, Edges
  <2> QED BY <2>1 DEF Children, Edges
<1>5. Children(Below) \subseteq Below
  BY <1>2 DEF Closes, Children
<1>6. PICK S : S = X
  OBVIOUS
<1>7. S \in SUBSET Supplier
  BY <1>1, <1>2, <1>6 DEF Closes
<1>8. Children({s})' \subseteq S
  BY <1>2, <1>4, <1>6 DEF Closes
<1>9. Children(S)' \subseteq S
  <2>1. Children(S) \subseteq Children(Descendants(s)) \cup
          (IF e.parent \in {s} \cup Descendants(s) THEN Children(Below) ELSE {})
    BY <1>6 DEF Children
  <2>2. Children(S) \subseteq S
    BY <1>2, <1>5, <1>6, <2>1 DEF Closes
  <2>3. e.parent \in S => e.child \in S
    BY <1>6
  <2> QED BY <1>4, <2>2, <2>3
<1>10. Descendants(s)' \subseteq S
  <2>1. \A Y \in SUBSET Supplier :
           Children({s})' \subseteq Y /\ Children(Y)' \subseteq Y => Descendants(s)' \subseteq Y
    BY <1>2 DEF Closes
  <2> QED BY <1>7, <1>8, <1>9, <2>1
<1> QED BY <1>6, <1>10

\* Walks are transitive.
LEMMA WalkOn ==
  ASSUME TypeOK, NEW s \in Supplier, NEW t \in Descendants(s)
  PROVE  t \in Supplier /\ Descendants(t) \subseteq Descendants(s)
<1>1. Closes(s) /\ t \in Supplier
  BY WalkCloses DEF Closes
<1>2. Closes(t)
  BY <1>1, WalkCloses
<1>3. Children({t}) \subseteq Children(Descendants(s))
  BY DEF Children
<1> QED BY <1>1, <1>2, <1>3 DEF Closes

\* An edge closes no cycle where its upper end is neither its lower one nor
\* below it.
LEMMA NewEdgeAcyclic ==
  ASSUME TypeOK, TypeOK', NEW e \in Edge, edges' = Append(edges, e),
         Acyclic, e.parent # e.child, e.parent \notin Descendants(e.child)
  PROVE  Acyclic'
<1> SUFFICES ASSUME NEW s \in Supplier, s \in Descendants(s)' PROVE FALSE
  BY DEF Acyclic
<1>1. e.child \in Supplier
  BY DEF Edge
<1>2. s \notin Descendants(s)
  BY DEF Acyclic
<1>3. /\ e.parent \in {s} \cup Descendants(s)
      /\ s \in {e.child} \cup Descendants(e.child)
  BY <1>2, NewEdgeWalk
<1>4. CASE e.parent = s
  BY <1>3, <1>4
<1>5. CASE e.parent \in Descendants(s)
  <2>1. CASE s = e.child
    BY <1>5, <2>1
  <2>2. CASE s \in Descendants(e.child)
    <3>1. Descendants(s) \subseteq Descendants(e.child)
      BY <1>1, <2>2, WalkOn
    <3> QED BY <1>5, <3>1
  <2> QED BY <1>3, <2>1, <2>2
<1> QED BY <1>3, <1>4, <1>5

\* What the check found holds as long as the map is the one it saw.
LEMMA WalkStep == MapInv /\ MapInv' /\ ChecksHold /\ CyclesNeedOverlap /\ [Next]_vars
                    => ChecksHold' /\ CyclesNeedOverlap'
<1> SUFFICES ASSUME MapInv, MapInv', ChecksHold, CyclesNeedOverlap, [Next]_vars
             PROVE  ChecksHold' /\ CyclesNeedOverlap'
  OBVIOUS
<1>0. /\ TypeOK /\ TypeOK'
      /\ edges \in Seq(Edge) /\ Len(edges) \in Nat
      /\ Edges = 1..Len(edges)
      /\ \A i \in Edges : edges[i] \in Edge
      /\ call \in [Call -> [relation : Relation, saw : Nat] \cup {NoCall}]
      /\ call' \in [Call -> [relation : Relation, saw : Nat] \cup {NoCall}]
  BY DEF MapInv, TypeOK, Edges
<1>1. ASSUME SameMap PROVE CyclesNeedOverlap'
  <2>1. Acyclic => Acyclic'
    BY <1>0, <1>1, SameWalk DEF Acyclic
  <2> QED BY <1>1, <2>1 DEF CyclesNeedOverlap, SameMap, Edges
<1>2. ASSUME SameMap, UNCHANGED call PROVE ChecksHold'
  BY <1>0, <1>2, SameWalk DEF ChecksHold, SameMap, WouldCreateCycle, Relation
<1>3. ASSUME SameMap, NEW c \in Call, NEW r \in Relation, Checks(c, r) PROVE ChecksHold'
  <2>1. r.child \in Supplier
    BY DEF Relation
  <2> QED
    BY <1>0, <1>3, SameWalk DEF ChecksHold, Checks, WouldCreateCycle, Relation, SameMap
<1>4. ASSUME NEW c \in Call, Inserts(c) PROVE ChecksHold' /\ CyclesNeedOverlap'
  <2> DEFINE r == call[c].relation
  <2>1. r \in Relation /\ call[c].saw \in Nat /\ call[c] # NoCall
    BY <1>0, <1>4 DEF Inserts
  <2>2. PICK h \in Hops(r) :
        edges' = Append(edges,
            [bom |-> r.bom, parent |-> r.parent, child |-> r.child, part |-> r.part,
             hop |-> h, via |-> IF r.kind = "declare" THEN r.parent ELSE NoSupplier,
             confirmed |-> FALSE, verified |-> FALSE,
             fresh |-> call[c].saw = Len(edges)])
    BY <1>4 DEF Inserts
  <2> DEFINE e == [bom |-> r.bom, parent |-> r.parent, child |-> r.child, part |-> r.part,
             hop |-> h, via |-> IF r.kind = "declare" THEN r.parent ELSE NoSupplier,
             confirmed |-> FALSE, verified |-> FALSE,
             fresh |-> call[c].saw = Len(edges)]
  <2>3. e \in Edge /\ e.parent = r.parent /\ e.child = r.child
                    /\ e.fresh = (call[c].saw = Len(edges))
    BY <2>1, HopsHang DEF Edge, Relation
  <2>4. edges' = Append(edges, e)
    BY <2>2
  <2> HIDE DEF e
  <2>5. /\ DOMAIN edges' = Edges \cup {Len(edges) + 1} /\ Len(edges') = Len(edges) + 1
        /\ \A i \in Edges : edges'[i] = edges[i]
        /\ edges'[Len(edges) + 1] = e
    BY <1>0, <2>4
  <2>6. ChecksHold'
    BY <1>0, <1>4, <2>5 DEF ChecksHold, Inserts
  <2>7. CyclesNeedOverlap'
    <3> SUFFICES ASSUME \A i \in DOMAIN edges' :
                          edges'[i].fresh /\ edges'[i].parent # edges'[i].child
                 PROVE  Acyclic'
      BY DEF CyclesNeedOverlap, Edges
    <3>1. Acyclic
      BY <2>5 DEF CyclesNeedOverlap
    <3>2. e.fresh /\ e.parent # e.child
      BY <2>5
    <3>3. e.parent \notin Descendants(e.child)
      BY <2>1, <2>3, <3>2 DEF ChecksHold, WouldCreateCycle
    <3> QED
      BY <1>0, <2>3, <2>4, <3>1, <3>2, <3>3, NewEdgeAcyclic
  <2> QED BY <2>6, <2>7
<1>5. CASE UNCHANGED vars
  <2>1. SameMap /\ UNCHANGED call
    BY <1>5 DEF vars, SameMap, Edges
  <2> QED BY <1>1, <1>2, <2>1
<1>6. CASE Next
  BY <1>0, <1>1, <1>2, <1>3, <1>4, <1>6, StepOfMap
<1> QED BY <1>5, <1>6

-----------------------------------------------------------------------------
(* A check that does not return takes a cycle *)

\* A stored edge keeps its ends: what lies below a supplier stays below it.
LEMMA WalkGrows ==
  ASSUME TypeOK, TypeOK', NEW s \in Supplier,
         \A i \in Edges : /\ i \in DOMAIN edges'
                         /\ edges'[i].parent = edges[i].parent
                         /\ edges'[i].child = edges[i].child
  PROVE  Descendants(s) \subseteq Descendants(s)'
<1>1. Closes(s) /\ Closes(s)'
  BY WalkCloses, WalkClosesNext
<1>2. PICK d : d = Descendants(s)'
  OBVIOUS
<1>3. \A S : Children(S) \subseteq Children(S)'
  BY DEF Children, Edges
<1>4. d \in SUBSET Supplier /\ Children({s})' \subseteq d /\ Children(d)' \subseteq d
  BY <1>1, <1>2 DEF Closes
<1>5. Children({s}) \subseteq d /\ Children(d) \subseteq d
  BY <1>3, <1>4
<1> QED BY <1>1, <1>2, <1>4, <1>5 DEF Closes

\* A call hangs only where the check meets a cycle, and cycles stay.
HangMeetsCycle == hung # {} => ~ Acyclic

LEMMA HangStep == MapInv /\ MapInv' /\ HangMeetsCycle /\ [Next]_vars => HangMeetsCycle'
<1> SUFFICES ASSUME MapInv, MapInv', HangMeetsCycle, [Next]_vars, hung' # {}
             PROVE  ~ Acyclic'
  BY DEF HangMeetsCycle
<1>0. TypeOK /\ TypeOK'
  BY DEF MapInv
<1>1. \A i \in Edges : /\ i \in DOMAIN edges'
                      /\ edges'[i].parent = edges[i].parent
                      /\ edges'[i].child = edges[i].child
  <2>1. ASSUME NEW c \in Call, Inserts(c)
        PROVE  \A i \in Edges : i \in DOMAIN edges' /\ edges'[i] = edges[i]
    <3>1. PICK e : edges' = Append(edges, e)
      BY <2>1 DEF Inserts
    <3> QED BY <1>0, <3>1 DEF TypeOK, Edges
  <2>2. CASE UNCHANGED vars
    BY <2>2 DEF vars, Edges
  <2>3. CASE Next
    BY <1>0, <2>1, <2>3, StepOfMap DEF SameMap
  <2> QED BY <2>2, <2>3
<1>2. ~ Acyclic => ~ Acyclic'
  BY <1>0, <1>1, WalkGrows DEF Acyclic
<1>3. CASE hung # {}
  BY <1>2, <1>3 DEF HangMeetsCycle
<1>4. CASE hung = {}
  <2>1. PICK c \in Call, r \in Relation : Checks(c, r) /\ hung' # hung
    BY <1>4 DEF Next, vars, Inserts, RecordDiscoveredVia, SetSupplierVerification,
       ConfirmPool, ConfirmMap, Update, SetMapStatus, FieldsArrive,
       NotifyFinalValidationReady
  <2>2. NeverReturns(r.parent, r.child)
    BY <2>1 DEF Checks
  <2>3. r.child \in Supplier
    BY DEF Relation
  <2>4. Descendants(r.child) \subseteq Supplier
    BY <1>0, <2>3, WalkCloses DEF Closes
  <2>5. ~ Acyclic
    BY <2>2, <2>3, <2>4 DEF NeverReturns, Acyclic
  <2> QED BY <1>2, <2>5
<1> QED BY <1>3, <1>4

-----------------------------------------------------------------------------
(* The tree shows an orderly map *)

\* What OrderlyHangs says of one edge.
HangsOrderly(i) ==
  /\ edges[i].hop <= i
  /\ Orderly(i) /\ edges[i].parent # NoSupplier =>
       \E j \in Edges : /\ edges[j].bom = edges[i].bom
                        /\ edges[j].child = edges[i].parent
                        /\ edges[j].hop + 1 = edges[i].hop

\* A stored edge that hung on another still does.
LEMMA StoredHangsOrderly ==
  ASSUME TypeOK, Edges \subseteq DOMAIN edges',
         \A j \in Edges : /\ edges'[j].bom = edges[j].bom
                          /\ edges'[j].parent = edges[j].parent
                          /\ edges'[j].child = edges[j].child
                          /\ edges'[j].hop = edges[j].hop,
         NEW i \in Edges, HangsOrderly(i)
  PROVE  HangsOrderly(i)'
<1>1. \A j \in 1..(i - 1) : j \in Edges
  BY DEF TypeOK, Edges
<1>2. Orderly(i)' => Orderly(i)
  BY <1>1 DEF Orderly
<1>3. ASSUME NEW j \in Edges, edges[j].bom = edges[i].bom, edges[j].child = edges[i].parent,
             edges[j].hop + 1 = edges[i].hop
      PROVE  j \in DOMAIN edges' /\ edges'[j].bom = edges'[i].bom
             /\ edges'[j].child = edges'[i].parent /\ edges'[j].hop + 1 = edges'[i].hop
  BY <1>3
<1> QED BY <1>2, <1>3 DEF HangsOrderly, Edges

\* A new edge hangs on an edge that is there, if it can.
LEMMA OrderStep == MapInv /\ MapInv' /\ OrderlyHangs /\ [Next]_vars => OrderlyHangs'
<1> SUFFICES ASSUME MapInv, MapInv', OrderlyHangs, [Next]_vars PROVE OrderlyHangs'
  OBVIOUS
<1>0. /\ TypeOK
      /\ edges \in Seq(Edge) /\ Len(edges) \in Nat
      /\ Edges = 1..Len(edges)
      /\ \A i \in Edges : edges[i] \in Edge
      /\ \A i \in Edges : HangsOrderly(i)
      /\ call \in [Call -> [relation : Relation, saw : Nat] \cup {NoCall}]
  BY DEF MapInv, TypeOK, Edges, OrderlyHangs, HangsOrderly
<1>1. ASSUME SameMap PROVE OrderlyHangs'
  <2>1. \A i \in Edges : HangsOrderly(i)'
    BY <1>0, <1>1, StoredHangsOrderly DEF SameMap
  <2> QED BY <1>1, <2>1 DEF SameMap, OrderlyHangs, HangsOrderly, Edges
<1>2. ASSUME NEW c \in Call, Inserts(c) PROVE OrderlyHangs'
  <2> DEFINE r == call[c].relation
  <2>1. r \in Relation
    BY <1>0, <1>2 DEF Inserts
  <2>2. PICK h \in Hops(r) : \E e :
          edges' = Append(edges, e) /\ e.bom = r.bom /\ e.parent = r.parent /\ e.hop = h
    <3>1. PICK h \in Hops(r) : edges' = Append(edges,
             [bom |-> r.bom, parent |-> r.parent, child |-> r.child, part |-> r.part,
              hop |-> h, via |-> IF r.kind = "declare" THEN r.parent ELSE NoSupplier,
              confirmed |-> FALSE, verified |-> FALSE,
              fresh |-> call[c].saw = Len(edges)])
      BY <1>2 DEF Inserts
    <3> WITNESS h \in Hops(r)
    <3> WITNESS [bom |-> r.bom, parent |-> r.parent, child |-> r.child, part |-> r.part,
              hop |-> h, via |-> IF r.kind = "declare" THEN r.parent ELSE NoSupplier,
              confirmed |-> FALSE, verified |-> FALSE,
              fresh |-> call[c].saw = Len(edges)]
    <3> QED BY <3>1
  <2>3. /\ h \in Nat
        /\ h = 0 <=> r.parent = NoSupplier
        /\ h > 1 => \E j \in Edges : /\ edges[j].bom = r.bom
                                     /\ edges[j].child = r.parent
                                     /\ edges[j].hop + 1 = h
    BY <2>1, HopsHang
  <2>4. PICK e :
          edges' = Append(edges, e) /\ e.bom = r.bom /\ e.parent = r.parent /\ e.hop = h
    BY <2>2
  <2>5. PICK n : n = Len(edges) + 1
    OBVIOUS
  <2>6. /\ DOMAIN edges' = Edges \cup {n}
        /\ \A i \in Edges : edges'[i] = edges[i]
        /\ edges'[n] = e
    BY <1>0, <2>4, <2>5
  <2>7. \A i \in Edges : HangsOrderly(i)'
    BY <1>0, <2>6, StoredHangsOrderly
  <2>8. h <= n
    <3>1. CASE h > 1
      <4>1. PICK j \in Edges : edges[j].hop + 1 = h
        BY <2>3, <3>1
      <4>2. edges[j].hop <= j /\ edges[j].hop \in Nat /\ j <= Len(edges)
        BY <1>0 DEF HangsOrderly, Edge
      <4> QED BY <1>0, <2>5, <4>1, <4>2
    <3>2. CASE ~ (h > 1)
      BY <1>0, <2>3, <2>5, <3>2
    <3> QED BY <3>1, <3>2
  <2>9. ASSUME r.parent # NoSupplier, NEW k \in Edges,
               edges[k].bom = r.bom, edges[k].child = r.parent
        PROVE  \E j \in Edges : /\ edges[j].bom = r.bom
                                /\ edges[j].child = r.parent
                                /\ edges[j].hop + 1 = h
    <3>1. ParentHops(r) # {}
      BY <2>9 DEF ParentHops
    <3>2. PICK g \in ParentHops(r) : h = g + 1
      BY <2>9, <3>1 DEF Hops
    <3> QED BY <3>2 DEF ParentHops
  <2>10. HangsOrderly(n)'
    <3>1. edges'[n].hop <= n
      BY <2>4, <2>6, <2>8
    <3>2. ASSUME Orderly(n)', edges'[n].parent # NoSupplier
          PROVE  \E j \in DOMAIN edges' : /\ edges'[j].bom = edges'[n].bom
                                          /\ edges'[j].child = edges'[n].parent
                                          /\ edges'[j].hop + 1 = edges'[n].hop
      <4>1. PICK k \in 1..(n - 1) : edges'[k].bom = e.bom /\ edges'[k].child = e.parent
        BY <2>6, <3>2 DEF Orderly
      <4>2. k \in Edges /\ edges[k].bom = r.bom /\ edges[k].child = r.parent
        BY <1>0, <2>4, <2>5, <2>6, <4>1
      <4>3. PICK j \in Edges : /\ edges[j].bom = r.bom
                              /\ edges[j].child = r.parent
                              /\ edges[j].hop + 1 = h
        BY <2>4, <2>6, <2>9, <3>2, <4>2
      <4> QED BY <2>4, <2>6, <4>3
    <3> QED BY <3>1, <3>2 DEF HangsOrderly, Edges
  <2>11. \A i \in DOMAIN edges' : HangsOrderly(i)'
    BY <2>6, <2>7, <2>10
  <2> QED BY <2>11 DEF OrderlyHangs, HangsOrderly, Edges
<1>3. CASE UNCHANGED vars
  <2>1. SameMap
    BY <1>3 DEF vars, SameMap, Edges
  <2> QED BY <1>1, <2>1
<1>4. CASE Next
  BY <1>0, <1>1, <1>2, <1>4, StepOfMap
<1> QED BY <1>3, <1>4

\* The paths of X, each longer by an edge that follows.
Grown(X) == {Append(x[1], x[2]) : x \in {y \in X \X Edges : Follows(y[2], y[1])}}

LEMMA GrownIsPaths == \A X \in SUBSET Seq(Edges) : Grown(X) \in SUBSET Seq(Edges)
BY DEF Grown

\* ... which is to say:
LEMMA GrownMember ==
  ASSUME NEW X, NEW q
  PROVE  q \in Grown(X) <=> \E p \in X, i \in Edges : Follows(i, p) /\ q = Append(p, i)
<1>1. ASSUME NEW p \in X, NEW i \in Edges, Follows(i, p) PROVE Append(p, i) \in Grown(X)
  <2>1. <<p, i>> \in {y \in X \X Edges : Follows(y[2], y[1])}
    BY <1>1
  <2> QED BY <2>1 DEF Grown
<1>2. ASSUME q \in Grown(X) PROVE \E p \in X, i \in Edges : Follows(i, p) /\ q = Append(p, i)
  <2>1. PICK x \in X \X Edges : Follows(x[2], x[1]) /\ q = Append(x[1], x[2])
    BY <1>2 DEF Grown
  <2>2. x[1] \in X /\ x[2] \in Edges
    OBVIOUS
  <2> QED BY <2>1, <2>2
<1> QED BY <1>1, <1>2

\* The function that Paths defines by recursion.
LEMMA PathsUnroll ==
  \E P \in [Nat -> SUBSET Seq(Edges)] :
    /\ P[0] = {<<i>> : i \in {j \in Edges : edges[j].parent = NoSupplier}}
    /\ \A n \in Nat : P[n + 1] = Grown(P[n])
    /\ Paths = UNION {P[n] : n \in 0..Len(edges)}
<1> DEFINE T == SUBSET Seq(Edges)
           Start == {<<i>> : i \in {j \in Edges : edges[j].parent = NoSupplier}}
           Step == [X \in T |-> Grown(X)]
           P == CHOOSE f : f = [n \in Nat |-> IF n = 0 THEN Start
                  ELSE {Append(x[1], x[2]) : x \in {y \in f[n - 1] \X Edges : Follows(y[2], y[1])}}]
<1>1. Paths = UNION {P[n] : n \in 0..Len(edges)}
  BY DEF Paths
<1>2. Start \in T /\ Step \in [T -> T]
  BY GrownIsPaths
<1>3. \A X \in T : Step[X] = Grown(X) /\ Grown(X) \in T
  BY GrownIsPaths
<1> HIDE DEF Start, Step, T
<1>4. PICK g \in [Nat -> T] : g[0] = Start /\ \A n \in Nat : g[n + 1] = Step[g[n]]
  BY <1>2, Iteration
<1>5. g = [n \in Nat |-> IF n = 0 THEN Start ELSE Grown(g[n - 1])]
  <2>1. ASSUME NEW n \in Nat, n # 0 PROVE g[n] = Grown(g[n - 1])
    <3>1. n - 1 \in Nat /\ (n - 1) + 1 = n
      BY <2>1
    <3>2. g[(n - 1) + 1] = Step[g[n - 1]] /\ g[n - 1] \in T
      BY <1>4, <3>1
    <3> QED BY <1>3, <3>1, <3>2
  <2> QED BY <1>4, <2>1
<1>6. P = [n \in Nat |-> IF n = 0 THEN Start ELSE Grown(P[n - 1])]
  BY <1>5 DEF Grown
<1> HIDE DEF P
<1>7. P[0] = Start /\ \A n \in Nat : P[n + 1] = Grown(P[n])
  <2>1. ASSUME NEW n \in Nat PROVE P[n + 1] = Grown(P[n])
    <3>1. n + 1 \in Nat /\ n + 1 # 0 /\ (n + 1) - 1 = n
      OBVIOUS
    <3> QED BY <1>6, <3>1
  <2> QED BY <1>6, <2>1
<1>8. P \in [Nat -> T]
  <2> DEFINE S == {n \in Nat : P[n] \in T}
  <2>1. 0 \in S
    BY <1>2, <1>7
  <2>2. ASSUME NEW n \in Nat, n \in S PROVE n + 1 \in S
    BY <1>3, <1>7, <2>2
  <2> HIDE DEF S
  <2>3. Nat \subseteq S
    BY <2>1, <2>2, SetInduction
  <2> QED BY <1>6, <2>3 DEF S
<1> QED BY <1>1, <1>7, <1>8 DEF Start, T

\* A path starts at a root and follows the edges of one map.
IsPath(p) ==
  /\ p \in Seq(Edges) /\ Len(p) >= 1
  /\ edges[p[1]].parent = NoSupplier
  /\ \A k \in 1..(Len(p) - 1) :
       /\ edges[p[k + 1]].parent = edges[p[k]].child
       /\ edges[p[k + 1]].bom = edges[p[k]].bom

\* The query returns paths and nothing else.
LEMMA PathsArePaths == \A p \in Paths : IsPath(p)
<1>1. PICK P \in [Nat -> SUBSET Seq(Edges)] :
        /\ P[0] = {<<i>> : i \in {j \in Edges : edges[j].parent = NoSupplier}}
        /\ \A n \in Nat : P[n + 1] = Grown(P[n])
        /\ Paths = UNION {P[n] : n \in 0..Len(edges)}
  BY PathsUnroll
<1> DEFINE S == {n \in Nat : \A p \in P[n] : IsPath(p)}
<1>2. 0 \in S
  <2>1. ASSUME NEW i \in Edges, edges[i].parent = NoSupplier PROVE IsPath(<<i>>)
    BY <2>1 DEF IsPath
  <2> QED BY <1>1, <2>1
<1>3. ASSUME NEW n \in Nat, n \in S PROVE n + 1 \in S
  <2>1. ASSUME NEW p \in P[n], NEW i \in Edges, Follows(i, p) PROVE IsPath(Append(p, i))
    <3>1. IsPath(p)
      BY <1>3
    <3>2. PICK q : q = Append(p, i)
      OBVIOUS
    <3>3. /\ q \in Seq(Edges) /\ Len(q) = Len(p) + 1 /\ q[Len(q)] = i
          /\ Len(p) \in Nat
          /\ \A k \in 1..Len(p) : q[k] = p[k]
      BY <3>1, <3>2 DEF IsPath
    <3>4. edges[i].parent = edges[p[Len(p)]].child /\ edges[i].bom = edges[p[Len(p)]].bom
      BY <2>1 DEF Follows
    <3>5. ASSUME NEW k \in 1..(Len(q) - 1)
          PROVE  /\ edges[q[k + 1]].parent = edges[q[k]].child
                 /\ edges[q[k + 1]].bom = edges[q[k]].bom
      <4>1. CASE k = Len(p)
        BY <3>3, <3>4, <4>1
      <4>2. CASE k # Len(p)
        <5>1. k \in 1..(Len(p) - 1) /\ k \in 1..Len(p) /\ k + 1 \in 1..Len(p)
          BY <3>3, <4>2
        <5> QED BY <3>1, <3>3, <5>1 DEF IsPath
      <4> QED BY <4>1, <4>2
    <3>6. q[1] = p[1] /\ Len(q) >= 1
      BY <3>1, <3>3 DEF IsPath
    <3>7. edges[q[1]].parent = NoSupplier
      BY <3>1, <3>6 DEF IsPath
    <3>8. IsPath(q)
      BY <3>3, <3>5, <3>6, <3>7 DEF IsPath
    <3> QED BY <3>2, <3>8
  <2>2. P[n + 1] = Grown(P[n])
    BY <1>1
  <2>3. ASSUME NEW q \in P[n + 1] PROVE IsPath(q)
    <3>1. q \in Grown(P[n])
      BY <2>2
    <3>2. PICK p \in P[n], i \in Edges : Follows(i, p) /\ q = Append(p, i)
      BY <3>1, GrownMember
    <3> QED BY <2>1, <3>2
  <2> QED BY <2>3
<1> HIDE DEF S
<1>4. Nat \subseteq S
  BY <1>2, <1>3, SetInduction
<1>5. Len(edges) \in Nat => 0..Len(edges) \subseteq Nat
  OBVIOUS
<1> QED BY <1>1, <1>4 DEF S

\* Along a path, what comes later lies below what came before.
LEMMA PathDescends ==
  ASSUME TypeOK, NEW p, IsPath(p), NEW k \in 1..Len(p), NEW j \in 1..Len(p), k < j
  PROVE  edges[p[j]].child \in Descendants(edges[p[k]].child)
<1>1. /\ p \in Seq(Edges) /\ Len(p) \in Nat
      /\ \A m \in 1..Len(p) : p[m] \in Edges
  BY DEF IsPath
<1>2. \A i \in Edges : edges[i].child \in Supplier
  <2>1. \A i \in Edges : edges[i] \in Edge
    BY DEF TypeOK, Edges
  <2> QED BY <2>1 DEF Edge
<1> DEFINE s == edges[p[k]].child
           S == {n \in Nat : k + 1 + n <= Len(p) => edges[p[k + 1 + n]].child \in Descendants(s)}
<1>3. Closes(s)
  BY <1>1, <1>2, WalkCloses
<1> HIDE DEF s
<1>4. 0 \in S
  <2> SUFFICES ASSUME k + 1 <= Len(p) PROVE edges[p[k + 1]].child \in Descendants(s)
    OBVIOUS
  <2>1. k \in 1..(Len(p) - 1) /\ k + 1 \in 1..Len(p)
    OBVIOUS
  <2>2. edges[p[k + 1]].parent = s /\ p[k + 1] \in Edges
    BY <1>1, <2>1 DEF IsPath, s
  <2> QED BY <1>3, <2>2 DEF Closes, Children
<1>5. ASSUME NEW n \in Nat, n \in S PROVE n + 1 \in S
  <2> SUFFICES ASSUME k + 1 + (n + 1) <= Len(p)
               PROVE  edges[p[k + 1 + (n + 1)]].child \in Descendants(s)
    OBVIOUS
  <2>1. PICK m \in 1..(Len(p) - 1) : m = k + 1 + n
    BY <1>1
  <2>2. m + 1 \in 1..Len(p) /\ k + 1 + (n + 1) = m + 1 /\ k + 1 + n <= Len(p)
    BY <1>1, <2>1
  <2>3. edges[p[m]].child \in Descendants(s)
    BY <1>5, <2>1, <2>2
  <2>4. edges[p[m + 1]].parent = edges[p[m]].child /\ p[m + 1] \in Edges
    BY <1>1, <2>1, <2>2 DEF IsPath
  <2> QED BY <1>3, <2>2, <2>3, <2>4 DEF Closes, Children
<1> HIDE DEF S
<1>6. Nat \subseteq S
  BY <1>4, <1>5, SetInduction
<1>7. PICK n \in Nat : j = k + 1 + n
  <2>1. j - k - 1 \in Nat /\ j = k + 1 + (j - k - 1)
    BY <1>1
  <2> QED BY <2>1
<1> QED BY <1>1, <1>6, <1>7 DEF S, s

-----------------------------------------------------------------------------
(* The walks agree *)

\* Where a path meets a supplier and part again, the supplier lies below itself.
LEMMA EdgesWeighed == TypeOK => MapIsWeighed
<1> SUFFICES ASSUME TypeOK, NEW b \in Bom, NEW i \in (Tree \cap MapRows(b)) \ Shares(b)
             PROVE  edges[i].child \in Descendants(edges[i].child)
  BY DEF MapIsWeighed
<1>1. PICK p \in Paths : i = p[Len(p)]
  BY DEF Tree
<1>2. IsPath(p) /\ Len(p) \in Nat /\ Len(p) >= 1
  BY PathsArePaths DEF IsPath
<1>3. edges[p[1]].bom = b
  <2> DEFINE S == {n \in Nat : n + 1 <= Len(p) => edges[p[n + 1]].bom = edges[p[1]].bom}
  <2>1. 0 \in S
    OBVIOUS
  <2>2. ASSUME NEW n \in Nat, n \in S PROVE n + 1 \in S
    <3> SUFFICES ASSUME (n + 1) + 1 <= Len(p) PROVE edges[p[(n + 1) + 1]].bom = edges[p[1]].bom
      OBVIOUS
    <3>1. n + 1 \in 1..(Len(p) - 1)
      BY <1>2
    <3> QED BY <2>2, <1>2, <3>1 DEF IsPath
  <2> HIDE DEF S
  <2>3. Nat \subseteq S
    BY <2>1, <2>2, SetInduction
  <2>4. Len(p) - 1 \in Nat /\ (Len(p) - 1) + 1 = Len(p)
    BY <1>2
  <2>5. edges[p[Len(p)]].bom = edges[p[1]].bom
    BY <2>3, <2>4 DEF S
  <2> QED BY <1>1, <2>5 DEF MapRows
<1>4. PICK k \in 1..(Len(p) - 1) : edges[p[k]].child = edges[p[Len(p)]].child
  BY <1>1, <1>3 DEF Shares
<1>5. k \in 1..Len(p) /\ Len(p) \in 1..Len(p) /\ k < Len(p)
  BY <1>2
<1>6. edges[p[Len(p)]].child \in Descendants(edges[p[k]].child)
  BY <1>2, <1>5, PathDescends
<1> QED BY <1>1, <1>4, <1>6

\* The end of a path lies below the root anchor that the path starts at.
LEMMA TreeChecked == TypeOK => TreeIsChecked
<1> SUFFICES ASSUME TypeOK, NEW i \in Tree PROVE edges[i].child \in GapNodes
  BY DEF TreeIsChecked
<1>1. PICK p \in Paths : i = p[Len(p)]
  BY DEF Tree
<1>2. /\ IsPath(p) /\ Len(p) \in Nat /\ Len(p) >= 1
      /\ p[1] \in Edges /\ edges[p[1]].parent = NoSupplier
  BY PathsArePaths DEF IsPath
<1>3. edges[p[1]].child \in RootAnchors
  BY <1>2 DEF RootAnchors, Children
<1>4. CASE Len(p) = 1
  BY <1>1, <1>3, <1>4 DEF GapNodes
<1>5. CASE Len(p) > 1
  <2>1. 1 \in 1..Len(p) /\ Len(p) \in 1..Len(p)
    BY <1>2
  <2>2. edges[p[Len(p)]].child \in Descendants(edges[p[1]].child)
    BY <1>2, <1>5, <2>1, PathDescends
  <2> QED BY <1>1, <1>3, <2>2 DEF GapNodes
<1>6. Len(p) = 1 \/ Len(p) > 1
  <2>1. PICK n \in Nat : n = Len(p) /\ n >= 1
    BY <1>2
  <2>2. n = 1 \/ n > 1
    BY <2>1
  <2> QED BY <2>1, <2>2
<1> QED BY <1>4, <1>5, <1>6

\* By induction on hop_level: an edge of hop n ends a path of n + 1 edges, for the
\* edge it hangs on ends one of n, which without a cycle meets no supplier again.
LEMMA OrderlyShown == MapInv /\ OrderlyHangs => OrderlyMapIsShown
<1> SUFFICES ASSUME MapInv, OrderlyHangs, Acyclic, \A i \in Edges : Orderly(i)
             PROVE  Tree = Edges
  BY DEF OrderlyMapIsShown
<1>1. PICK P \in [Nat -> SUBSET Seq(Edges)] :
        /\ P[0] = {<<i>> : i \in {j \in Edges : edges[j].parent = NoSupplier}}
        /\ \A n \in Nat : P[n + 1] = Grown(P[n])
        /\ Paths = UNION {P[n] : n \in 0..Len(edges)}
  BY PathsUnroll
<1>2. /\ TypeOK /\ Len(edges) \in Nat /\ Edges = 1..Len(edges)
      /\ \A i \in Edges : edges[i] \in Edge
  BY DEF MapInv, TypeOK, Edges
<1>3. \A i \in Edges : edges[i].hop \in Nat /\ edges[i].child \in Supplier
  BY <1>2 DEF Edge
\* Paths of n + 1 edges reach every edge of hop n.
<1> DEFINE S == {n \in Nat : \A i \in Edges : edges[i].hop = n => \E p \in P[n] : p[Len(p)] = i}
<1>4. \A n \in 0..Len(edges) : \A p \in P[n] : p \in Paths /\ IsPath(p)
  BY <1>1, PathsArePaths
<1>5. 0 \in S
  <2> SUFFICES ASSUME NEW i \in Edges, edges[i].hop = 0 PROVE \E p \in P[0] : p[Len(p)] = i
    OBVIOUS
  <2>1. edges[i].parent = NoSupplier
    BY DEF MapInv, HopIsContinuous
  <2>2. <<i>> \in P[0] /\ <<i>>[Len(<<i>>)] = i
    BY <1>1, <2>1
  <2> QED BY <2>2
<1>6. ASSUME NEW n \in Nat, n \in S PROVE n + 1 \in S
  <2> SUFFICES ASSUME NEW i \in Edges, edges[i].hop = n + 1
               PROVE  \E q \in P[n + 1] : q[Len(q)] = i
    OBVIOUS
  <2>1. edges[i].parent # NoSupplier
    BY DEF MapInv, HopIsContinuous
  <2>2. PICK j \in Edges : /\ edges[j].bom = edges[i].bom
                          /\ edges[j].child = edges[i].parent
                          /\ edges[j].hop + 1 = edges[i].hop
    BY <2>1 DEF OrderlyHangs
  <2>3. edges[j].hop = n /\ n <= Len(edges)
    <3>1. edges[i].hop <= i /\ i <= Len(edges)
      BY <1>2 DEF OrderlyHangs
    <3> QED BY <1>2, <1>3, <2>2, <3>1
  <2>4. PICK p \in P[n] : p[Len(p)] = j
    BY <1>6, <2>3
  <2>5. IsPath(p) /\ p \in Seq(Edges) /\ Len(p) \in Nat /\ Len(p) >= 1
    BY <1>2, <1>4, <2>3 DEF IsPath
  <2>6. ASSUME NEW k \in 1..(Len(p) - 1),
               <<edges[p[k]].child, edges[p[k]].part>> = <<edges[j].child, edges[j].part>>
        PROVE  FALSE
    <3>0. k \in 1..Len(p) /\ Len(p) \in 1..Len(p) /\ k < Len(p)
      BY <2>5
    <3>1. edges[p[Len(p)]].child \in Descendants(edges[p[k]].child)
      BY <1>2, <2>5, <3>0, PathDescends
    <3>2. edges[p[k]].child = edges[j].child
      BY <2>6
    <3> QED BY <1>3, <2>4, <3>1, <3>2 DEF Acyclic
  <2>7. Follows(i, p)
    BY <2>2, <2>4, <2>6 DEF Follows
  <2>8. Append(p, i) \in P[n + 1]
    <3>1. Append(p, i) \in Grown(P[n])
      BY <2>7, GrownMember
    <3> QED BY <1>1, <3>1
  <2>9. Append(p, i)[Len(Append(p, i))] = i
    BY <2>5
  <2> QED BY <2>8, <2>9
<1> HIDE DEF S
<1>7. Nat \subseteq S
  BY <1>5, <1>6, SetInduction
<1>8. Edges \subseteq Tree
  <2> SUFFICES ASSUME NEW i \in Edges PROVE i \in Tree
    OBVIOUS
  <2>1. PICK n \in Nat : n = edges[i].hop
    BY <1>3
  <2>2. PICK p \in P[n] : p[Len(p)] = i
    BY <1>7, <2>1 DEF S
  <2>3. n \in 0..Len(edges)
    <3>1. edges[i].hop <= i /\ i <= Len(edges)
      BY <1>2 DEF OrderlyHangs
    <3> QED BY <1>2, <2>1, <3>1
  <2> QED BY <1>4, <2>2, <2>3 DEF Tree
<1>9. Tree \subseteq Edges
  <2>1. \A p \in Paths : p[Len(p)] \in Edges
    BY PathsArePaths DEF IsPath
  <2> QED BY <2>1 DEF Tree
<1> QED BY <1>8, <1>9

\* Only the notice writes notice, and it looks at all that the tree shows.
LEMMA NoticeStep == TypeOK /\ [Next]_vars =>
  (notice' # notice => {edges[i].child : i \in Tree} \cap missing \subseteq RootAnchors)
<1> SUFFICES ASSUME TypeOK, [Next]_vars, notice' # notice
             PROVE  {edges[i].child : i \in Tree} \cap missing \subseteq RootAnchors
  OBVIOUS
<1>1. NotifyFinalValidationReady
  BY DEF Next, vars, Checks, Inserts, RecordDiscoveredVia, SetSupplierVerification,
     ConfirmPool, ConfirmMap, Update, SetMapStatus, FieldsArrive
<1>2. ReadyForFinal
  BY <1>1 DEF NotifyFinalValidationReady
<1>3. TreeIsChecked
  BY TreeChecked
<1> QED BY <1>2, <1>3 DEF ReadyForFinal, TreeIsChecked

\* The walks' invariant, on top of MapInv.
WalkInv == ChecksHold /\ CyclesNeedOverlap /\ HangMeetsCycle /\ OrderlyHangs

\* At the start nothing can be walked.
LEMMA InitWalks == Init => WalkInv
<1> SUFFICES ASSUME Init PROVE WalkInv
  OBVIOUS
<1>1. Edges = {} /\ TypeOK
  BY InitMap DEF Init, Edges, MapInv
<1>2. \A S : Children(S) = {}
  BY <1>1 DEF Children
<1>3. Acyclic
  <2>1. \A s \in Supplier : Closes(s)
    BY <1>1, WalkCloses
  <2>2. \A s \in Supplier : Descendants(s) = {}
    BY <1>2, <2>1 DEF Closes
  <2> QED BY <2>2 DEF Acyclic
<1>4. ChecksHold
  BY DEF Init, ChecksHold
<1>5. HangMeetsCycle
  BY DEF Init, HangMeetsCycle
<1> QED BY <1>1, <1>3, <1>4, <1>5 DEF WalkInv, CyclesNeedOverlap, OrderlyHangs

LEMMA WalkInvariant == Spec => []WalkInv
<1>1. WalkInv /\ MapInv /\ MapInv' /\ [Next]_vars => WalkInv'
  BY WalkStep, HangStep, OrderStep DEF WalkInv
<1> QED BY <1>1, InitWalks, MapInvariant, PTL DEF Spec

\* However registrations, declarations, invitations and confirmations of a map
\* interleave (register_relation, declare_source_change and the calls that
\* write on edges): every edge below the first tier hangs on an edge one hop
\* higher in its own map, a check that has seen the whole map still holds, and
\* an edge that was inserted below another hangs on one.
THEOREM ChainInvariant == Spec => []ChainInv
<1>1. MapInv /\ WalkInv => ChainInv
  BY DEF ChainInv, WalkInv
<1> QED BY <1>1, MapInvariant, WalkInvariant, PTL

\* Without two calls that overlap and without a declaration that names its own
\* supplier, would_create_cycle lets no cycle in, of whatever length and among
\* whatever number of suppliers.
THEOREM CyclesTakeOverlap == Spec => []CyclesNeedOverlap
<1>1. WalkInv => CyclesNeedOverlap
  BY DEF WalkInv
<1> QED BY <1>1, WalkInvariant, PTL

\* would_create_cycle, which walks with UNION ALL, returns in every call unless
\* two calls overlapped before or a declaration named its own supplier: a check
\* hangs at a cycle only, cycles stay, and they take that much to come about.
THEOREM ChecksReturn == Spec => []HangsTakeOverlap
<1>1. MapInv /\ WalkInv => HangsTakeOverlap
  BY DEF MapInv, TypeOK, Edge, Edges, WalkInv, HangMeetsCycle, CyclesNeedOverlap,
     HangsTakeOverlap
<1> QED BY <1>1, MapInvariant, WalkInvariant, PTL

\* get_n_tier_supply_chain shows every edge of a map without a cycle that was
\* registered from the root down, however deep it is.
THEOREM OrderlyMapsAreShown == Spec => []OrderlyMapIsShown
<1>1. MapInv /\ WalkInv => OrderlyMapIsShown
  BY OrderlyShown DEF WalkInv
<1> QED BY <1>1, MapInvariant, WalkInvariant, PTL

\* What the tree shows has its contribution, unless its supplier lies on a cycle,
\* and is among the suppliers that get_supplier_field_data looks at.
THEOREM WalksDoAgree == Spec => []WalksAgree
<1>1. MapInv => WalksAgree
  BY EdgesWeighed, TreeChecked DEF MapInv, WalksAgree
<1> QED BY <1>1, MapInvariant, PTL

\* notify_final_validation_ready tells the owner of no map in which a supplier
\* that the tree shows below the root lacks a field.
THEOREM NoticeEarned == Spec => NoticeIsEarned
<1>1. MapInv /\ [Next]_vars =>
       (notice' # notice => {edges[i].child : i \in Tree} \cap missing \subseteq RootAnchors)
  BY NoticeStep DEF MapInv
<1> QED BY <1>1, MapInvariant, PTL DEF Spec, NoticeIsEarned
=============================================================================
