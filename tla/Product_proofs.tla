---------------------------- MODULE Product_proofs ----------------------------
(***************************************************************************)
(* The inductive invariant of Product, for any number of versions, calls,  *)
(* customers and parts.  As long as no call has written after what it read *)
(* had changed, versions only move forward, so a call that finds stored    *)
(* what it saw has taken off all the others; an import that finds no row   *)
(* of a customer holds its lock until the row is stored.                   *)
(*                                                                         *)
(* The tree of parts is the same throughout.  A walk up from a part is a   *)
(* recursion over its steps, and ends within as many as there are parts:   *)
(* so the deepest row of a part is the one below the anchor furthest up.   *)
(***************************************************************************)
EXTENDS Product, Recursion, TLAPS

LEMMA InitCatalogue == Init => CatalogueInv
<1> SUFFICES ASSUME Init PROVE CatalogueInv
  OBVIOUS
<1>1. \A c \in Call : call[c] = CallIn("idle")
  BY DEF Init
<1>2. /\ CallIn("idle") \in CallState /\ CallIn("idle").st = "idle"
      /\ CallIn("idle").new = {} /\ CallIn("idle").off = {}
  BY DEF CallIn, CallState, BomVersionStatus
<1>3. TypeOK
  BY <1>2 DEF Init, TypeOK, BomVersionStatus
<1>4. LocksAreHeld
  BY <1>1, <1>2, NullAssumption DEF Init, LocksAreHeld
<1>5. NewIsOwn
  BY <1>1, <1>2 DEF NewIsOwn
<1>6. AnnouncedOnce
  BY DEF Init, AnnouncedOnce
<1>7. VersionsAreSeen
  BY <1>1, <1>2 DEF VersionsAreSeen, SeenEarlier
<1>8. OneActive
  BY DEF Init, OneActive
<1> QED
  BY <1>3, <1>4, <1>5, <1>6, <1>7, <1>8 DEF CatalogueInv

\* A call that moves on leaves the others alone.
LEMMA CallMoves ==
  ASSUME TypeOK, NEW c \in Call, NEW next \in CallState, call' = [call EXCEPT ![c] = next]
  PROVE  /\ call' \in [Call -> CallState] /\ call'[c] = next
         /\ \A d \in Call \ {c} : call'[d] = call[d]
BY DEF TypeOK

\* What the customers need survives a step on the versions.
LEMMA CustomersKept ==
  ASSUME CatalogueInv, NEW c \in Call, UNCHANGED customer,
         \A d \in Call \ {c} : call'[d] = call[d],
         call[c].st # "upserting", call'[c].st \notin {"upserting", "committed"},
         call'[c].new = {}
  PROVE  LocksAreHeld' /\ NewIsOwn' /\ AnnouncedOnce'
<1> USE DEF CatalogueInv
<1>1. LocksAreHeld'
  BY DEF LocksAreHeld
<1>2. NewIsOwn'
  BY DEF NewIsOwn
<1>3. AnnouncedOnce'
  BY DEF AnnouncedOnce
<1> QED
  BY <1>1, <1>2, <1>3

\* What the versions need survives a step of a call that stores nothing in them.
LEMMA VersionsKept ==
  ASSUME CatalogueInv, NEW c \in Call, UNCHANGED <<status, overlap>>,
         \A d \in Call \ {c} : call'[d] = call[d],
         ~ overlap => SeenEarlier(c)'
  PROVE  VersionsAreSeen' /\ OneActive'
<1>1. ASSUME ~ overlap, NEW d \in Call \ {c} PROVE SeenEarlier(d)'
  BY <1>1 DEF CatalogueInv, VersionsAreSeen, SeenEarlier, Transition, Rank
<1>2. VersionsAreSeen'
  BY <1>1 DEF VersionsAreSeen
<1>3. OneActive'
  BY DEF CatalogueInv, OneActive
<1> QED
  BY <1>2, <1>3

LEMMA ReadsPreserves ==
  ASSUME CatalogueInv, NEW c \in Call, NEW v \in Version,
         NEW op \in {"activate", "deprecate"}, Reads(c, op, v)
  PROVE  CatalogueInv'
<1> USE DEF CatalogueInv
<1> DEFINE next == [call[c] EXCEPT !.op = op, !.st = "read", !.v = {v}, !.saw = status]
<1>1. /\ call[c].st = "idle"
      /\ Transition(status[v], Target(op))
      /\ call' = [call EXCEPT ![c] = next]
      /\ UNCHANGED <<status, rowLock, customer, parent, items, overlap>>
  BY DEF Reads, parts, TypeOK
<1>2. call[c] \in CallState /\ status \in [Version -> BomVersionStatus]
  BY DEF TypeOK
<1>3. /\ next \in CallState /\ next.op = op /\ next.st = "read" /\ next.v = {v}
      /\ next.saw = status /\ next.off = call[c].off /\ next.new = call[c].new
  BY <1>2 DEF CallState
<1> HIDE DEF next
<1>4. /\ call' \in [Call -> CallState] /\ call'[c] = next
      /\ \A d \in Call \ {c} : call'[d] = call[d]
  BY <1>1, <1>3, CallMoves
<1>5. TypeOK'
  BY <1>1, <1>4 DEF TypeOK
<1>6. next.new = {}
  BY <1>1, <1>3 DEF NewIsOwn
<1>7. LocksAreHeld' /\ NewIsOwn' /\ AnnouncedOnce'
  BY <1>1, <1>3, <1>4, <1>6, CustomersKept
<1>8. ASSUME ~ overlap PROVE SeenEarlier(c)'
  <2>1. next.off = {}
    BY <1>1, <1>3, <1>8 DEF VersionsAreSeen, SeenEarlier
  <2>2. \A w \in Version : Rank(next.saw[w]) <= Rank(status'[w])
    BY <1>1, <1>3 DEF Rank
  <2> QED
    BY <1>1, <1>3, <1>4, <2>1, <2>2 DEF SeenEarlier
<1>9. VersionsAreSeen' /\ OneActive'
  BY <1>1, <1>4, <1>8, VersionsKept
<1> QED
  BY <1>5, <1>7, <1>9

LEMMA SelectsPreserves ==
  ASSUME CatalogueInv, NEW c \in Call, Selects(c)
  PROVE  CatalogueInv'
<1> USE DEF CatalogueInv
<1> DEFINE off == {w \in Version \ call[c].v : status[w] = "active"}
           next == [call[c] EXCEPT !.st = "selected", !.off = off]
<1>1. /\ call[c].op = "activate" /\ call[c].st = "read"
      /\ call' = [call EXCEPT ![c] = next]
      /\ UNCHANGED <<status, rowLock, customer, parent, items, overlap>>
  BY DEF Selects, parts, TypeOK
<1>2. call[c] \in CallState
  BY DEF TypeOK
<1>3. /\ next \in CallState /\ next.op = call[c].op /\ next.st = "selected"
      /\ next.v = call[c].v /\ next.saw = call[c].saw /\ next.off = off
      /\ next.new = call[c].new
  BY <1>2 DEF CallState
<1> HIDE DEF next
<1>4. /\ call' \in [Call -> CallState] /\ call'[c] = next
      /\ \A d \in Call \ {c} : call'[d] = call[d]
  BY <1>1, <1>3, CallMoves
<1>5. TypeOK'
  BY <1>1, <1>4 DEF TypeOK
<1>6. next.new = {}
  BY <1>1, <1>3 DEF NewIsOwn
<1>7. LocksAreHeld' /\ NewIsOwn' /\ AnnouncedOnce'
  BY <1>1, <1>3, <1>4, <1>6, CustomersKept
<1>8. ASSUME ~ overlap PROVE SeenEarlier(c)'
  <2>1. PICK v \in Version : call[c].v = {v} /\ Transition(call[c].saw[v], Target(call[c].op))
    BY <1>1, <1>8 DEF VersionsAreSeen, SeenEarlier
  <2>2. \A w \in Version : Rank(next.saw[w]) <= Rank(status'[w])
    BY <1>1, <1>3, <1>8 DEF VersionsAreSeen, SeenEarlier
  <2> QED
    BY <1>1, <1>3, <1>4, <2>1, <2>2 DEF SeenEarlier
<1>9. VersionsAreSeen' /\ OneActive'
  BY <1>1, <1>4, <1>8, VersionsKept
<1> QED
  BY <1>5, <1>7, <1>9

LEMMA LocksPreserves ==
  ASSUME CatalogueInv, NEW c \in Call, Locks(c)
  PROVE  CatalogueInv'
<1> USE DEF CatalogueInv
<1> DEFINE off == {w \in call[c].off : status[w] = "active"}
           next == [call[c] EXCEPT !.st = "locked", !.off = off]
<1>1. /\ call[c].st = "selected"
      /\ call' = [call EXCEPT ![c] = next]
      /\ rowLock' = [w \in Version |-> IF w \in call[c].off THEN c ELSE rowLock[w]]
      /\ UNCHANGED <<status, customer, parent, items, overlap>>
  BY DEF Locks, parts, TypeOK
<1>2. call[c] \in CallState
  BY DEF TypeOK
<1>3. /\ next \in CallState /\ next.op = call[c].op /\ next.st = "locked"
      /\ next.v = call[c].v /\ next.saw = call[c].saw /\ next.off = off
      /\ next.new = call[c].new
  BY <1>2 DEF CallState
<1> HIDE DEF next
<1>4. /\ call' \in [Call -> CallState] /\ call'[c] = next
      /\ \A d \in Call \ {c} : call'[d] = call[d]
  BY <1>1, <1>3, CallMoves
<1>5. TypeOK'
  BY <1>1, <1>4 DEF TypeOK
<1>6. next.new = {}
  BY <1>1, <1>3 DEF NewIsOwn
<1>7. LocksAreHeld' /\ NewIsOwn' /\ AnnouncedOnce'
  BY <1>1, <1>3, <1>4, <1>6, CustomersKept
<1>8. ASSUME ~ overlap PROVE SeenEarlier(c)'
  <2>1. PICK v \in Version :
          /\ call[c].v = {v}
          /\ Transition(call[c].saw[v], Target(call[c].op))
          /\ call[c].saw = status =>
               call[c].off = {w \in Version \ {v} : status[w] = "active"}
    BY <1>1, <1>8 DEF VersionsAreSeen, SeenEarlier
  <2>2. call[c].saw = status => off = {w \in Version \ {v} : status[w] = "active"}
    BY <2>1
  <2>3. \A w \in Version : Rank(next.saw[w]) <= Rank(status'[w])
    BY <1>1, <1>3, <1>8 DEF VersionsAreSeen, SeenEarlier
  <2>4. next.op \in {"activate", "deprecate"}
    BY <1>1, <1>3, <1>8 DEF VersionsAreSeen, SeenEarlier
  <2> QED
    BY <1>1, <1>3, <1>4, <2>1, <2>2, <2>3, <2>4 DEF SeenEarlier
<1>9. VersionsAreSeen' /\ OneActive'
  BY <1>1, <1>4, <1>8, VersionsKept
<1> QED
  BY <1>5, <1>7, <1>9

\* A call that ends holds nothing.
LEMMA EndsFrees ==
  ASSUME TypeOK, NEW c \in Call, Ends(c)
  PROVE  /\ call' \in [Call -> CallState]
         /\ call'[c].st = "over" /\ call'[c].new = {}
         /\ \A d \in Call \ {c} : call'[d] = call[d]
         /\ rowLock' \in [Version -> Call \cup {NoCall}]
<1>1. CallIn("over") \in CallState /\ CallIn("over").st = "over" /\ CallIn("over").new = {}
  BY DEF CallIn, CallState, BomVersionStatus
<1>2. /\ call' \in [Call -> CallState] /\ call'[c] = CallIn("over")
      /\ \A d \in Call \ {c} : call'[d] = call[d]
  BY <1>1, CallMoves DEF Ends
<1>3. rowLock' \in [Version -> Call \cup {NoCall}]
  BY DEF Ends, TypeOK
<1> QED
  BY <1>1, <1>2, <1>3

\* A write on what is still stored moves every version forward, its own for
\* certain, and leaves one version active at most.
LEMMA WritesForward ==
  ASSUME CatalogueInv, NEW c \in Call, Writes(c), ~ overlap, call[c].saw = status
  PROVE  /\ \A w \in Version : Rank(status[w]) <= Rank(status'[w])
         /\ \E v \in Version : Rank(status[v]) < Rank(status'[v])
         /\ \A v, w \in Version : status'[v] = "active" /\ status'[w] = "active" => v = w
<1> USE DEF CatalogueInv
<1>1. /\ call[c].st \in {"read", "locked"}
      /\ call[c].op = "activate" => call[c].st = "locked"
      /\ call[c].op \in {"activate", "deprecate"}
  BY DEF Writes
<1>2. PICK v \in Version :
        /\ call[c].v = {v}
        /\ Transition(status[v], Target(call[c].op))
        /\ call[c].st = "locked" =>
             call[c].off = {w \in Version \ {v} : status[w] = "active"}
  BY <1>1 DEF VersionsAreSeen, SeenEarlier
<1>3. v = CHOOSE w \in call[c].v : TRUE
  BY <1>2
<1>4. status' = [w \in Version |-> IF w = v THEN Target(call[c].op)
                                   ELSE IF w \in call[c].off THEN "deprecated" ELSE status[w]]
  BY <1>3 DEF Writes
<1>5. status \in [Version -> BomVersionStatus]
  BY DEF TypeOK
<1>6. call[c].st = "read" => call[c].off = {}
  BY DEF VersionsAreSeen, SeenEarlier
<1>7. status'[v] = Target(call[c].op) /\ Rank(status[v]) < Rank(status'[v])
  BY <1>1, <1>2, <1>4 DEF Transition, Target, Rank
<1>8. ASSUME NEW w \in Version PROVE Rank(status[w]) <= Rank(status'[w])
  BY <1>4, <1>5, <1>7 DEF Rank, BomVersionStatus
<1>9. \A u, w \in Version : status'[u] = "active" /\ status'[w] = "active" => u = w
  <2>1. CASE call[c].op = "activate"
    <3>1. \A w \in Version \ {v} : status'[w] # "active"
      BY <1>1, <1>2, <1>4, <2>1
    <3> QED
      BY <3>1
  <2>2. CASE call[c].op = "deprecate"
    <3>1. \A w \in Version : status'[w] = "active" => status[w] = "active"
      BY <1>4, <2>2 DEF Target
    <3> QED
      BY <3>1 DEF OneActive
  <2> QED
    BY <1>1, <2>1, <2>2
<1> QED
  BY <1>7, <1>8, <1>9

LEMMA WritesPreserves ==
  ASSUME CatalogueInv, NEW c \in Call, Writes(c)
  PROVE  CatalogueInv'
<1> USE DEF CatalogueInv
<1>1. /\ Ends(c) /\ UNCHANGED <<customer, parent, items>>
      /\ overlap' = (overlap \/ call[c].saw # status)
      /\ call[c].st \in {"read", "locked"}
  BY DEF Writes, parts
<1>2. /\ call' \in [Call -> CallState]
      /\ call'[c].st = "over" /\ call'[c].new = {}
      /\ \A d \in Call \ {c} : call'[d] = call[d]
      /\ rowLock' \in [Version -> Call \cup {NoCall}]
  BY <1>1, EndsFrees
<1>3. status' \in [Version -> BomVersionStatus]
  BY DEF Writes, TypeOK, BomVersionStatus, Target
<1>4. overlap' \in BOOLEAN
  BY <1>1 DEF TypeOK
<1>5. TypeOK'
  BY <1>1, <1>2, <1>3, <1>4 DEF TypeOK
<1>6. LocksAreHeld' /\ NewIsOwn' /\ AnnouncedOnce'
  BY <1>1, <1>2, CustomersKept
<1>7. CASE overlap'
  BY <1>5, <1>6, <1>7 DEF VersionsAreSeen, OneActive
<1>8. CASE ~ overlap'
  <2>1. ~ overlap /\ call[c].saw = status
    BY <1>1, <1>8
  <2>2. /\ \A w \in Version : Rank(status[w]) <= Rank(status'[w])
        /\ \E v \in Version : Rank(status[v]) < Rank(status'[v])
        /\ \A v, w \in Version : status'[v] = "active" /\ status'[w] = "active" => v = w
    BY <2>1, WritesForward
  <2>3. ASSUME NEW d \in Call \ {c} PROVE SeenEarlier(d)'
    <3>1. SeenEarlier(d) /\ call'[d] = call[d]
      BY <1>2, <2>1 DEF VersionsAreSeen
    <3>2. \A s : Rank(s) \in Nat
      BY DEF Rank
    <3>3. CASE call[d].st \in {"read", "selected", "locked"}
      <4>1. \A w \in Version : Rank(call[d].saw[w]) <= Rank(status[w])
        BY <3>1, <3>3 DEF SeenEarlier
      <4>2. \A w \in Version : Rank(call[d].saw[w]) <= Rank(status'[w])
        BY <2>2, <3>2, <4>1
      <4>3. call[d].saw # status'
        <5>1. PICK v \in Version : Rank(status[v]) < Rank(status'[v])
          BY <2>2
        <5>2. Rank(call[d].saw[v]) # Rank(status'[v])
          BY <3>2, <4>1, <5>1
        <5> QED
          BY <5>2
      <4>4. PICK v \in Version :
              call[d].v = {v} /\ Transition(call[d].saw[v], Target(call[d].op))
        BY <3>1, <3>3 DEF SeenEarlier
      <4> QED
        BY <3>1, <3>3, <4>2, <4>3, <4>4 DEF SeenEarlier
    <3>4. CASE call[d].st \notin {"read", "selected", "locked"}
      BY <3>1, <3>4 DEF SeenEarlier
    <3> QED
      BY <3>3, <3>4
  <2>4. SeenEarlier(c)'
    BY <1>2 DEF SeenEarlier
  <2>5. VersionsAreSeen'
    BY <2>3, <2>4 DEF VersionsAreSeen
  <2>6. OneActive'
    BY <2>2 DEF OneActive
  <2> QED
    BY <1>5, <1>6, <2>5, <2>6
<1> QED
  BY <1>7, <1>8

\* An import changes nothing of the versions.
LEMMA ImportKeepsVersions ==
  ASSUME CatalogueInv, NEW c \in Call, UNCHANGED <<status, overlap>>,
         \A d \in Call \ {c} : call'[d] = call[d],
         call'[c].st \in {"upserting", "committed", "over"}
  PROVE  VersionsAreSeen' /\ OneActive'
<1>1. SeenEarlier(c)'
  BY DEF SeenEarlier
<1> QED
  BY <1>1, VersionsKept

LEMMA ImportStartsPreserves ==
  ASSUME CatalogueInv, NEW c \in Call, ImportStarts(c)
  PROVE  CatalogueInv'
<1> USE DEF CatalogueInv
<1> DEFINE next == [call[c] EXCEPT !.op = "import", !.st = "upserting", !.at = 1]
<1>1. /\ call[c].st = "idle"
      /\ call' = [call EXCEPT ![c] = next]
      /\ UNCHANGED <<status, rowLock, customer, parent, items, overlap>>
  BY DEF ImportStarts, parts, TypeOK
<1>2. call[c] \in CallState
  BY DEF TypeOK
<1>3. next \in CallState /\ next.st = "upserting" /\ next.at = 1 /\ next.new = call[c].new
  BY <1>2 DEF CallState
<1> HIDE DEF next
<1>4. /\ call' \in [Call -> CallState] /\ call'[c] = next
      /\ \A d \in Call \ {c} : call'[d] = call[d]
  BY <1>1, <1>3, CallMoves
<1>5. TypeOK'
  BY <1>1, <1>4 DEF TypeOK
<1>6. VersionsAreSeen' /\ OneActive'
  BY <1>1, <1>3, <1>4, ImportKeepsVersions
<1>7. LocksAreHeld'
  <2>1. \A k \in Customer : customer[k].lock # c /\ ~ (k < 1)
    BY <1>1, BoundAssumption DEF LocksAreHeld, Customer
  <2> QED
    BY <1>1, <1>3, <1>4, <2>1 DEF LocksAreHeld
<1>8. NewIsOwn'
  <2>1. next.new = {}
    BY <1>1, <1>3 DEF NewIsOwn
  <2> QED
    BY <1>1, <1>4, <2>1 DEF NewIsOwn
<1>9. AnnouncedOnce'
  BY <1>1 DEF AnnouncedOnce
<1> QED
  BY <1>5, <1>6, <1>7, <1>8, <1>9

LEMMA UpsertsPreserves ==
  ASSUME CatalogueInv, NEW c \in Call, Upserts(c)
  PROVE  CatalogueInv'
<1> USE DEF CatalogueInv
<1> DEFINE k == call[c].at
           new == IF customer[k].stored THEN call[c].new ELSE call[c].new \cup {k}
           next == [call[c] EXCEPT !.at = k + 1, !.new = new]
<1>1. /\ call[c].st = "upserting" /\ k <= Customers /\ customer[k].lock = NoCall
      /\ customer' = [customer EXCEPT ![k].lock = c]
      /\ call' = [call EXCEPT ![c] = next]
      /\ UNCHANGED <<status, rowLock, parent, items, overlap>>
  BY DEF Upserts, parts, TypeOK
<1>2. call[c] \in CallState /\ k \in Nat
  BY DEF TypeOK, CallState
<1>3. k \in Customer
  BY <1>1, <1>2, BoundAssumption DEF LocksAreHeld, Customer
<1>4. new \in SUBSET Customer
  BY <1>2, <1>3 DEF CallState
<1>11. call[c].at = k
  BY DEF k
<1> HIDE DEF new, k
<1>5. /\ next \in CallState /\ next.st = "upserting" /\ next.at = k + 1 /\ next.new = new
  <2>1. k + 1 \in Nat
    BY <1>2
  <2>2. next \in CallState /\ next.at = k + 1 /\ next.new = new /\ next.st = call[c].st
    BY <1>2, <1>4, <2>1 DEF CallState
  <2> QED
    BY <1>1, <2>2
<1> HIDE DEF next
<1>6. /\ call' \in [Call -> CallState] /\ call'[c] = next
      /\ \A d \in Call \ {c} : call'[d] = call[d]
  BY <1>1, <1>5, CallMoves
<1>7. /\ customer' \in [Customer -> [stored : BOOLEAN, lock : Call \cup {NoCall}, announced : Nat]]
      /\ customer'[k].lock = c
      /\ \A j \in Customer \ {k} : customer'[j] = customer[j]
      /\ \A j \in Customer : customer'[j].stored = customer[j].stored
                             /\ customer'[j].announced = customer[j].announced
  BY <1>1, <1>3 DEF TypeOK
<1>8. TypeOK'
  BY <1>1, <1>6, <1>7 DEF TypeOK
<1>9. VersionsAreSeen' /\ OneActive'
  BY <1>1, <1>5, <1>6, ImportKeepsVersions
<1>10. k >= 1 /\ k \in Nat /\ Customer \subseteq Nat
  BY <1>3, BoundAssumption DEF Customer
<1>12. LocksAreHeld'
  <2>1. ASSUME NEW d \in Call PROVE call'[d].st = "upserting" => call'[d].at >= 1
    BY <1>5, <1>6, <1>10 DEF LocksAreHeld
  <2>2. ASSUME NEW j \in Customer, NEW d \in Call
        PROVE  customer'[j].lock = d <=> call'[d].st = "upserting" /\ j < call'[d].at
    <3>1. CASE d = c /\ j = k
      BY <3>1, <1>5, <1>6, <1>7, <1>10
    <3>2. CASE d = c /\ j # k
      <4>1. j < k + 1 <=> j < k
        BY <3>2, <1>10
      <4> QED
        BY <3>2, <4>1, <1>1, <1>5, <1>6, <1>7, <1>11 DEF LocksAreHeld
    <3>3. CASE d # c /\ j = k
      <4>1. ~ (call[d].st = "upserting" /\ k < call[d].at)
        BY <1>1, <1>3, NullAssumption DEF LocksAreHeld
      <4> QED
        BY <3>3, <4>1, <1>6, <1>7
    <3>4. CASE d # c /\ j # k
      BY <3>4, <1>6, <1>7 DEF LocksAreHeld
    <3> QED
      BY <3>1, <3>2, <3>3, <3>4
  <2> QED
    BY <2>1, <2>2 DEF LocksAreHeld
<1>13. NewIsOwn'
  <2>1. ASSUME NEW d \in Call \ {c}, NEW j \in call[d].new
        PROVE  /\ customer'[j].announced = 0
               /\ \/ call'[d].st = "upserting" /\ j < call'[d].at /\ ~ customer'[j].stored
                  \/ /\ call'[d].st = "committed" /\ customer'[j].stored
                     /\ \A e \in Call \ {d} : j \notin call'[e].new
    <3>1. j \in Customer
      BY DEF TypeOK, CallState
    <3>2. CASE call[d].st = "upserting"
      BY <3>1, <3>2, <1>6, <1>7 DEF NewIsOwn
    <3>3. CASE call[d].st = "committed"
      <4>1. customer[j].stored /\ \A e \in Call \ {d} : j \notin call[e].new
        BY <3>3 DEF NewIsOwn
      <4>2. j \notin next.new
        BY <4>1, <1>5 DEF new, k
      <4>3. \A e \in Call \ {d} : j \notin call'[e].new
        BY <4>1, <4>2, <1>6
      <4> QED
        BY <3>1, <3>3, <4>1, <4>3, <1>6, <1>7 DEF NewIsOwn
    <3> QED
      BY <3>2, <3>3 DEF NewIsOwn
  <2>2. ASSUME NEW j \in next.new
        PROVE  customer'[j].announced = 0 /\ j < next.at /\ ~ customer'[j].stored
    <3>1. CASE j \in call[c].new
      <4>1. /\ j \in Customer /\ customer[j].announced = 0 /\ j < k /\ ~ customer[j].stored
        BY <3>1, <1>1, <1>2, <1>11 DEF NewIsOwn, CallState
      <4>2. j < k + 1
        BY <4>1, <1>10
      <4> QED
        BY <4>1, <4>2, <1>5, <1>7
    <3>2. CASE j \notin call[c].new
      <4>1. j = k /\ ~ customer[k].stored
        BY <3>2, <1>5 DEF new
      <4>2. customer[k].announced = 0
        BY <4>1, <1>3 DEF AnnouncedOnce, TypeOK
      <4>3. k < k + 1
        BY <1>10
      <4> QED
        BY <4>1, <4>2, <4>3, <1>3, <1>5, <1>7
    <3> QED
      BY <3>1, <3>2
  <2> QED
    BY <2>1, <2>2, <1>5, <1>6 DEF NewIsOwn
<1>14. AnnouncedOnce'
  BY <1>7 DEF AnnouncedOnce
<1> QED
  BY <1>8, <1>9, <1>12, <1>13, <1>14

\* An import past its last customer holds the rows of all.
LEMMA ReadyHoldsAll ==
  ASSUME CatalogueInv, NEW c \in Call, call[c].st = "upserting", call[c].at > Customers
  PROVE  \A k \in Customer : k < call[c].at /\ customer[k].lock = c
<1> SUFFICES ASSUME NEW k \in Customer PROVE k < call[c].at /\ customer[k].lock = c
  OBVIOUS
<1>1. call[c].at \in Nat
  BY DEF CatalogueInv, TypeOK, CallState
<1>2. k \in Nat /\ k <= Customers
  BY BoundAssumption DEF Customer
<1>3. k < call[c].at
  BY <1>1, <1>2, BoundAssumption
<1> QED
  BY <1>3 DEF CatalogueInv, LocksAreHeld

LEMMA ImportCommitsPreserves ==
  ASSUME CatalogueInv, NEW c \in Call, ImportCommits(c)
  PROVE  CatalogueInv'
<1> USE DEF CatalogueInv
<1> DEFINE next == [call[c] EXCEPT !.st = "committed"]
<1>1. /\ call[c].st = "upserting" /\ call[c].at > Customers
      /\ customer' = [k \in Customer |->
           [customer[k] EXCEPT !.stored = TRUE, !.lock = IF @ = c THEN NoCall ELSE @]]
      /\ call' = [call EXCEPT ![c] = next]
      /\ UNCHANGED <<status, rowLock, parent, items, overlap>>
  BY DEF ImportCommits, parts, TypeOK
<1>2. call[c] \in CallState /\ call[c].at \in Nat
  BY DEF TypeOK, CallState
<1>3. next \in CallState /\ next.st = "committed" /\ next.new = call[c].new
  BY <1>2 DEF CallState
<1> HIDE DEF next
<1>4. /\ call' \in [Call -> CallState] /\ call'[c] = next
      /\ \A d \in Call \ {c} : call'[d] = call[d]
  BY <1>1, <1>3, CallMoves
<1>5. /\ customer' \in [Customer -> [stored : BOOLEAN, lock : Call \cup {NoCall}, announced : Nat]]
      /\ \A k \in Customer : /\ customer'[k].stored
                             /\ customer'[k].lock = IF customer[k].lock = c THEN NoCall
                                                    ELSE customer[k].lock
                             /\ customer'[k].announced = customer[k].announced
  <2>1. ASSUME NEW k \in Customer
        PROVE  /\ customer'[k] \in [stored : BOOLEAN, lock : Call \cup {NoCall}, announced : Nat]
               /\ customer'[k].stored
               /\ customer'[k].lock = IF customer[k].lock = c THEN NoCall ELSE customer[k].lock
               /\ customer'[k].announced = customer[k].announced
    <3>1. customer[k] \in [stored : BOOLEAN, lock : Call \cup {NoCall}, announced : Nat]
      BY DEF TypeOK
    <3> QED
      BY <1>1, <3>1
  <2>2. customer' = [k \in Customer |-> customer'[k]]
    BY <1>1
  <2> QED
    BY <2>1, <2>2
<1>6. TypeOK'
  BY <1>1, <1>4, <1>5 DEF TypeOK
<1>7. VersionsAreSeen' /\ OneActive'
  BY <1>1, <1>3, <1>4, ImportKeepsVersions
\* The import has upserted them all: it held the lock of every customer.
<1>8. \A k \in Customer : k < call[c].at /\ customer[k].lock = c
  BY <1>1, ReadyHoldsAll
<1>9. LocksAreHeld'
  <2>1. ASSUME NEW d \in Call PROVE call'[d].st = "upserting" => call'[d].at >= 1
    BY <1>3, <1>4 DEF LocksAreHeld
  <2>2. ASSUME NEW k \in Customer, NEW d \in Call
        PROVE  customer'[k].lock = d <=> call'[d].st = "upserting" /\ k < call'[d].at
    <3>1. customer'[k].lock # d
      BY <1>5, <1>8, NullAssumption
    <3>2. d # c => ~ (call[d].st = "upserting" /\ k < call[d].at)
      BY <1>8 DEF LocksAreHeld
    <3> QED
      BY <3>1, <3>2, <1>3, <1>4
  <2> QED
    BY <2>1, <2>2 DEF LocksAreHeld
<1>10. NewIsOwn'
  <2>1. ASSUME NEW d \in Call, NEW k \in call[d].new, k \in Customer
        PROVE  /\ customer[k].announced = 0
               /\ d # c => call[d].st = "committed"
               /\ \A e \in Call \ {d} : k \notin call[e].new
    <3>1. customer[k].announced = 0
      BY DEF NewIsOwn
    <3>2. \A e \in Call \ {c} : ~ (call[e].st = "upserting" /\ k < call[e].at)
      BY <1>8, <2>1 DEF LocksAreHeld
    <3>3. CASE d = c
      <4>1. ~ customer[k].stored
        BY <1>1, <3>3 DEF NewIsOwn
      <4> QED
        BY <3>1, <3>2, <3>3, <4>1 DEF NewIsOwn
    <3>4. CASE d # c
      BY <3>1, <3>2, <3>4 DEF NewIsOwn
    <3> QED
      BY <3>3, <3>4
  <2>2. \A d \in Call : call[d].new \subseteq Customer /\ call'[d].new = call[d].new
    BY <1>3, <1>4 DEF TypeOK, CallState
  <2>3. ASSUME NEW d \in Call, NEW k \in call'[d].new
        PROVE  /\ customer'[k].announced = 0
               /\ call'[d].st = "committed" /\ customer'[k].stored
               /\ \A e \in Call \ {d} : k \notin call'[e].new
    BY <2>1, <2>2, <1>3, <1>4, <1>5
  <2> QED
    BY <2>3 DEF NewIsOwn
<1>11. AnnouncedOnce'
  BY <1>5 DEF AnnouncedOnce
<1> QED
  BY <1>6, <1>7, <1>9, <1>10, <1>11

LEMMA PublishesPreserves ==
  ASSUME CatalogueInv, NEW c \in Call, NEW k \in Customer, Publishes(c, k)
  PROVE  CatalogueInv'
<1> USE DEF CatalogueInv
<1> DEFINE next == [call[c] EXCEPT !.new = @ \ {k}]
<1>1. /\ call[c].st = "committed" /\ k \in call[c].new
      /\ customer' = [customer EXCEPT ![k].announced = @ + 1]
      /\ call' = [call EXCEPT ![c] = next]
      /\ UNCHANGED <<status, rowLock, parent, items, overlap>>
  BY DEF Publishes, parts, TypeOK
<1>2. call[c] \in CallState
  BY DEF TypeOK
<1>3. /\ next \in CallState /\ next.st = "committed" /\ next.new = call[c].new \ {k}
      /\ next.at = call[c].at
  BY <1>1, <1>2 DEF CallState
<1> HIDE DEF next
<1>4. /\ call' \in [Call -> CallState] /\ call'[c] = next
      /\ \A d \in Call \ {c} : call'[d] = call[d]
  BY <1>1, <1>3, CallMoves
<1>5. customer[k].announced = 0 /\ customer[k].stored
      /\ \A d \in Call \ {c} : k \notin call[d].new
  BY <1>1 DEF NewIsOwn
<1>6. /\ customer' \in [Customer -> [stored : BOOLEAN, lock : Call \cup {NoCall}, announced : Nat]]
      /\ customer'[k].announced = 1 /\ customer'[k].stored
      /\ customer'[k].lock = customer[k].lock
      /\ \A j \in Customer \ {k} : customer'[j] = customer[j]
  BY <1>1, <1>5 DEF TypeOK
<1>7. TypeOK'
  BY <1>1, <1>4, <1>6 DEF TypeOK
<1>8. VersionsAreSeen' /\ OneActive'
  BY <1>1, <1>3, <1>4, ImportKeepsVersions
<1>9. LocksAreHeld'
  BY <1>1, <1>3, <1>4, <1>6 DEF LocksAreHeld
<1>10. NewIsOwn'
  <2>1. ASSUME NEW d \in Call, NEW j \in call'[d].new
        PROVE  /\ j # k /\ j \in Customer /\ j \in call[d].new
               /\ call'[d].st = call[d].st /\ call'[d].at = call[d].at
    BY <1>1, <1>3, <1>4, <1>5 DEF TypeOK, CallState
  <2>2. \A d \in Call : call'[d].new \subseteq call[d].new
    BY <1>3, <1>4
  <2>3. ASSUME NEW d \in Call, NEW j \in call'[d].new
        PROVE  /\ customer'[j].announced = 0
               /\ \/ call'[d].st = "upserting" /\ j < call'[d].at /\ ~ customer'[j].stored
                  \/ /\ call'[d].st = "committed" /\ customer'[j].stored
                     /\ \A e \in Call \ {d} : j \notin call'[e].new
    BY <2>1, <2>2, <1>6 DEF NewIsOwn
  <2> QED
    BY <2>3 DEF NewIsOwn
<1>11. AnnouncedOnce'
  BY <1>6 DEF AnnouncedOnce
<1> QED
  BY <1>7, <1>8, <1>9, <1>10, <1>11

LEMMA CallEndsPreserves ==
  ASSUME CatalogueInv, NEW c \in Call, CallEnds(c)
  PROVE  CatalogueInv'
<1> USE DEF CatalogueInv
<1>1. /\ Ends(c) /\ UNCHANGED <<status, parent, items, overlap>>
      /\ customer' = [k \in Customer |->
           [customer[k] EXCEPT !.lock = IF @ = c THEN NoCall ELSE @]]
  BY DEF CallEnds, parts
<1>2. /\ call' \in [Call -> CallState]
      /\ call'[c].st = "over" /\ call'[c].new = {}
      /\ \A d \in Call \ {c} : call'[d] = call[d]
      /\ rowLock' \in [Version -> Call \cup {NoCall}]
  BY <1>1, EndsFrees
<1>3. ASSUME NEW k \in Customer
      PROVE  /\ customer'[k] \in [stored : BOOLEAN, lock : Call \cup {NoCall}, announced : Nat]
             /\ customer'[k].stored = customer[k].stored
             /\ customer'[k].lock = IF customer[k].lock = c THEN NoCall ELSE customer[k].lock
             /\ customer'[k].announced = customer[k].announced
  <2>1. customer[k] \in [stored : BOOLEAN, lock : Call \cup {NoCall}, announced : Nat]
    BY DEF TypeOK
  <2> QED
    BY <1>1, <2>1
<1>4. customer' \in [Customer -> [stored : BOOLEAN, lock : Call \cup {NoCall}, announced : Nat]]
  <2>1. customer' = [k \in Customer |-> customer'[k]]
    BY <1>1
  <2> QED
    BY <1>3, <2>1
<1>5. TypeOK'
  BY <1>1, <1>2, <1>4 DEF TypeOK
<1>6. VersionsAreSeen' /\ OneActive'
  BY <1>1, <1>2, ImportKeepsVersions
<1>7. LocksAreHeld'
  <2>1. ASSUME NEW d \in Call PROVE call'[d].st = "upserting" => call'[d].at >= 1
    BY <1>2 DEF LocksAreHeld
  <2>2. ASSUME NEW k \in Customer, NEW d \in Call
        PROVE  customer'[k].lock = d <=> call'[d].st = "upserting" /\ k < call'[d].at
    <3>1. CASE d = c
      BY <3>1, <1>2, <1>3, NullAssumption
    <3>2. CASE d # c
      <4>1. customer'[k].lock = d <=> customer[k].lock = d
        BY <3>2, <1>3, NullAssumption
      <4> QED
        BY <3>2, <4>1, <1>2 DEF LocksAreHeld
    <3> QED
      BY <3>1, <3>2
  <2> QED
    BY <2>1, <2>2 DEF LocksAreHeld
<1>8. NewIsOwn'
  <2>1. \A d \in Call : call'[d].new \subseteq call[d].new
    BY <1>2
  <2>2. ASSUME NEW d \in Call, NEW k \in call'[d].new
        PROVE  /\ customer'[k].announced = 0
               /\ \/ call'[d].st = "upserting" /\ k < call'[d].at /\ ~ customer'[k].stored
                  \/ /\ call'[d].st = "committed" /\ customer'[k].stored
                     /\ \A e \in Call \ {d} : k \notin call'[e].new
    <3>1. d # c /\ k \in call[d].new /\ k \in Customer
      BY <1>2 DEF TypeOK, CallState
    <3> QED
      BY <3>1, <2>1, <1>2, <1>3 DEF NewIsOwn
  <2> QED
    BY <2>2 DEF NewIsOwn
<1>9. AnnouncedOnce'
  BY <1>3 DEF AnnouncedOnce
<1> QED
  BY <1>5, <1>6, <1>7, <1>8, <1>9

LEMMA NextPreserves == CatalogueInv /\ [Next]_vars => CatalogueInv'
<1> SUFFICES ASSUME CatalogueInv, [Next]_vars PROVE CatalogueInv'
  OBVIOUS
<1>1. CASE UNCHANGED vars
  BY <1>1 DEF vars, CatalogueInv, TypeOK, LocksAreHeld, NewIsOwn, AnnouncedOnce,
              VersionsAreSeen, SeenEarlier, OneActive, Transition, Rank
<1>2. CASE Next
  <2>1. PICK c \in Call :
          \/ \E v \in Version, op \in {"activate", "deprecate"} : Reads(c, op, v)
          \/ Selects(c) \/ Locks(c) \/ Writes(c)
          \/ ImportStarts(c) \/ Upserts(c) \/ ImportCommits(c)
          \/ \E k \in Customer : Publishes(c, k)
          \/ CallEnds(c)
    BY <1>2 DEF Next
  <2> QED
    BY <2>1, ReadsPreserves, SelectsPreserves, LocksPreserves, WritesPreserves,
       ImportStartsPreserves, UpsertsPreserves, ImportCommitsPreserves,
       PublishesPreserves, CallEndsPreserves
<1> QED
  BY <1>1, <1>2

\* However calls on the versions and imports overlap, fail and die, what each of
\* them relies on holds (product/service.py, state_machine.py).
THEOREM CatalogueInvariant == Spec => []CatalogueInv
<1> QED
  BY InitCatalogue, NextPreserves, PTL DEF Spec

\* Two versions of a product are active together only after two calls overlapped.
THEOREM OneActiveVersion == Spec => []OneActive
<1>1. CatalogueInv => OneActive
  BY DEF CatalogueInv
<1> QED
  BY <1>1, CatalogueInvariant, PTL

\* CustomerImported is published once at most for a customer, and only for one
\* that is stored (product/service.py, import_products).
THEOREM AnnouncedAtMostOnce == Spec => []AnnouncedOnce
<1>1. CatalogueInv => AnnouncedOnce
  BY DEF CatalogueInv
<1> QED
  BY <1>1, CatalogueInvariant, PTL

\* Only a call that overlapped another revives a deprecated version.
THEOREM DeprecatedForGood == Spec => DeprecatedStays
<1>1. ASSUME CatalogueInv, [Next]_vars
      PROVE  [~ overlap' => \A v \in Version : status[v] = "deprecated"
                                               => status'[v] = "deprecated"]_vars
  <2> SUFFICES ASSUME Next, ~ overlap', NEW v \in Version, status[v] = "deprecated"
               PROVE  status'[v] = "deprecated"
    BY <1>1
  <2>1. CASE UNCHANGED status
    BY <2>1
  <2>2. CASE \E c \in Call : Writes(c)
    <3>1. PICK c \in Call : Writes(c)
      BY <2>2
    <3>2. ~ overlap /\ call[c].saw = status
      BY <3>1, <1>1 DEF Writes
    <3>3. Rank(status[v]) <= Rank(status'[v])
      BY <1>1, <3>1, <3>2, WritesForward
    <3>4. status'[v] \in BomVersionStatus
      BY <1>1, <3>1 DEF Writes, CatalogueInv, TypeOK, BomVersionStatus, Target
    <3> QED
      BY <3>3, <3>4 DEF Rank, BomVersionStatus
  <2>3. UNCHANGED status \/ \E c \in Call : Writes(c)
    BY DEF Next, Reads, Selects, Locks, ImportStarts, Upserts, ImportCommits,
           Publishes, CallEnds
  <2> QED
    BY <2>1, <2>2, <2>3
<1> QED
  BY <1>1, CatalogueInvariant, PTL DEF Spec, DeprecatedStays

-----------------------------------------------------------------------------
(* The tree of parts *)

\* Where a walk up from a part may be.
Somewhere == Part \cup {NoPart}

\* The function that Above defines by recursion.
LEMMA AboveUnroll ==
  ASSUME TypeOK, NEW p \in Somewhere
  PROVE  \E A \in [Nat -> Somewhere] :
           /\ A[0] = p
           /\ \A n \in Nat : A[n + 1] = IF A[n] = NoPart THEN NoPart ELSE parent[A[n]]
           /\ \A k : Above(p, k) = A[k]
<1> DEFINE Step == [x \in Somewhere |-> IF x = NoPart THEN NoPart ELSE parent[x]]
           A == CHOOSE f : f = [n \in Nat |-> IF n = 0 THEN p
                  ELSE IF f[n - 1] = NoPart THEN NoPart ELSE parent[f[n - 1]]]
<1>1. \A k : Above(p, k) = A[k]
  BY DEF Above
<1>2. Step \in [Somewhere -> Somewhere]
  BY DEF TypeOK, Somewhere
<1>3. \A x \in Somewhere : Step[x] = IF x = NoPart THEN NoPart ELSE parent[x]
  OBVIOUS
<1>4. \A x \in Somewhere : (IF x = NoPart THEN NoPart ELSE parent[x]) \in Somewhere
  BY DEF TypeOK, Somewhere
<1> HIDE DEF Step
<1>5. PICK g \in [Nat -> Somewhere] : g[0] = p /\ \A n \in Nat : g[n + 1] = Step[g[n]]
  BY <1>2, Iteration
<1>6. g = [n \in Nat |-> IF n = 0 THEN p
             ELSE IF g[n - 1] = NoPart THEN NoPart ELSE parent[g[n - 1]]]
  <2>1. ASSUME NEW n \in Nat, n # 0
        PROVE  g[n] = IF g[n - 1] = NoPart THEN NoPart ELSE parent[g[n - 1]]
    <3>1. n - 1 \in Nat /\ (n - 1) + 1 = n
      BY <2>1
    <3>2. g[(n - 1) + 1] = Step[g[n - 1]] /\ g[n - 1] \in Somewhere
      BY <1>5, <3>1
    <3> QED BY <1>3, <3>1, <3>2
  <2> QED BY <1>5, <2>1
<1>7. A = [n \in Nat |-> IF n = 0 THEN p
             ELSE IF A[n - 1] = NoPart THEN NoPart ELSE parent[A[n - 1]]]
  BY <1>6
<1> HIDE DEF A
<1>8. A[0] = p /\ \A n \in Nat : A[n + 1] = IF A[n] = NoPart THEN NoPart ELSE parent[A[n]]
  <2>1. ASSUME NEW n \in Nat PROVE A[n + 1] = IF A[n] = NoPart THEN NoPart ELSE parent[A[n]]
    <3>1. n + 1 \in Nat /\ n + 1 # 0 /\ (n + 1) - 1 = n
      OBVIOUS
    <3> QED BY <1>7, <3>1
  <2> QED BY <1>7, <2>1
<1>9. A \in [Nat -> Somewhere]
  <2> DEFINE S == {n \in Nat : A[n] \in Somewhere}
  <2>1. 0 \in S
    BY <1>8
  <2>2. ASSUME NEW n \in Nat, n \in S PROVE n + 1 \in S
    BY <1>4, <1>8, <2>2
  <2> HIDE DEF S
  <2>3. Nat \subseteq S
    BY <2>1, <2>2, SetInduction
  <2> QED BY <1>7, <2>3 DEF S
<1> QED BY <1>1, <1>8, <1>9

\* One part further up.
LEMMA AboveSteps ==
  ASSUME TypeOK, NEW p \in Somewhere
  PROVE  /\ Above(p, 0) = p
         /\ \A k \in Nat :
              /\ Above(p, k) \in Somewhere
              /\ Above(p, k + 1) = IF Above(p, k) = NoPart THEN NoPart ELSE parent[Above(p, k)]
<1>1. PICK A \in [Nat -> Somewhere] :
        /\ A[0] = p
        /\ \A n \in Nat : A[n + 1] = IF A[n] = NoPart THEN NoPart ELSE parent[A[n]]
        /\ \A k : Above(p, k) = A[k]
  BY AboveUnroll
<1>2. Above(p, 0) = p
  BY <1>1
<1>3. ASSUME NEW k \in Nat
      PROVE  /\ Above(p, k) \in Somewhere
             /\ Above(p, k + 1) = IF Above(p, k) = NoPart THEN NoPart ELSE parent[Above(p, k)]
  <2>1. Above(p, k) = A[k] /\ Above(p, k + 1) = A[k + 1]
    BY <1>1
  <2>2. A[k] \in Somewhere
    BY <1>1
  <2>3. A[k + 1] = IF A[k] = NoPart THEN NoPart ELSE parent[A[k]]
    BY <1>1
  <2> QED BY <2>1, <2>2, <2>3
<1> QED BY <1>2, <1>3

\* From a part d steps above one that is m steps above p.
LEMMA AboveAdds ==
  ASSUME TypeOK, NEW p \in Somewhere, NEW m \in Nat, NEW d \in Nat
  PROVE  Above(Above(p, m), d) = Above(p, m + d)
<1>1. PICK q \in Somewhere : q = Above(p, m)
  BY AboveSteps
<1> DEFINE S == {n \in Nat : Above(q, n) = Above(p, m + n)}
<1>2. 0 \in S
  BY <1>1, AboveSteps
<1>3. ASSUME NEW n \in Nat, n \in S PROVE n + 1 \in S
  <2>1. Above(q, n + 1) = IF Above(q, n) = NoPart THEN NoPart ELSE parent[Above(q, n)]
    BY AboveSteps
  <2>2. m + n \in Nat /\ m + (n + 1) = (m + n) + 1
    OBVIOUS
  <2>3. Above(p, (m + n) + 1) =
          IF Above(p, m + n) = NoPart THEN NoPart ELSE parent[Above(p, m + n)]
    BY <2>2, AboveSteps
  <2>4. Above(q, n) = Above(p, m + n)
    BY <1>3
  <2> QED BY <2>1, <2>2, <2>3, <2>4
<1> HIDE DEF S
<1>4. Nat \subseteq S
  BY <1>2, <1>3, SetInduction
<1> QED BY <1>1, <1>4 DEF S

\* Nothing is above the top.
LEMMA AboveTop ==
  ASSUME TypeOK, NEW d \in Nat
  PROVE  Above(NoPart, d) = NoPart
<1>1. NoPart \in Somewhere
  BY DEF Somewhere
<1> DEFINE S == {n \in Nat : Above(NoPart, n) = NoPart}
<1>2. 0 \in S
  BY <1>1, AboveSteps
<1>3. ASSUME NEW n \in Nat, n \in S PROVE n + 1 \in S
  <2>1. Above(NoPart, n + 1) =
          IF Above(NoPart, n) = NoPart THEN NoPart ELSE parent[Above(NoPart, n)]
    BY <1>1, AboveSteps
  <2> QED BY <1>3, <2>1
<1> HIDE DEF S
<1> QED BY <1>2, <1>3, SetInduction DEF S

\* The parts form a forest: above a part there are fewer than all.
Forest == \A p \in Part : Above(p, Cardinality(Part)) = NoPart

\* Whatever is above a part is so within as many steps as there are parts.
LEMMA ForestBounds ==
  ASSUME TypeOK, Forest, NEW p \in Part, NEW k \in Nat, Above(p, k) # NoPart
  PROVE  k \in 0..Cardinality(Part)
<1> DEFINE N == Cardinality(Part)
<1>1. N \in Nat
  BY FiniteAssumption, FS_CardinalityType
<1> HIDE DEF N
<1>2. SUFFICES ASSUME k > N PROVE FALSE
  BY <1>1 DEF N
<1>3. k - N \in Nat /\ k = N + (k - N)
  BY <1>1, <1>2
<1>4. PICK d \in Nat : k = N + d
  BY <1>3
<1>5. p \in Somewhere /\ Above(p, N) = NoPart
  BY DEF Somewhere, Forest, N
<1>6. Above(Above(p, N), d) = Above(p, N + d)
  BY <1>1, <1>5, AboveAdds
<1> QED BY <1>4, <1>5, <1>6, AboveTop

\* Anchors are parts of the BOM.
LEMMA AnchorsAreParts == TypeOK => Anchors \subseteq Part /\ NoPart \notin Anchors
BY NullAssumption DEF TypeOK, Anchors, Hanging

\* Depth is the largest of the depths.
LEMMA DepthIsLargest ==
  ASSUME NEW p \in NodeMap
  PROVE  Depth(p) \in Depths(p) /\ \A k \in Depths(p) : k <= Depth(p)
<1>1. Depths(p) \in SUBSET Nat /\ (\A k \in Depths(p) : k <= DepthLimit) /\ Depths(p) # {}
  BY BoundAssumption DEF NodeMap, Depths
<1>2. \E m \in Depths(p) : \A k \in Depths(p) : k <= m
  BY <1>1, BoundAssumption, Largest
<1>3. \E m \in Depths(p) : \A k \in Depths(p) : m >= k
  BY <1>1, <1>2
<1>4. Depth(p) \in Depths(p) /\ \A k \in Depths(p) : Depth(p) >= k
  BY <1>3 DEF Depth
<1> QED BY <1>1, <1>4

\* Within the limit, an anchor above a part gives it a depth.
LEMMA AnchorGivesDepth ==
  ASSUME TypeOK, Forest, WithinLimit, NEW p \in Part, NEW k \in Nat, Above(p, k) \in Anchors
  PROVE  k \in Depths(p) /\ p \in NodeMap
<1>1. k \in 0..Cardinality(Part)
  BY AnchorsAreParts, ForestBounds
<1>2. k <= DepthLimit
  BY <1>1 DEF WithinLimit
<1> QED BY <1>2, BoundAssumption DEF Depths, NodeMap

\* The anchor at its depth, the furthest one above it, is a root of the answer,
\* and the parts on the way are nodes.
LEMMA NodesAreShown ==
  ASSUME TypeOK, Forest, WithinLimit, NEW p \in NodeMap
  PROVE  p \in Shown
<1>1. p \in Part /\ p \in Somewhere
  BY DEF NodeMap, Somewhere
<1>2. PICK m \in Nat : m = Depth(p)
  BY DepthIsLargest, BoundAssumption DEF Depths
<1>3. /\ m \in 0..DepthLimit /\ Above(p, m) \in Anchors
      /\ \A k \in Depths(p) : k <= m
  BY <1>2, DepthIsLargest DEF Depths
<1>4. Above(p, m) \in Part
  BY <1>3, AnchorsAreParts
<1>5. ASSUME NEW j \in 0..m PROVE Above(p, j) \in NodeMap
  <2>1. PICK q \in Somewhere : q = Above(p, j)
    BY <1>1, AboveSteps
  <2>2. PICK d \in Nat : m = j + d
    <3>1. m - j \in Nat /\ m = j + (m - j)
      OBVIOUS
    <3> QED BY <3>1
  <2>3. Above(q, d) \in Anchors
    BY <1>1, <1>3, <2>1, <2>2, AboveAdds
  <2>4. q \in Part
    BY <2>3, AboveTop, AnchorsAreParts DEF Somewhere
  <2> QED BY <2>1, <2>3, <2>4, AnchorGivesDepth
<1>6. Above(p, m) \in RootNodes
  <2>1. PICK r \in Part : r = Above(p, m)
    BY <1>4
  <2>2. r \in NodeMap
    BY <1>5, <2>1
  <2>3. Depth(r) \in Depths(r)
    BY <2>2, DepthIsLargest
  <2>4. PICK d \in Nat : d = Depth(r) /\ Above(r, d) \in Anchors
    BY <2>3, BoundAssumption DEF Depths
  <2>5. Above(p, m + d) \in Anchors /\ m + d \in Nat
    BY <1>1, <2>1, <2>4, AboveAdds
  <2>6. m + d <= m
    BY <1>1, <1>3, <2>5, AnchorGivesDepth
  <2>7. d = 0
    BY <2>6
  <2> QED BY <2>1, <2>2, <2>4, <2>7 DEF RootNodes
<1>7. m \in 0..Cardinality(Part)
  BY <1>1, <1>3, AnchorsAreParts, ForestBounds
<1> QED BY <1>1, <1>5, <1>6, <1>7 DEF Shown, NodeMap

\* A root has no node above it; an item is a node, for the walk up from it through
\* hanging items ends, at an anchor.
LEMMA TreeIsWhole == TypeOK /\ Forest => TreeShowsBom
<1> SUFFICES ASSUME TypeOK, Forest, WithinLimit PROVE TreeShowsBom
  BY DEF TreeShowsBom, PartsAreShownOnce, ItemsAreShown
<1>1. ASSUME NEW p \in RootNodes, parent[p] \in NodeMap PROVE FALSE
  <2>1. p \in NodeMap /\ p \in Part /\ Depth(p) = 0 /\ p \in Somewhere
    BY DEF RootNodes, NodeMap, Somewhere
  <2>2. PICK q \in Part : q = parent[p]
    BY <1>1 DEF NodeMap
  <2>3. PICK k \in Nat : Above(q, k) \in Anchors
    BY <1>1, <2>2, BoundAssumption DEF NodeMap, Depths
  <2>4. Above(p, 0 + 1) = q
    BY <2>1, <2>2, AboveSteps, NullAssumption
  <2>5. 1 + k \in Nat /\ 1 + k > 0
    OBVIOUS
  <2>6. Above(p, 1 + k) \in Anchors
    <3>1. Above(Above(p, 1), k) = Above(p, 1 + k)
      BY <2>1, AboveAdds
    <3> QED BY <2>3, <2>4, <3>1
  <2>7. 1 + k \in Depths(p)
    BY <2>1, <2>5, <2>6, AnchorGivesDepth
  <2>8. 1 + k <= 0
    BY <2>1, <2>7, DepthIsLargest
  <2> QED BY <2>5, <2>8
<1>2. ASSUME Hanging = {} PROVE items \subseteq Shown
  <2> SUFFICES ASSUME NEW p \in items PROVE p \in Shown
    OBVIOUS
  <2>1. p \in Part /\ p \in Somewhere /\ p \in Anchors
    BY <1>2 DEF TypeOK, Anchors, Somewhere
  <2>2. Above(p, 0) \in Anchors
    BY <2>1, AboveSteps
  <2> QED BY <2>1, <2>2, AnchorGivesDepth, NodesAreShown
<1>3. ASSUME Hanging # {} PROVE Hanging \subseteq Shown
  <2> SUFFICES ASSUME NEW p \in Hanging PROVE p \in Shown
    OBVIOUS
  <2>1. p \in Part /\ p \in Somewhere
    BY DEF TypeOK, Hanging, Somewhere
  <2> DEFINE T == {k \in Nat : \A j \in 0..k : Above(p, j) \in Hanging}
  <2>2. \A k \in T : k <= Cardinality(Part)
    <3> SUFFICES ASSUME NEW k \in T PROVE k <= Cardinality(Part)
      OBVIOUS
    <3>1. k \in Nat /\ Above(p, k) \in Hanging
      OBVIOUS
    <3>2. Above(p, k) # NoPart
      BY <3>1, NullAssumption DEF Hanging, TypeOK
    <3> QED BY <2>1, <3>1, <3>2, ForestBounds
  <2>3. 0 \in T
    BY <2>1, AboveSteps
  <2>4. Cardinality(Part) \in Nat
    BY FiniteAssumption, FS_CardinalityType
  <2>5. PICK k \in T : \A j \in T : j <= k
    <3>1. T \in SUBSET Nat /\ T # {}
      BY <2>3
    <3> HIDE DEF T
    <3> QED BY <2>2, <2>4, <3>1, Largest
  <2>6. PICK q : q = Above(p, k) /\ q \in Hanging
    OBVIOUS
  <2>7. parent[q] \notin Hanging
    <3> SUFFICES ASSUME parent[q] \in Hanging PROVE FALSE
      OBVIOUS
    <3>1. q # NoPart
      BY <2>6, NullAssumption DEF Hanging, TypeOK
    <3>2. Above(p, k + 1) = parent[q]
      BY <2>1, <2>6, <3>1, AboveSteps
    <3>3. \A j \in 0..(k + 1) : j \in 0..k \/ j = k + 1
      OBVIOUS
    <3>4. k + 1 \in T
      BY <3>2, <3>3
    <3> QED BY <2>5, <3>4
  <2>8. Above(p, k) \in Anchors
    BY <1>3, <2>6, <2>7 DEF Anchors
  <2> QED BY <2>1, <2>8, AnchorGivesDepth, NodesAreShown
<1> QED BY <1>1, <1>2, <1>3 DEF TreeShowsBom, PartsAreShownOnce, ItemsAreShown

\* No call moves a part: the forest stays one.
LEMMA ForestStays == Forest /\ [Next]_vars => Forest'
<1> SUFFICES ASSUME Forest, [Next]_vars PROVE Forest'
  OBVIOUS
<1>1. parent' = parent
  BY DEF Next, vars, parts, Reads, Selects, Locks, Writes, ImportStarts, Upserts,
     ImportCommits, Publishes, CallEnds
<1>2. \A p, k : Above(p, k)' = Above(p, k)
  BY <1>1 DEF Above
<1> QED BY <1>2 DEF Forest

\* Over every BOM and every forest of parts, of any size, GET /products/{id}/bom
\* shows a part once and leaves none out, as long as no part lies deeper than the
\* query goes.
THEOREM TreeShowsTheBom == Spec => []TreeShowsBom
<1>1. Init => Forest
  BY DEF Init, Forest
<1>2. CatalogueInv /\ Forest => TreeShowsBom
  BY TreeIsWhole DEF CatalogueInv
<1> QED BY <1>1, <1>2, ForestStays, CatalogueInvariant, PTL DEF Spec
=============================================================================
