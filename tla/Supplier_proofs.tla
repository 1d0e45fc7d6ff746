---------------------------- MODULE Supplier_proofs ----------------------------
(***************************************************************************)
(* The inductive invariant of Supplier, for any number of calls, factories *)
(* addresses and web workers.  Most steps touch one call and its locks;    *)
(* the commits of an onboarding and of a form write the rest, and while    *)
(* one of them holds the company row no other has saved anything.          *)
(***************************************************************************)
EXTENDS Supplier, TLAPS

-----------------------------------------------------------------------------
(* The operators on scores *)

\* The two copies of the thresholds agree, and give a level.
LEMMA LevelsAgree ==
  ASSUME NEW score \in Nat
  PROVE  /\ ScoreToRiskLevel(score) = CalculateRiskLevel(score)
         /\ ScoreToRiskLevel(score) \in Level
BY DEF ScoreToRiskLevel, CalculateRiskLevel, Level

\* A score is cut off at one hundred.
LEMMA ScoresAreCapped ==
  ASSUME NEW score \in Nat
  PROVE  AtMost(score) \in 0..100
BY DEF AtMost

-----------------------------------------------------------------------------
(* Steps of one call *)

\* At the start there is no supplier and no call.
LEMMA InitSupplier == Init => SupplierInv /\ ScoreIsAtomic /\ LevelFits
<1> SUFFICES ASSUME Init PROVE SupplierInv /\ ScoreIsAtomic /\ LevelFits
  OBVIOUS
<1>1. TypeOK
  <2>1. CallIn("idle") \in CallState
    BY DEF CallIn, CallState, Profile, Level
  <2>2. profile \in Profile /\ "low" \in Level
    BY DEF Init, Profile, Level
  <2> QED
    BY <2>1, <2>2 DEF Init, TypeOK
<1>2. CallsFit
  BY DEF Init, CallsFit, CallIn
<1>3. ScoreIsAtomic /\ LevelFits
  BY DEF Init, ScoreIsAtomic, LevelFits, ScoreToRiskLevel, CalculateRiskLevel
<1> QED
  BY <1>1, <1>2, <1>3 DEF Init, SupplierInv, RecordIsOneCalls, OnboardedIsWhole, OneMail

\* The part of the state that calls begin and go on without.
Unwritten == UNCHANGED <<rows, risk, mailing, taken>>

\* A step of one call that leaves every row, and every lock of the others, keeps
\* the invariant when what the call now holds and has saved fits.
LEMMA StepsOfOneCall ==
  ASSUME SupplierInv, NEW c \in Call, Unwritten,
         NEW r \in CallState, call' = [call EXCEPT ![c] = r],
         lock' \in [supplier : Call \cup {NoCall}, profile : Call \cup {NoCall}],
         \A d \in Call \ {c} :
           /\ lock.supplier = d => lock'.supplier = d
           /\ lock.profile = d => lock'.profile = d,
         r.op = "onboard" => r.email \in Email,
         r.st = "profiled" => r.points <= 100,
         r.st \in {"profiled", "rated"} => lock'.profile = c,
         r.st \in {"idle", "checked", "locked"} => r.own \cup r.gone \cup r.off = {},
         r.op \in {"onboard", "form"} /\ r.st \in {"locked", "saved", "rated"} =>
           /\ lock'.supplier = c
           /\ r.own \cup r.gone \cup r.off = {} \/ Existing \subseteq r.own \cup r.gone \cup r.off
  PROVE  SupplierInv'
<1>1. UNCHANGED <<supplier, consent, accounts, factory, contacts, profile, raised, overlap,
                  invite, key, claims, mails, taken>>
  BY DEF Unwritten, rows, risk, mailing
<1>2. TypeOK'
  BY <1>1 DEF SupplierInv, TypeOK
<1>3. Existing' = Existing
  BY <1>1 DEF Existing
<1>4. call'[c] = r /\ \A d \in Call \ {c} : call'[d] = call[d]
  BY DEF SupplierInv, TypeOK
<1>5. CallsFit'
  BY <1>3, <1>4 DEF SupplierInv, CallsFit
<1> QED
  BY <1>1, <1>2, <1>5 DEF SupplierInv, RecordIsOneCalls, OnboardedIsWhole, OneMail

\* A call has a state, and locks have holders.
LEMMA CallsAreTyped ==
  ASSUME SupplierInv, NEW c \in Call
  PROVE  /\ call[c] \in CallState
         /\ lock \in [supplier : Call \cup {NoCall}, profile : Call \cup {NoCall}]
         /\ profile \in Profile
BY DEF SupplierInv, TypeOK

\* Calls begin with nothing saved.
LEMMA BeginPreserves ==
  ASSUME SupplierInv, NEW c \in Call, Begin(c)
  PROVE  SupplierInv'
<1> USE CallsAreTyped
<1>1. call[c].st = "idle" /\ Unwritten
      /\ call[c].own \cup call[c].gone \cup call[c].off = {}
  BY DEF Begin, OnboardChecks, FormArrives, PatchArrives, ScoreLocksProfile, StageReads, Unwritten,
     risk, mailing, SupplierInv, CallsFit
<1>2. ASSUME NEW e \in Email, OnboardChecks(c, e)
      PROVE  SupplierInv'
  <2> DEFINE r == [call[c] EXCEPT !.op = "onboard", !.st = "checked", !.email = e]
  <2>1. r \in CallState /\ call' = [call EXCEPT ![c] = r] /\ UNCHANGED lock
    BY <1>2 DEF OnboardChecks, CallState, SupplierInv, TypeOK
  <2>2. r.st = "checked" /\ r.email = e /\ r.own \cup r.gone \cup r.off = {}
    BY <1>1 DEF CallState
  <2> HIDE DEF r
  <2> QED
    BY <1>1, <2>1, <2>2, StepsOfOneCall
<1>3. ASSUME NEW ownUser \in BOOLEAN, NEW rates \in BOOLEAN, FormArrives(c, ownUser, rates)
      PROVE  SupplierInv'
  <2> DEFINE r == [call[c] EXCEPT !.op = "form", !.st = "checked", !.rates = rates]
  <2>1. r \in CallState /\ call' = [call EXCEPT ![c] = r] /\ UNCHANGED lock
    BY <1>3 DEF FormArrives, CallState, SupplierInv, TypeOK
  <2>2. r.op = "form" /\ r.st = "checked" /\ r.own \cup r.gone \cup r.off = {}
    BY <1>1 DEF CallState
  <2> HIDE DEF r
  <2> QED
    BY <1>1, <2>1, <2>2, StepsOfOneCall
<1>4. ASSUME NEW ownUser \in BOOLEAN, NEW rates \in BOOLEAN, NEW fields \in BOOLEAN,
             PatchArrives(c, ownUser, fields, rates)
      PROVE  SupplierInv'
  <2> DEFINE r == [call[c] EXCEPT !.op = "patch", !.rates = rates,
                                  !.st = IF fields THEN "checked" ELSE "saved"]
  <2>1. r \in CallState /\ call' = [call EXCEPT ![c] = r] /\ UNCHANGED lock
    BY <1>4 DEF PatchArrives, CallState, SupplierInv, TypeOK
  <2>2. r.op = "patch" /\ r.st \in {"checked", "saved"} /\ r.own \cup r.gone \cup r.off = {}
    BY <1>1 DEF CallState
  <2> HIDE DEF r
  <2> QED
    BY <1>1, <2>1, <2>2, StepsOfOneCall
<1>5. ASSUME NEW s \in Score, ScoreLocksProfile(c, s)
      PROVE  SupplierInv'
  <2> DEFINE r == [call[c] EXCEPT !.op = "score", !.st = "profiled", !.points = AtMost(s)]
  <2>1. AtMost(s) \in 0..100
    BY ScoreAssumption, ScoresAreCapped
  <2>2. r \in CallState /\ call' = [call EXCEPT ![c] = r]
    BY <1>5, <2>1 DEF ScoreLocksProfile, CallState, SupplierInv, TypeOK
  <2>3. r.op = "score" /\ r.st = "profiled" /\ r.points <= 100
    BY <2>1 DEF CallState
  <2>4. lock' = [lock EXCEPT !.profile = c] /\ lock.profile = NoCall
    BY <1>5 DEF ScoreLocksProfile
  <2>5. lock' \in [supplier : Call \cup {NoCall}, profile : Call \cup {NoCall}]
        /\ lock'.profile = c /\ lock'.supplier = lock.supplier
        /\ \A d \in Call \ {c} : lock.profile # d
    BY <2>4, NoCallAssumption
  <2> HIDE DEF r
  <2> QED
    BY <1>1, <2>2, <2>3, <2>5, StepsOfOneCall
<1>6. ASSUME NEW x \in Finding, StageReads(c, x)
      PROVE  SupplierInv'
  <2> DEFINE r == [call[c] EXCEPT !.op = "stage", !.st = "read", !.points = x, !.seen = profile]
  <2>1. r \in CallState /\ call' = [call EXCEPT ![c] = r] /\ UNCHANGED lock
    BY <1>6, ScoreAssumption DEF StageReads, CallState, SupplierInv, TypeOK
  <2>2. r.op = "stage" /\ r.st = "read"
    BY DEF CallState
  <2> HIDE DEF r
  <2> QED
    BY <1>1, <2>1, <2>2, StepsOfOneCall
<1> QED
  BY <1>2, <1>3, <1>4, <1>5, <1>6 DEF Begin

\* The first write waits for the company row and holds it from then on.
LEMMA TakingPreserves ==
  ASSUME SupplierInv, NEW c \in Call, TakesSupplier(c)
  PROVE  SupplierInv'
<1> DEFINE r == [call[c] EXCEPT !.st = "locked"]
<1>1. r \in CallState /\ call' = [call EXCEPT ![c] = r] /\ Unwritten
  <2>1. r \in CallState
    BY CallsAreTyped DEF CallState
  <2>2. call' = [call EXCEPT ![c].st = "locked"] /\ Unwritten
    BY DEF TakesSupplier, Unwritten
  <2>3. call' = [call EXCEPT ![c] = r]
    BY <2>2 DEF SupplierInv, TypeOK
  <2> QED
    BY <2>1, <2>2, <2>3
<1>2. r.st = "locked" /\ r.op = call[c].op /\ r.email = call[c].email
      /\ r.own \cup r.gone \cup r.off = {}
  BY CallsAreTyped DEF TakesSupplier, CallState, SupplierInv, CallsFit
<1>3. lock' = [lock EXCEPT !.supplier = c] /\ lock.supplier = NoCall
  BY DEF TakesSupplier
<1>4. lock' \in [supplier : Call \cup {NoCall}, profile : Call \cup {NoCall}]
      /\ lock'.supplier = c /\ lock'.profile = lock.profile
      /\ \A d \in Call \ {c} : lock.supplier # d
  BY <1>3, CallsAreTyped, NoCallAssumption
<1>5. r.op = "onboard" => r.email \in Email
  BY <1>2 DEF SupplierInv, CallsFit
<1> HIDE DEF r
<1> QED
  BY <1>1, <1>2, <1>4, <1>5, StepsOfOneCall

\* What is kept, deleted and switched off is what there is.
LEMMA SavedFactoriesFit ==
  ASSUME SupplierInv, NEW c \in Call, call[c].st = "locked",
         call[c].op \in {"onboard", "form"},
         NEW keep \in SUBSET Existing, NEW new \in SUBSET Factory,
         SavesFactories(c, keep, new), Unwritten, UNCHANGED lock
  PROVE  SupplierInv'
<1> DEFINE gone == {f \in Existing \ keep : ~ factory[f].ref}
           off == {f \in Existing \ keep : factory[f].ref}
           r == [call[c] EXCEPT !.st = "saved", !.own = keep \cup new,
                                !.gone = gone, !.off = off]
<1>1. call' = [call EXCEPT ![c] = r]
  BY DEF SavesFactories, SupplierInv, TypeOK
<1>2. keep \cup new \subseteq Factory /\ gone \subseteq Factory /\ off \subseteq Factory
  BY DEF Existing
<1>3. Existing \subseteq keep \cup new \cup gone \cup off
  OBVIOUS
<1> HIDE DEF gone, off
<1>4. r \in CallState
  BY <1>2, CallsAreTyped DEF CallState
<1>5. r.st = "saved" /\ r.op = call[c].op /\ r.email = call[c].email
      /\ r.own \cup r.gone \cup r.off = keep \cup new \cup gone \cup off
  BY CallsAreTyped DEF CallState
<1>6. lock.supplier = c /\ (call[c].op = "onboard" => call[c].email \in Email)
  BY DEF SupplierInv, CallsFit
<1> HIDE DEF r
<1> QED
  BY <1>1, <1>3, <1>4, <1>5, <1>6, StepsOfOneCall, CallsAreTyped

\* Saving writes nothing that others see, and holds on to the row.
LEMMA SavingPreserves ==
  ASSUME SupplierInv, NEW c \in Call, Saves(c)
  PROVE  SupplierInv'
<1>1. call[c].st = "locked" /\ Unwritten /\ UNCHANGED lock
  BY DEF Saves, Unwritten
<1>2. ASSUME NEW keep \in SUBSET Existing, NEW new \in SUBSET Factory,
             SavesFactories(c, keep, new), call[c].op \in {"onboard", "form"}
      PROVE  SupplierInv'
  BY <1>1, <1>2, SavedFactoriesFit
<1>3. CASE call' = [call EXCEPT ![c].st = "saved"]
  <2> DEFINE r == [call[c] EXCEPT !.st = "saved"]
  <2>1. r \in CallState /\ call' = [call EXCEPT ![c] = r]
    <3>1. r \in CallState
      BY CallsAreTyped DEF CallState
    <3> QED
      BY <1>3, <3>1
  <2>2. r.st = "saved" /\ r.op = call[c].op /\ r.email = call[c].email
        /\ r.own \cup r.gone \cup r.off = {}
    BY <1>1, CallsAreTyped DEF CallState, SupplierInv, CallsFit
  <2>3. (r.op = "onboard" => r.email \in Email)
        /\ (r.op \in {"onboard", "form"} => lock.supplier = c)
    BY <1>1, <2>2 DEF SupplierInv, CallsFit
  <2> HIDE DEF r
  <2> QED
    BY <1>1, <2>1, <2>2, <2>3, StepsOfOneCall, CallsAreTyped
<1>4. {} \in SUBSET Existing /\ {} \in SUBSET Factory
      /\ \A f \in Fresh : {f} \in SUBSET Factory
  BY DEF Fresh
<1> QED
  BY <1>2, <1>3, <1>4 DEF Saves

\* A company that rates itself locks its profile.
LEMMA RatingPreserves ==
  ASSUME SupplierInv, NEW c \in Call, RatesItself(c)
  PROVE  SupplierInv'
<1> DEFINE r == [call[c] EXCEPT !.st = "rated"]
<1>1. r \in CallState /\ call' = [call EXCEPT ![c] = r] /\ Unwritten
  <2>1. r \in CallState
    BY CallsAreTyped DEF CallState
  <2>2. call' = [call EXCEPT ![c].st = "rated"] /\ Unwritten
    BY DEF RatesItself, Unwritten
  <2>3. call' = [call EXCEPT ![c] = r]
    BY <2>2 DEF SupplierInv, TypeOK
  <2> QED
    BY <2>1, <2>2, <2>3
<1>2. /\ r.st = "rated" /\ r.op = call[c].op /\ r.email = call[c].email
      /\ r.own = call[c].own /\ r.gone = call[c].gone /\ r.off = call[c].off
  BY CallsAreTyped DEF CallState
<1>3. lock' = [lock EXCEPT !.profile = c] /\ lock.profile = NoCall /\ call[c].st = "saved"
  BY DEF RatesItself
<1>4. lock' \in [supplier : Call \cup {NoCall}, profile : Call \cup {NoCall}]
      /\ lock'.profile = c /\ lock'.supplier = lock.supplier
      /\ \A d \in Call \ {c} : lock.profile # d
  BY <1>3, CallsAreTyped, NoCallAssumption
<1>5. (r.op = "onboard" => r.email \in Email)
      /\ (r.op \in {"onboard", "form"} =>
            /\ lock.supplier = c
            /\ \/ r.own \cup r.gone \cup r.off = {}
               \/ Existing \subseteq r.own \cup r.gone \cup r.off)
  BY <1>2, <1>3 DEF SupplierInv, CallsFit
<1> HIDE DEF r
<1> QED
  BY <1>1, <1>2, <1>4, <1>5, StepsOfOneCall

-----------------------------------------------------------------------------
(* Transactions end *)

\* A call that ends gives back its own locks only; if it wrote factories, no
\* other call has saved any, because it held the company row.
LEMMA ReleasePreserves ==
  ASSUME SupplierInv, NEW c \in Call, Releases(c),
         UNCHANGED factory \/ lock.supplier = c
  PROVE  /\ call' \in [Call -> CallState]
         /\ lock' \in [supplier : Call \cup {NoCall}, profile : Call \cup {NoCall}]
         /\ CallsFit'
<1>1. CallIn("done") \in CallState
      /\ CallIn("done").op = "none" /\ CallIn("done").st = "done"
  BY DEF CallIn, CallState, Profile, Level
<1>2. call' \in [Call -> CallState]
  BY <1>1 DEF Releases, SupplierInv, TypeOK
<1>3. call'[c].op = "none" /\ call'[c].st = "done"
      /\ \A d \in Call \ {c} : call'[d] = call[d]
  BY <1>1 DEF Releases, SupplierInv, TypeOK
<1>4. /\ lock' \in [supplier : Call \cup {NoCall}, profile : Call \cup {NoCall}]
      /\ \A d \in Call \ {c} : lock.supplier = d => lock'.supplier = d
      /\ \A d \in Call \ {c} : lock.profile = d => lock'.profile = d
  BY CallsAreTyped DEF Releases
<1>5. UNCHANGED factory => Existing' = Existing
  BY DEF Existing
<1>6. ASSUME NEW d \in Call \ {c}, call[d].op \in {"onboard", "form"},
             call[d].st \in {"locked", "saved", "rated"}
      PROVE  lock.supplier = d /\ lock.supplier # c
  BY <1>6 DEF SupplierInv, CallsFit
<1>7. CallsFit'
  BY <1>3, <1>4, <1>5, <1>6 DEF SupplierInv, CallsFit
<1> QED
  BY <1>2, <1>4, <1>7

\* A call that writes no row but that of the risk, or fails.
LEMMA EndingPreserves ==
  ASSUME SupplierInv, NEW c \in Call, PatchCommits(c) \/ CallFails(c)
  PROVE  SupplierInv'
<1>1. UNCHANGED <<rows, risk, mailing, taken>> /\ Releases(c)
  BY DEF PatchCommits, CallFails
<1>2. UNCHANGED <<supplier, consent, accounts, factory, contacts, profile, raised, overlap,
                  invite, key, claims, mails, taken>>
  BY <1>1 DEF rows, risk, mailing
<1> QED
  BY <1>1, <1>2, ReleasePreserves
     DEF SupplierInv, TypeOK, RecordIsOneCalls, OnboardedIsWhole, OneMail

\* What a form or an onboarding leaves of the factories is of one call.
LEMMA FactoriesAreOneCalls ==
  ASSUME SupplierInv, NEW c \in Call, call[c].op \in {"onboard", "form"}, MayCommit(c),
         factory' = FactoriesAfter(c)
  PROVE  /\ lock.supplier = c
         /\ factory' \in [Factory -> [st : {"none", "active", "inactive", "gone"},
                                      by : Call \cup {NoCall}, ref : BOOLEAN]]
         /\ \A f, g \in Factory :
              factory'[f].st = "active" /\ factory'[g].st = "active"
                => factory'[f].by = factory'[g].by
<1> DEFINE saves == call[c].own \cup call[c].gone \cup call[c].off
<1>1. /\ lock.supplier = c
      /\ saves = {} \/ Existing \subseteq saves
  BY DEF MayCommit, SupplierInv, CallsFit
<1>2. \A f \in Factory :
        /\ factory[f] \in [st : {"none", "active", "inactive", "gone"},
                           by : Call \cup {NoCall}, ref : BOOLEAN]
        /\ factory'[f].st = IF f \in call[c].gone THEN "gone"
                            ELSE IF f \in call[c].off THEN "inactive"
                            ELSE IF f \in call[c].own /\ factory[f].st = "none" THEN "active"
                            ELSE factory[f].st
        /\ factory'[f].by = IF f \in call[c].own THEN c ELSE factory[f].by
        /\ factory'[f].ref = factory[f].ref
  BY DEF FactoriesAfter, SupplierInv, TypeOK
<1>3. factory' \in [Factory -> [st : {"none", "active", "inactive", "gone"},
                               by : Call \cup {NoCall}, ref : BOOLEAN]]
  BY <1>2 DEF FactoriesAfter
<1>4. CASE saves = {}
  <2>1. \A f \in Factory : factory'[f].st = factory[f].st /\ factory'[f].by = factory[f].by
    BY <1>2, <1>4
  <2> QED
    BY <1>1, <1>3, <2>1 DEF SupplierInv, RecordIsOneCalls
<1>5. CASE Existing \subseteq saves
  <2>1. ASSUME NEW f \in Factory, factory'[f].st = "active"
        PROVE  factory'[f].by = c
    <3>1. f \notin call[c].gone /\ f \notin call[c].off
      BY <1>2, <2>1
    <3>2. f \in call[c].own \/ factory[f].st = "active"
      BY <1>2, <2>1
    <3>3. f \in call[c].own
      BY <1>5, <3>1, <3>2 DEF Existing
    <3> QED
      BY <1>2, <3>3
  <2> QED
    BY <1>1, <1>3, <2>1
<1> QED
  BY <1>1, <1>4, <1>5

\* The commits of an onboarding and of a form.
LEMMA CommitPreserves ==
  ASSUME SupplierInv, NEW c \in Call, OnboardCommits(c) \/ FormCommits(c)
  PROVE  SupplierInv'
<1>1. /\ call[c].op \in {"onboard", "form"} /\ MayCommit(c)
      /\ factory' = FactoriesAfter(c) /\ Releases(c) /\ contacts' = c
      /\ UNCHANGED <<risk, mailing, taken>>
  BY DEF OnboardCommits, FormCommits
<1>2. UNCHANGED <<profile, raised, overlap, invite, key, claims, mails, taken>>
  BY <1>1 DEF risk, mailing
<1>3. /\ call' \in [Call -> CallState]
      /\ lock' \in [supplier : Call \cup {NoCall}, profile : Call \cup {NoCall}]
      /\ CallsFit'
  BY <1>1, FactoriesAreOneCalls, ReleasePreserves
<1>4. supplier.status \in {"none", "pending", "review"} /\ supplier.level \in Level
  BY DEF SupplierInv, TypeOK
<1>5. CASE OnboardCommits(c)
  <2>1. supplier' \in [status : {"none", "pending", "review"}, level : Level,
                       by : Call \cup {NoCall}]
        /\ supplier'.by = c /\ supplier'.status = "review"
    BY <1>4, <1>5 DEF OnboardCommits, SupplierInv, TypeOK
  <2>2. call[c].email \in Email
    BY <1>5 DEF OnboardCommits, SupplierInv, CallsFit
  <2>3. accounts' \in SUBSET [email : Email, by : Call] /\ accounts' # {} /\ consent' = TRUE
    <3>1. accounts' = accounts \cup {[email |-> call[c].email, by |-> c]} /\ consent' = TRUE
      BY <1>5 DEF OnboardCommits
    <3>2. [email |-> call[c].email, by |-> c] \in [email : Email, by : Call]
      BY <2>2
    <3>3. accounts \subseteq [email : Email, by : Call]
      BY DEF SupplierInv, TypeOK
    <3> QED
      BY <3>1, <3>2, <3>3
  <2>4. OnboardedIsWhole'
    <3>1. \A a \in accounts' : \/ a \in accounts
                             \/ a = [email |-> call[c].email, by |-> c]
      BY <1>5 DEF OnboardCommits
    <3>2. call[c].email \notin taken /\ \A a \in accounts : a.email # call[c].email
      BY <1>5 DEF OnboardCommits
    <3> QED
      BY <1>2, <2>1, <2>3, <3>1, <3>2 DEF SupplierInv, OnboardedIsWhole
  <2>5. TypeOK'
    BY <1>1, <1>2, <1>3, <2>1, <2>3, <1>5, FactoriesAreOneCalls DEF SupplierInv, TypeOK, OnboardCommits
  <2> QED
    BY <1>1, <1>2, <1>3, <2>1, <2>4, <2>5, FactoriesAreOneCalls
       DEF SupplierInv, RecordIsOneCalls, OneMail
<1>6. CASE FormCommits(c)
  <2>1. supplier' \in [status : {"none", "pending", "review"}, level : Level,
                       by : Call \cup {NoCall}]
        /\ supplier'.by = c /\ supplier'.status = supplier.status
        /\ UNCHANGED <<consent, accounts>>
    BY <1>4, <1>6 DEF FormCommits, SupplierInv, TypeOK
  <2>2. TypeOK'
    BY <1>1, <1>2, <1>3, <2>1, FactoriesAreOneCalls DEF SupplierInv, TypeOK
  <2> QED
    BY <1>1, <1>2, <1>3, <2>1, <2>2, FactoriesAreOneCalls
       DEF SupplierInv, RecordIsOneCalls, OnboardedIsWhole, OneMail
<1> QED
  BY <1>5, <1>6

\* The commits that write the risk.
LEMMA RiskPreserves ==
  ASSUME SupplierInv, NEW c \in Call, ScoreCommits(c) \/ StageWrites(c)
  PROVE  SupplierInv'
<1>1. Releases(c) /\ UNCHANGED <<consent, accounts, factory, contacts, invite, key, claims, mails, taken>>
  BY DEF ScoreCommits, StageWrites, rows, mailing
<1>2. CASE ScoreCommits(c)
  <2>1. call[c].points \in 0..100
    BY <1>2, CallsAreTyped DEF ScoreCommits, CallState, SupplierInv, CallsFit
  <2>2. profile' \in Profile /\ UNCHANGED <<raised, overlap>>
        /\ supplier' = [supplier EXCEPT !.level = ScoreToRiskLevel(call[c].points)]
    BY <1>2, <2>1, LevelsAgree DEF ScoreCommits, Profile
  <2>3. supplier' \in [status : {"none", "pending", "review"}, level : Level,
                       by : Call \cup {NoCall}]
        /\ supplier'.by = supplier.by /\ supplier'.status = supplier.status
    BY <2>1, <2>2, LevelsAgree DEF SupplierInv, TypeOK
  <2> QED
    BY <1>1, <2>2, <2>3, ReleasePreserves
       DEF SupplierInv, TypeOK, RecordIsOneCalls, OnboardedIsWhole, OneMail
<1>3. CASE StageWrites(c)
  <2>1. UNCHANGED supplier /\ raised' \in BOOLEAN /\ overlap' \in BOOLEAN
    BY <1>3 DEF StageWrites, rows, SupplierInv, TypeOK
  <2>2. profile' \in Profile
    <3> DEFINE new == AtMost(call[c].seen.score + call[c].points)
    <3>1. new \in 0..100
      BY CallsAreTyped, ScoresAreCapped DEF CallState, Profile
    <3>2. CalculateRiskLevel(new) \in Level
      BY <3>1, LevelsAgree
    <3> HIDE DEF new
    <3>3. profile' = [score |-> IF new # call[c].seen.score THEN new ELSE profile.score,
                      level |-> IF CalculateRiskLevel(new) # call[c].seen.level
                                  THEN CalculateRiskLevel(new) ELSE profile.level]
      BY <1>3 DEF StageWrites, new
    <3> QED
      BY <3>1, <3>2, <3>3, CallsAreTyped DEF Profile
  <2> QED
    BY <1>1, <2>1, <2>2, ReleasePreserves
       DEF SupplierInv, TypeOK, RecordIsOneCalls, OnboardedIsWhole, OneMail
<1> QED
  BY <1>2, <1>3

-----------------------------------------------------------------------------
(* The invitation and the surroundings *)

\* The web workers share one key of each date.
LEMMA InvitationPreserves ==
  ASSUME SupplierInv,
         CreateSupplierAndInvite \/ \E w \in Web : InviteClaims(w) \/ InviteEnds(w)
  PROVE  SupplierInv'
<1>1. UNCHANGED <<consent, accounts, factory, contacts, profile, raised, overlap, taken,
                  lock, call>>
  BY DEF CreateSupplierAndInvite, InviteClaims, InviteEnds, rows, risk
<1>2. CallsFit'
  BY <1>1 DEF SupplierInv, CallsFit, Existing
<1>3. CASE CreateSupplierAndInvite
  <2>1. supplier' \in [status : {"none", "pending", "review"}, level : Level,
                       by : Call \cup {NoCall}]
        /\ supplier'.by = supplier.by /\ supplier'.status # "review"
        /\ UNCHANGED <<key, claims, mails>>
    BY <1>3 DEF CreateSupplierAndInvite, SupplierInv, TypeOK
  <2>2. invite' \in [Web -> {"arrived", "none"}]
    BY <1>3 DEF CreateSupplierAndInvite
  <2>3. supplier.status # "review"
    BY <1>3 DEF CreateSupplierAndInvite
  <2> QED
    BY <1>1, <1>2, <2>1, <2>2, <2>3
       DEF SupplierInv, TypeOK, RecordIsOneCalls, OnboardedIsWhole, OneMail
<1>4. ASSUME NEW w \in Web, InviteClaims(w)
      PROVE  SupplierInv'
  <2>1. PICK d \in Date : /\ key' = key \cup {d}
                         /\ claims' = IF d \in key THEN claims ELSE claims \cup {<<w, d>>}
    BY <1>4 DEF InviteClaims
  <2>2. UNCHANGED <<supplier, mails>> /\ invite' = [invite EXCEPT ![w] = "over"]
    BY <1>4 DEF InviteClaims, rows
  <2>3. TypeOK'
    BY <1>1, <2>1, <2>2 DEF SupplierInv, TypeOK
  <2>4. \A x \in claims : x[2] \in key
    BY DEF SupplierInv, OneMail
  <2>5. OneMail'
    <3>1. CASE d \in key
      BY <2>1, <2>2, <3>1 DEF SupplierInv, OneMail
    <3>2. CASE d \notin key
      <4>1. mails[d] = 0
        BY <3>2 DEF SupplierInv, TypeOK, OneMail
      <4>2. \A x \in claims' : x \in claims \/ x = <<w, d>>
        BY <2>1
      <4>3. \A x \in claims : x[2] # d
        BY <2>4, <3>2
      <4>4. \A x \in claims' : x[2] \in key' /\ mails'[x[2]] = 0
        BY <2>1, <2>2, <4>1, <4>2 DEF SupplierInv, OneMail
      <4>5. \A x, y \in claims' : y[2] = x[2] => y = x
        BY <4>2, <4>3 DEF SupplierInv, OneMail
      <4> QED
        BY <2>1, <2>2, <4>4, <4>5 DEF SupplierInv, OneMail
    <3> QED
      BY <3>1, <3>2
  <2> QED
    BY <1>1, <1>2, <2>2, <2>3, <2>5 DEF SupplierInv, RecordIsOneCalls, OnboardedIsWhole
<1>5. ASSUME NEW w \in Web, InviteEnds(w)
      PROVE  SupplierInv'
  <2>1. PICK d \in Date : /\ <<w, d>> \in claims
                         /\ claims' = claims \ {<<w, d>>}
                         /\ mails' \in {mails, [mails EXCEPT ![d] = @ + 1]}
    BY <1>5 DEF InviteEnds
  <2>2. UNCHANGED <<supplier, invite, key>>
    BY <1>5 DEF InviteEnds, rows
  <2>3. TypeOK'
    BY <1>1, <2>1, <2>2 DEF SupplierInv, TypeOK
  <2>4. /\ d \in key /\ mails[d] = 0
        /\ \A y \in claims' : y[2] # d
    BY <2>1 DEF SupplierInv, OneMail
  <2>5. /\ mails'[d] \in {0, 1}
        /\ \A e \in Date \ {d} : mails'[e] = mails[e]
    BY <2>1, <2>4 DEF SupplierInv, TypeOK
  <2>6. \A e \in Date : mails'[e] <= 1 /\ (mails'[e] > 0 => e \in key')
    BY <2>2, <2>4, <2>5 DEF SupplierInv, OneMail
  <2>7. \A x \in claims' : x \in claims /\ x[2] \in Date \ {d}
    BY <2>1, <2>4 DEF SupplierInv, TypeOK
  <2>8. OneMail'
    BY <2>2, <2>5, <2>6, <2>7 DEF SupplierInv, OneMail
  <2> QED
    BY <1>1, <1>2, <2>2, <2>3, <2>8 DEF SupplierInv, RecordIsOneCalls, OnboardedIsWhole
<1> QED
  BY <1>3, <1>4, <1>5

\* Another user takes an address, another row refers to a factory.
LEMMA SurroundingsPreserve ==
  ASSUME SupplierInv,
         (\E e \in Email : EmailTaken(e)) \/ (\E f \in Factory : FactoryReferenced(f))
  PROVE  SupplierInv'
<1>1. UNCHANGED <<supplier, consent, accounts, contacts, profile, raised, overlap,
                  invite, key, claims, mails, lock, call>>
  BY DEF EmailTaken, FactoryReferenced, rows, risk, mailing
<1>2. ASSUME NEW e \in Email, EmailTaken(e)
      PROVE  SupplierInv'
  <2>1. UNCHANGED factory /\ taken' = taken \cup {e} /\ \A a \in accounts : a.email # e
    BY <1>2 DEF EmailTaken, rows
  <2>2. CallsFit'
    BY <1>1, <2>1 DEF SupplierInv, CallsFit, Existing
  <2> QED
    BY <1>1, <2>1, <2>2 DEF SupplierInv, TypeOK, RecordIsOneCalls, OnboardedIsWhole, OneMail
<1>3. ASSUME NEW f \in Factory, FactoryReferenced(f)
      PROVE  SupplierInv'
  <2>1. UNCHANGED taken /\ factory' = [factory EXCEPT ![f].ref = TRUE]
    BY <1>3 DEF FactoryReferenced
  <2>2. \A g \in Factory : factory'[g].st = factory[g].st /\ factory'[g].by = factory[g].by
    BY <2>1 DEF SupplierInv, TypeOK
  <2>3. Existing' = Existing
    BY <2>2 DEF Existing
  <2>4. CallsFit'
    BY <1>1, <2>3 DEF SupplierInv, CallsFit
  <2>5. TypeOK'
    BY <1>1, <2>1 DEF SupplierInv, TypeOK
  <2> QED
    BY <1>1, <2>1, <2>2, <2>4, <2>5 DEF SupplierInv, RecordIsOneCalls, OnboardedIsWhole, OneMail
<1> QED
  BY <1>2, <1>3

-----------------------------------------------------------------------------
(* The theorems *)

\* However many onboardings, forms, scores and web workers overlap and fail:
\* what is stored of a supplier is what one call sent, account, agreement and
\* status come together, and one invitation of a date is mailed.
THEOREM SupplierInvariant == Spec => []SupplierInv
<1>1. SupplierInv /\ [Next]_vars => SupplierInv'
  <2> SUFFICES ASSUME SupplierInv, [Next]_vars PROVE SupplierInv'
    OBVIOUS
  <2>1. CASE UNCHANGED vars
    BY <2>1 DEF vars, rows, risk, mailing, SupplierInv, TypeOK, RecordIsOneCalls,
       OnboardedIsWhole, OneMail, CallsFit, Existing
  <2>2. CASE Next
    BY <2>2, BeginPreserves, TakingPreserves, SavingPreserves, RatingPreserves,
       CommitPreserves, EndingPreserves, RiskPreserves, InvitationPreserves,
       SurroundingsPreserve DEF Next, Proceeds
  <2> QED
    BY <2>1, <2>2
<1> QED
  BY InitSupplier, <1>1, PTL DEF Spec

\* Steps that do not write the risk leave the two levels and the score.
LEMMA RiskIsWrittenByTwo ==
  ASSUME SupplierInv, [Next]_vars,
         \A c \in Call : ~ ScoreCommits(c) /\ ~ StageWrites(c)
  PROVE  UNCHANGED <<profile, raised, overlap>> /\ supplier'.level = supplier.level
<1>1. CASE UNCHANGED vars
  BY <1>1 DEF vars, rows, risk
<1>2. CASE Next
  <2>1. UNCHANGED risk
    BY <1>2 DEF Next, CreateSupplierAndInvite, InviteClaims, InviteEnds, Begin, OnboardChecks,
       FormArrives, PatchArrives, ScoreLocksProfile, StageReads, Proceeds, TakesSupplier, Saves,
       RatesItself, OnboardCommits, FormCommits, PatchCommits, CallFails, EmailTaken,
       FactoryReferenced
  <2>2. UNCHANGED supplier \/ CreateSupplierAndInvite
        \/ \E c \in Call : OnboardCommits(c) \/ FormCommits(c)
    BY <1>2 DEF Next, InviteClaims, InviteEnds, Begin, OnboardChecks,
       FormArrives, PatchArrives, ScoreLocksProfile, StageReads, Proceeds, TakesSupplier, Saves,
       RatesItself, PatchCommits, CallFails, EmailTaken, FactoryReferenced, rows
  <2>3. supplier'.level = supplier.level
    BY <2>2 DEF CreateSupplierAndInvite, OnboardCommits, FormCommits, SupplierInv, TypeOK
  <2> QED
    BY <2>1, <2>3 DEF risk
<1> QED
  BY <1>1, <1>2

\* Until a graph node writes a score, suppliers caches the level of the profile,
\* for any number of calls of PATCH risk-score.
THEOREM CachedLevelFollows == Spec => []ScoreIsAtomic
<1>1. SupplierInv /\ ScoreIsAtomic /\ [Next]_vars => ScoreIsAtomic'
  <2> SUFFICES ASSUME SupplierInv, ScoreIsAtomic, [Next]_vars PROVE ScoreIsAtomic'
    OBVIOUS
  <2>1. CASE \A c \in Call : ~ ScoreCommits(c) /\ ~ StageWrites(c)
    BY <2>1, RiskIsWrittenByTwo DEF ScoreIsAtomic
  <2>2. ASSUME NEW c \in Call, ScoreCommits(c) PROVE ScoreIsAtomic'
    BY <2>2 DEF ScoreCommits, ScoreIsAtomic, SupplierInv, TypeOK
  <2>3. ASSUME NEW c \in Call, StageWrites(c) PROVE ScoreIsAtomic'
    BY <2>3 DEF StageWrites, ScoreIsAtomic
  <2> QED
    BY <2>1, <2>2, <2>3
<1> QED
  BY InitSupplier, <1>1, SupplierInvariant, PTL DEF Spec

\* The level of a profile is that of its score, by either copy of the thresholds,
\* whatever scores are sent and whatever points findings add, unless a graph node
\* wrote over a profile it had not read.
THEOREM LevelFitsScore == Spec => []LevelFits
<1>1. SupplierInv /\ LevelFits /\ [Next]_vars => LevelFits'
  <2> SUFFICES ASSUME SupplierInv, LevelFits, [Next]_vars PROVE LevelFits'
    OBVIOUS
  <2>1. CASE \A c \in Call : ~ ScoreCommits(c) /\ ~ StageWrites(c)
    BY <2>1, RiskIsWrittenByTwo DEF LevelFits
  <2>2. ASSUME NEW c \in Call, ScoreCommits(c) PROVE LevelFits'
    <3>1. call[c].points \in Nat
      BY CallsAreTyped DEF CallState
    <3>2. profile'.score = call[c].points /\ profile'.level = ScoreToRiskLevel(call[c].points)
      BY <2>2 DEF ScoreCommits
    <3> QED
      BY <3>1, <3>2, LevelsAgree DEF LevelFits
  <2>3. ASSUME NEW c \in Call, StageWrites(c) PROVE LevelFits'
    <3> DEFINE seen == call[c].seen
               new == AtMost(seen.score + call[c].points)
    <3>1. new \in Nat /\ seen.score \in Nat
      BY CallsAreTyped, ScoresAreCapped DEF CallState, Profile
    <3>2. /\ profile'.score = IF new # seen.score THEN new ELSE profile.score
          /\ profile'.level = IF CalculateRiskLevel(new) # seen.level
                                THEN CalculateRiskLevel(new) ELSE profile.level
          /\ overlap' = (overlap \/ profile # seen)
      BY <2>3 DEF StageWrites
    <3> HIDE DEF new, seen
    <3>3. CASE overlap'
      BY <3>3 DEF LevelFits
    <3>4. CASE ~ overlap'
      <4>1. profile = seen /\ ~ overlap
        BY <3>2, <3>4
      <4>2. profile'.score = new /\ profile'.level = CalculateRiskLevel(new)
        BY <3>2, <4>1
      <4> QED
        BY <3>1, <4>2, LevelsAgree DEF LevelFits
    <3> QED
      BY <3>3, <3>4
  <2> QED
    BY <2>1, <2>2, <2>3
<1> QED
  BY InitSupplier, <1>1, SupplierInvariant, PTL DEF Spec
=============================================================================
