------------------------------ MODULE Supplier ------------------------------
(***************************************************************************)
(* One supplier: its row, onboarding, accounts, factories and contacts,    *)
(* its risk profile, and the calls that write them side by side.           *)
(*                                                                         *)
(* Every call writes in one transaction: what it wrote is seen at its      *)
(* commit, the row locks it took are held until then.  The row of          *)
(* suppliers is the first one that onboarding and the master form write,   *)
(* and nothing else makes them wait for each other.                        *)
(***************************************************************************)
EXTENDS Naturals

CONSTANTS
  Call, NoCall,   \* requests and graph nodes that write on the supplier
  Factory,        \* ids of supplier_factories
  Email, NoEmail,
  Score,          \* scores that PATCH risk-score is sent
  Finding,        \* points that the findings of a batch add
  Web,            \* web workers that receive SupplierInvited
  Date            \* UTC dates on which they may handle it

ASSUME NoCallAssumption == NoCall \notin Call
ASSUME ScoreAssumption == Score \subseteq 0..100 /\ Finding \subseteq Nat

VARIABLES
  supplier,   \* suppliers: status, level (risk_level), by: whose company data
  consent,    \* supplier_onboarding.consent_status = 'consent_agreed'
  accounts,   \* users of the supplier
  taken,      \* e-mail addresses of other users
  factory,    \* is_active of a factory, whose data, and do other rows refer to it?
  contacts,   \* whose supplier_contacts
  profile,    \* supplier_risk_profile: score, level
  lock,       \* holders of the rows of suppliers and supplier_risk_profile
  call,
  invite,     \* deliveries of SupplierInvited
  key,        \* processed_jobs: dates whose key invite_email:{supplier}:{date} is there
  claims,     \* deliveries that have inserted the key of a date and not mailed yet
  mails,      \* mails sent for the key of a date
  raised,     \* not stored: has a graph node written a score?
  overlap     \* not stored: has one written after the profile it read had changed?

rows == <<supplier, consent, accounts, factory, contacts>>
risk == <<profile, raised, overlap>>
mailing == <<invite, key, claims, mails>>
vars == <<rows, risk, mailing, taken, lock, call>>

Level == {"low", "medium", "high", "critical"}
Profile == [score : 0..100, level : Level]

\* A transaction: what it saves of the factories, what it has read.
CallState ==
  [op : {"none", "onboard", "form", "patch", "score", "stage"},
   st : {"idle", "checked", "locked", "saved", "rated", "profiled", "read", "done"},
   email : Email \cup {NoEmail}, rates : BOOLEAN, points : Nat, seen : Profile,
   own : SUBSET Factory, gone : SUBSET Factory, off : SUBSET Factory]

CallIn(st) ==
  [op |-> "none", st |-> st, email |-> NoEmail, rates |-> FALSE, points |-> 0,
   seen |-> [score |-> 0, level |-> "low"], own |-> {}, gone |-> {}, off |-> {}]

ScoreToRiskLevel(score) ==
  CASE score >= 70 -> "critical" [] score \in 50..69 -> "high"
    [] score \in 30..49 -> "medium" [] OTHER -> "low"

Uncapped(score) == score   \* mutant: no upper end

AtMost(score) == IF score > 100 THEN 100 ELSE score

Init ==
  /\ supplier = [status |-> "none", level |-> "low", by |-> NoCall]
  /\ consent = FALSE /\ accounts = {} /\ taken = {}
  /\ factory = [f \in Factory |-> [st |-> "none", by |-> NoCall, ref |-> FALSE]]
  /\ contacts = NoCall
  /\ profile = [score |-> 0, level |-> "low"]
  /\ lock = [supplier |-> NoCall, profile |-> NoCall]
  /\ call = [c \in Call |-> CallIn("idle")]
  /\ invite = [w \in Web |-> "none"]
  /\ key = {} /\ claims = {} /\ mails = [d \in Date |-> 0]
  /\ raised = FALSE /\ overlap = FALSE

-----------------------------------------------------------------------------
(* Invitation *)

\* create_supplier_and_invite: row, profile and onboarding in one commit, then
\* the event, which any of the web workers may miss.
CreateSupplierAndInvite ==
  /\ supplier.status = "none"
  /\ supplier' = [supplier EXCEPT !.status = "pending"]
  /\ \E W \in SUBSET Web : invite' = [w \in Web |-> IF w \in W THEN "arrived" ELSE "none"]
  /\ UNCHANGED <<consent, accounts, factory, contacts, risk, key, claims, mails, taken, lock, call>>

InviteClaimsAnyway(w) ==   \* mutant: the key is inserted, its conflict not looked at
  /\ invite[w] = "arrived"
  /\ \E d \in Date : /\ key' = key \cup {d}
                   /\ claims' = claims \cup {<<w, d>>}
  /\ invite' = [invite EXCEPT ![w] = "over"]
  /\ UNCHANGED <<rows, risk, mails, taken, lock, call>>

\* send_supplier_invitation_email: each worker takes the date of its own clock,
\* and deliveries of one event may fall on either side of midnight.  The key of
\* the date is committed first.
InviteClaims(w) ==
  /\ invite[w] = "arrived"
  /\ \E d \in Date : /\ key' = key \cup {d}
                   /\ claims' = IF d \in key THEN claims ELSE claims \cup {<<w, d>>}
  /\ invite' = [invite EXCEPT ![w] = "over"]
  /\ UNCHANGED <<rows, risk, mails, taken, lock, call>>

\* The mail goes out, or the worker dies before it does.
InviteEnds(w) ==
  /\ \E d \in Date : /\ <<w, d>> \in claims
                   /\ claims' = claims \ {<<w, d>>}
                   /\ mails' \in {mails, [mails EXCEPT ![d] = @ + 1]}
  /\ UNCHANGED <<rows, risk, invite, key, taken, lock, call>>

-----------------------------------------------------------------------------
(* Calls begin: what they check holds no lock *)

\* require_supplier_consent lets every user pass who belongs to no supplier.
ConsentGate(ownUser) == ownUser => accounts # {} /\ consent

\* submit_onboarding: no account yet, the e-mail is free.
OnboardChecks(c, e) ==
  /\ call[c].st = "idle"
  /\ supplier.status # "none"
  /\ accounts = {} /\ e \notin taken
  /\ call' = [call EXCEPT ![c].op = "onboard", ![c].st = "checked", ![c].email = e]
  /\ UNCHANGED <<rows, risk, mailing, taken, lock>>

\* submit_master_form
FormArrives(c, ownUser, rates) ==
  /\ call[c].st = "idle"
  /\ supplier.status # "none"
  /\ ConsentGate(ownUser)
  /\ call' = [call EXCEPT ![c].op = "form", ![c].st = "checked", ![c].rates = rates]
  /\ UNCHANGED <<rows, risk, mailing, taken, lock>>

\* update_supplier_detail touches suppliers only when a field of it is sent.
PatchArrives(c, ownUser, fields, rates) ==
  /\ call[c].st = "idle"
  /\ supplier.status # "none"
  /\ ConsentGate(ownUser)
  /\ call' = [call EXCEPT ![c].op = "patch", ![c].rates = rates,
                          ![c].st = IF fields THEN "checked" ELSE "saved"]
  /\ UNCHANGED <<rows, risk, mailing, taken, lock>>

\* upsert_risk_score: the upsert of the profile comes first and locks it.
ScoreLocksProfile(c, s) ==
  /\ call[c].st = "idle"
  /\ supplier.status # "none"
  /\ lock.profile = NoCall
  /\ lock' = [lock EXCEPT !.profile = c]
  /\ call' = [call EXCEPT ![c].op = "score", ![c].st = "profiled", ![c].points = AtMost(s)]
  /\ UNCHANGED <<rows, risk, mailing, taken>>

\* calculate_risk_score reads the profile and holds nothing.
StageReads(c, x) ==
  /\ call[c].st = "idle"
  /\ supplier.status # "none"
  /\ call' = [call EXCEPT ![c].op = "stage", ![c].st = "read", ![c].points = x,
                          ![c].seen = profile]
  /\ UNCHANGED <<rows, risk, mailing, taken, lock>>

-----------------------------------------------------------------------------
(* Calls write *)

TakesNoLock(c) ==   \* mutant: the factories are written before the company row
  /\ call[c].st = "checked"
  /\ call' = [call EXCEPT ![c].st = "locked"]
  /\ UNCHANGED <<rows, risk, mailing, taken, lock>>

\* update_supplier_fields, write_master_form_company: the first UPDATE.
TakesSupplier(c) ==
  /\ call[c].st = "checked"
  /\ lock.supplier = NoCall
  /\ lock' = [lock EXCEPT !.supplier = c]
  /\ call' = [call EXCEPT ![c].st = "locked"]
  /\ UNCHANGED <<rows, risk, mailing, taken>>

Existing == {f \in Factory : factory[f].st \in {"active", "inactive"}}
Fresh == {f \in Factory : factory[f].st = "none"} \ UNION {call[c].own : c \in Call}

\* write_master_form_factories: named rows are updated, others added; what is
\* left over is deleted, or switched off when other rows refer to it.
SavesFactories(c, keep, new) ==
  LET stale == Existing \ keep IN
  call' = [call EXCEPT ![c].st = "saved", ![c].own = keep \cup new,
                       ![c].gone = {f \in stale : ~ factory[f].ref},
                       ![c].off = {f \in stale : factory[f].ref}]

Saves(c) ==
  /\ call[c].st = "locked"
  /\ \/ /\ call[c].op = "form"
        /\ \E keep \in SUBSET Existing :
             \/ SavesFactories(c, keep, {})
             \/ \E f \in Fresh : SavesFactories(c, keep, {f})
     \/ /\ call[c].op = "onboard"    \* an address becomes the only factory
        /\ \E f \in Fresh : SavesFactories(c, {}, {f})
     \/ /\ call[c].op \in {"patch", "onboard"}
        /\ call' = [call EXCEPT ![c].st = "saved"]
  /\ UNCHANGED <<rows, risk, mailing, taken, lock>>

\* set_self_reported_risk_level: a column of the profile nothing here reads.
RatesItself(c) ==
  /\ call[c].st = "saved" /\ call[c].rates
  /\ lock.profile = NoCall
  /\ lock' = [lock EXCEPT !.profile = c]
  /\ call' = [call EXCEPT ![c].st = "rated"]
  /\ UNCHANGED <<rows, risk, mailing, taken>>

-----------------------------------------------------------------------------
(* Transactions end *)

MayCommit(c) == call[c].st = "rated" \/ (call[c].st = "saved" /\ ~ call[c].rates)

Releases(c) ==
  /\ lock' = [r \in DOMAIN lock |-> IF lock[r] = c THEN NoCall ELSE lock[r]]
  /\ call' = [call EXCEPT ![c] = CallIn("done")]

FactoriesAfter(c) ==
  [f \in Factory |->
     [st |-> IF f \in call[c].gone THEN "gone"
             ELSE IF f \in call[c].off THEN "inactive"
             ELSE IF f \in call[c].own /\ factory[f].st = "none" THEN "active"
             ELSE factory[f].st,
      by |-> IF f \in call[c].own THEN c ELSE factory[f].by,
      ref |-> factory[f].ref]]

OnboardKeepsRest(c) ==   \* mutant: the account is inserted under a savepoint
  /\ call[c].op = "onboard" /\ MayCommit(c)
  /\ accounts' = IF call[c].email \in taken \cup {a.email : a \in accounts} THEN accounts
                 ELSE accounts \cup {[email |-> call[c].email, by |-> c]}
  /\ consent' = TRUE
  /\ supplier' = [supplier EXCEPT !.status = "review", !.by = c]
  /\ factory' = FactoriesAfter(c)
  /\ contacts' = c
  /\ Releases(c)
  /\ UNCHANGED <<risk, mailing, taken>>

\* The account is the last insert; users.email is unique, and nothing else is.
OnboardCommits(c) ==
  /\ call[c].op = "onboard" /\ MayCommit(c)
  /\ call[c].email \notin taken \cup {a.email : a \in accounts}
  /\ accounts' = accounts \cup {[email |-> call[c].email, by |-> c]}
  /\ consent' = TRUE
  /\ supplier' = [supplier EXCEPT !.status = "review", !.by = c]
  /\ factory' = FactoriesAfter(c)
  /\ contacts' = c
  /\ Releases(c)
  /\ UNCHANGED <<risk, mailing, taken>>

FormCommits(c) ==
  /\ call[c].op = "form" /\ MayCommit(c)
  /\ supplier' = [supplier EXCEPT !.by = c]
  /\ factory' = FactoriesAfter(c)
  /\ contacts' = c
  /\ Releases(c)
  /\ UNCHANGED <<consent, accounts, risk, mailing, taken>>

PatchCommits(c) ==
  /\ call[c].op = "patch" /\ MayCommit(c)
  /\ Releases(c)
  /\ UNCHANGED <<rows, risk, mailing, taken>>

FailsOpen(c) ==   \* mutant: a failure leaves the transaction open
  /\ call[c].st \notin {"idle", "done"}
  /\ call' = [call EXCEPT ![c].st = "done"]
  /\ UNCHANGED <<rows, risk, mailing, taken, lock>>

\* submit_onboarding, submit_master_form: any exception rolls everything back;
\* so does a deadlock that PostgreSQL ends, and an e-mail taken meanwhile.
CallFails(c) ==
  /\ call[c].st \notin {"idle", "done"}
  /\ Releases(c)
  /\ UNCHANGED <<rows, risk, mailing, taken>>

Deadlocked(c, d) ==
  /\ c # d
  /\ lock.supplier = c /\ call[c].st = "saved" /\ call[c].rates
  /\ lock.profile = d /\ call[d].st = "profiled"

\* What a call must fail for, in the end.
MustFail(c) ==
  \/ /\ call[c].op = "onboard" /\ MayCommit(c)
     /\ call[c].email \in taken \cup {a.email : a \in accounts}
  \/ \E d \in Call : Deadlocked(c, d)

ScoreCommitsProfile(c) ==   \* mutant: the cached level is not awaited
  /\ call[c].st = "profiled"
  /\ profile' = [score |-> call[c].points, level |-> ScoreToRiskLevel(call[c].points)]
  /\ supplier' = IF lock.supplier = NoCall
                   THEN [supplier EXCEPT !.level = ScoreToRiskLevel(call[c].points)]
                   ELSE supplier
  /\ Releases(c)
  /\ UNCHANGED <<consent, accounts, factory, contacts, raised, overlap, mailing, taken>>

\* update_supplier_risk_level waits for the row of suppliers; then both commit.
ScoreCommits(c) ==
  /\ call[c].st = "profiled"
  /\ lock.supplier = NoCall
  /\ profile' = [score |-> call[c].points, level |-> ScoreToRiskLevel(call[c].points)]
  /\ supplier' = [supplier EXCEPT !.level = ScoreToRiskLevel(call[c].points)]
  /\ Releases(c)
  /\ UNCHANGED <<consent, accounts, factory, contacts, raised, overlap, mailing, taken>>

HigherLevel(score) ==   \* mutant: the copy of the thresholds is off by one
  CASE score > 70 -> "critical" [] score \in 51..70 -> "high"
    [] score \in 31..50 -> "medium" [] OTHER -> "low"

CalculateRiskLevel(score) ==
  CASE score >= 70 -> "critical" [] score \in 50..69 -> "high"
    [] score \in 30..49 -> "medium" [] OTHER -> "low"

\* update_risk_profile_state and the flush: a column is written when its new
\* value differs from the one that was read, not from the one that is stored.
StageWrites(c) ==
  LET seen == call[c].seen
      new == AtMost(seen.score + call[c].points)
      level == CalculateRiskLevel(new)
  IN
  /\ call[c].st = "read"
  /\ lock.profile = NoCall
  /\ profile' = [score |-> IF new # seen.score THEN new ELSE profile.score,
                 level |-> IF level # seen.level THEN level ELSE profile.level]
  /\ raised' = TRUE
  /\ overlap' = (overlap \/ profile # seen)
  /\ Releases(c)
  /\ UNCHANGED <<rows, mailing, taken>>

-----------------------------------------------------------------------------
(* The surroundings *)

\* Another user takes an e-mail address.
EmailTaken(e) ==
  /\ \A a \in accounts : a.email # e
  /\ taken' = taken \cup {e}
  /\ UNCHANGED <<rows, risk, mailing, lock, call>>

\* due_diligence create_audit, supply_ratio: a row that refers to a factory,
\* which waits for, and then misses, a factory that is being deleted.
FactoryReferenced(f) ==
  /\ f \in Existing
  /\ \A c \in Call : f \notin call[c].gone
  /\ factory' = [factory EXCEPT ![f].ref = TRUE]
  /\ UNCHANGED <<supplier, consent, accounts, contacts, risk, mailing, taken, lock, call>>

-----------------------------------------------------------------------------
Begin(c) ==
  \/ \E e \in Email : OnboardChecks(c, e)
  \/ \E ownUser, rates \in BOOLEAN :
       \/ FormArrives(c, ownUser, rates)
       \/ \E fields \in BOOLEAN : PatchArrives(c, ownUser, fields, rates)
  \/ \E s \in Score : ScoreLocksProfile(c, s)
  \/ \E x \in Finding : StageReads(c, x)

Proceeds(c) ==
  \/ TakesSupplier(c) \/ Saves(c) \/ RatesItself(c)
  \/ OnboardCommits(c) \/ FormCommits(c) \/ PatchCommits(c)
  \/ ScoreCommits(c) \/ StageWrites(c)

Next ==
  \/ CreateSupplierAndInvite
  \/ \E w \in Web : InviteClaims(w) \/ InviteEnds(w)
  \/ \E c \in Call : Begin(c) \/ Proceeds(c) \/ CallFails(c)
  \/ \E e \in Email : EmailTaken(e)
  \/ \E f \in Factory : FactoryReferenced(f)

\* A call that can go on does; PostgreSQL ends deadlocks and refuses duplicates.
Fairness ==
  \A c \in Call : WF_vars(Proceeds(c)) /\ WF_vars(MustFail(c) /\ CallFails(c))

Spec == Init /\ [][Next]_vars /\ Fairness

-----------------------------------------------------------------------------
(* Properties *)

\* Every variable has its type.
TypeOK ==
  /\ supplier \in [status : {"none", "pending", "review"}, level : Level, by : Call \cup {NoCall}]
  /\ consent \in BOOLEAN
  /\ accounts \in SUBSET [email : Email, by : Call]
  /\ taken \in SUBSET Email
  /\ factory \in [Factory -> [st : {"none", "active", "inactive", "gone"},
                              by : Call \cup {NoCall}, ref : BOOLEAN]]
  /\ contacts \in Call \cup {NoCall}
  /\ profile \in Profile
  /\ lock \in [supplier : Call \cup {NoCall}, profile : Call \cup {NoCall}]
  /\ call \in [Call -> CallState]
  /\ invite \in [Web -> {"none", "arrived", "over"}]
  /\ key \in SUBSET Date /\ claims \in SUBSET (Web \X Date) /\ mails \in [Date -> Nat]
  /\ raised \in BOOLEAN /\ overlap \in BOOLEAN

\* However onboardings and master forms overlap and fail, what is stored is what
\* one of them sent: contacts are those of the call that wrote the company, and
\* all factories in use are of one call.
RecordIsOneCalls ==
  /\ contacts = supplier.by
  /\ \A f, g \in Factory :
       factory[f].st = "active" /\ factory[g].st = "active" => factory[f].by = factory[g].by

\* An account, the agreement and the status under review appear together, also
\* when the e-mail is taken between check and insert; no e-mail is used twice.
OnboardedIsWhole ==
  /\ accounts # {} <=> supplier.status = "review"
  /\ accounts # {} <=> consent
  /\ \A a, b \in accounts : a.email = b.email => a = b
  /\ \A a \in accounts : a.email \notin taken

\* However calls of PATCH risk-score overlap with each other and with calls that
\* lock the two rows in the other order, suppliers caches the profile's level.
ScoreIsAtomic == ~ raised => supplier.level = profile.level

\* The level of a profile is that of its score, by either copy of the
\* thresholds, unless a graph node wrote over a profile it had not read.
LevelFits ==
  overlap \/ /\ profile.level = ScoreToRiskLevel(profile.score)
             /\ profile.level = CalculateRiskLevel(profile.score)

\* Whatever number of web workers receives the invitation, one mail of each date
\* is sent: the delivery that has claimed the key of a date is the only one, and
\* mails at most once.
OneMail ==
  /\ \A d \in Date : mails[d] <= 1 /\ (mails[d] > 0 => d \in key)
  /\ \A x \in claims : /\ x[2] \in key /\ mails[x[2]] = 0
                      /\ \A y \in claims : y[2] = x[2] => y = x

\* What a transaction holds and has written, as far as it has come: an onboarding
\* or a form that has begun to write holds the company row, and what it saves of
\* the factories is nothing, or says of every existing one what becomes of it.
CallsFit ==
  \A c \in Call :
    LET saves == call[c].own \cup call[c].gone \cup call[c].off IN
    /\ call[c].op = "onboard" => call[c].email \in Email
    /\ call[c].st = "profiled" => call[c].points <= 100
    /\ call[c].st \in {"profiled", "rated"} => lock.profile = c
    /\ call[c].st \in {"idle", "checked", "locked"} => saves = {}
    /\ call[c].op \in {"onboard", "form"} /\ call[c].st \in {"locked", "saved", "rated"} =>
         lock.supplier = c /\ (saves = {} \/ Existing \subseteq saves)

\* What every commit leaves behind, whichever calls overlapped or failed.
SupplierInv ==
  /\ TypeOK
  /\ RecordIsOneCalls
  /\ OnboardedIsWhole
  /\ OneMail
  /\ CallsFit

\* Calls end although they lock two rows in both orders.
EveryCallEnds == \A c \in Call : call[c].st # "idle" ~> call[c].st = "done"
=============================================================================
