------------------------------ MODULE ReviewGate ------------------------------
(***************************************************************************)
(* What the review table promises about one batch, whatever executions and *)
(* requests touch it: a review is opened for a key (the reason and stage   *)
(* the pipeline stopped at) only while no other review for that key is     *)
(* open; a decision is made on a review that was opened; a review never    *)
(* disappears, never changes its key and never opens again.                *)
(***************************************************************************)
CONSTANTS Review, Key, Resolution

VARIABLES
  opened,    \* the reviews that have been opened
  key,       \* what each of them is for
  decision   \* the decision on each, "none" while it is open

gateVars == <<opened, key, decision>>

OpenFor(k) == {r \in opened : key[r] = k /\ decision[r] = "none"}

\* A batch starts without a review, or seeded with one.
Init ==
  /\ decision = [r \in Review |-> "none"]
  /\ key \in [Review -> Key]
  /\ \/ opened = {}
     \/ \E r \in Review : opened = {r}

OpenReview(r, k) ==
  /\ r \notin opened
  /\ OpenFor(k) = {}
  /\ opened' = opened \cup {r}
  /\ key' = [key EXCEPT ![r] = k]
  /\ UNCHANGED decision

\* Deciding twice is possible, and the later decision stands.
Decide(r, resolution) ==
  /\ r \in opened
  /\ decision' = [decision EXCEPT ![r] = resolution]
  /\ UNCHANGED <<opened, key>>

Next ==
  \E r \in Review :
    \/ \E k \in Key : OpenReview(r, k)
    \/ \E resolution \in Resolution : Decide(r, resolution)

Spec == Init /\ [][Next]_gateVars
=============================================================================
