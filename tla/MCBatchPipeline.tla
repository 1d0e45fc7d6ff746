--------------------------- MODULE MCBatchPipeline ---------------------------
(* Instances of BatchPipeline for TLC; the .cfg files choose the sets. *)
EXTENDS BatchPipeline, TLC

\* Handlers and decision requests are interchangeable, and review identities
\* are random UUIDs.
Symmetry == Permutations(Handler) \cup Permutations(Reviewer)
              \cup Permutations(Review)
=============================================================================
