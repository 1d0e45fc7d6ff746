----------------------------- MODULE MCCompliance -----------------------------
(* Compliance with the answers of the language model that the code tells     *)
(* apart: a warning that asks for a human itself, a pass without a citation, *)
(* a cited null verdict, a verdict of the model's own invention, and none at *)
(* all (a plain pass is what the stubs give); interchangeable factories.     *)
EXTENDS Compliance, TLC

Answer(verdict, cited, review, sure) ==
  [verdict |-> verdict, cited |-> cited, review |-> review, sure |-> sure]

MCAnswers == {Answer("compliance_warning", TRUE, TRUE, FALSE),
              Answer("compliance_passed", FALSE, FALSE, FALSE),
              Answer("null", TRUE, FALSE, TRUE),
              Answer("unlisted", TRUE, FALSE, TRUE),
              Answer("none", TRUE, FALSE, TRUE)}

\* The regulations a run looks at, two of each destination.
Looked == [EU   |-> {"EU_BATTERY_ART7", "CSDDD"},
           US   |-> {"UFLPA", "CONFLICT_MINERALS"},
           BOTH |-> {"EU_BATTERY", "UFLPA"}]

MCJudged ==
  [dest \in DOMAIN Looked |-> SelectSeq(RegulationsOf[dest], LAMBDA c : c \in Looked[dest])]

Symmetry == Permutations(Factory)
=============================================================================
