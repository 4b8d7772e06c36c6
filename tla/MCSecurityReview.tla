-------------------------- MODULE MCSecurityReview --------------------------
(* Small instances of SecurityReview for TLC.                              *)
EXTENDS SecurityReview, TLC

CONSTANTS q, d1, d2

MCQuestions == {q}
MCTaskDefs == {d1, d2}

\* One definition is high, the other medium: a threshold can separate them.
MCSeverity == (d1 :> 3) @@ (d2 :> 2)

\* A rule and a baseline task; the edited template moves both definitions to
\* the rule and exports automatically.
Plain == [rules |-> (q :> {d1}), baseline |-> {d2},
          autoCreate |-> FALSE, threshold |-> 3]
Edited == [rules |-> (q :> {d1, d2}), baseline |-> {},
           autoCreate |-> TRUE, threshold |-> 2]

MCPolicies == {Plain, Edited}
=============================================================================
