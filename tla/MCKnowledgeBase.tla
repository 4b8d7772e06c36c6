--------------------------- MODULE MCKnowledgeBase --------------------------
(* Small instances of KnowledgeBase.                                       *)
EXTENDS KnowledgeBase

Spellings == {"Log in", "Log-in", "Pay"}
TwoSpellings == {"Log in", "Log-in"}

\* Punctuation is stripped before names are compared.
KeyOf(n) == IF n = "Pay" THEN "pay" ELSE "login"

\* A feature first uses a database, later a queue.
DiagramStores(c) == IF c = "first" THEN {"database"} ELSE {"queue"}

Full == [correlate |-> TRUE, services |-> TRUE, features |-> TRUE]
FullOnly == {Full}
AnyDomains == {Full, [Full EXCEPT !.services = FALSE, !.features = FALSE],
               [Full EXCEPT !.correlate = FALSE, !.services = FALSE]}

ServiceFaults == {"rows", "nodes", "fetch", "analysis", "extraction", "threats",
                  "reread", "delete", "exploit"}
RereadFault == {"reread"}
ExtractionFault == {"extraction"}
NoFaults == {}
CatalogFaults == {"list", "row", "edge", "docs"}
=============================================================================
