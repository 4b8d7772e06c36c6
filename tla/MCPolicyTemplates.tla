-------------------------- MODULE MCPolicyTemplates -------------------------
(* Small instances of PolicyTemplates: two of the four types, a question of *)
(* the defaults and a new one.                                              *)
EXTENDS PolicyTemplates, TLC

TwoTypes == <<"security_review", "privacy">>
OneType == <<"security_review">>
FactoryQuestions == {"auth"}
AllQuestions == {"auth", "own"}

\* Requests in progress differ in nothing but what they do.
AnySlot == Permutations(Slots)
=============================================================================
