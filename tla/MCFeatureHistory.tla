-------------------------- MODULE MCFeatureHistory --------------------------
(* Small instance of FeatureHistory: one feature in two spellings, and     *)
(* another one.                                                            *)
EXTENDS FeatureHistory

Spellings == {"Log in", "Log-in", "Pay"}

\* Punctuation is stripped before names are compared.
KeyOf(n) == IF n = "Pay" THEN "pay" ELSE "login"

NoFaults == {}
=============================================================================
