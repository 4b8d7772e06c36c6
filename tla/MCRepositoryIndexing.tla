------------------------- MODULE MCRepositoryIndexing -------------------------
(* Small instances of RepositoryIndexing for TLC.                          *)
EXTENDS RepositoryIndexing, TLC

CONSTANTS s1, s2, f1, f2

OneService == {s1}
TwoServices == {s1, s2}
OneFeature == {f1}
TwoFeatures == {f1, f2}
NoFeatures == {}

\* Calls are interchangeable; sound for safety properties only.
CallSymmetry == Permutations(Calls)
=============================================================================
