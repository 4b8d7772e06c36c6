--------------------------- MODULE MCScanPipeline ---------------------------
(* Small instances of ScanPipeline.                                        *)
EXTENDS ScanPipeline

CONSTANTS r1, r2

\* Discovery finds nothing, one repository, or both.
NoneOneOrBoth == {<< >>, <<r1>>, <<r1, r2>>}
NoneOrOne == {<< >>, <<r1>>}

Everything == [scope |-> "all", cloud |-> TRUE, incremental |-> FALSE,
               correlate |-> TRUE, features |-> TRUE]

\* A scan of the features domain alone.
FeaturesOnly == [Everything EXCEPT !.incremental = TRUE, !.correlate = FALSE]

\* A full scan, an incremental code scan of the infrastructure domain, and a
\* cloud scan.
ThreeKinds == {Everything,
               [Everything EXCEPT !.scope = "code", !.incremental = TRUE,
                                  !.features = FALSE, !.cloud = FALSE],
               [Everything EXCEPT !.scope = "cloud", !.cloud = FALSE]}

FourKinds == ThreeKinds \cup {FeaturesOnly}

\* A full scan of the infrastructure, and an incremental one of everything.
TwoKinds == {[Everything EXCEPT !.features = FALSE],
             [Everything EXCEPT !.incremental = TRUE]}

\* A code scan that names cloud discovery.
CodeKind == {[Everything EXCEPT !.scope = "code"]}
=============================================================================
