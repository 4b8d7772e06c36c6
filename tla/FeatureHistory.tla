--------------------------- MODULE FeatureHistory ---------------------------
(* FeatureService.getFeatureHistory, which walks the versions of a feature *)
(* over the rows that FeatureCatalog keeps.                                *)
EXTENDS FeatureCatalog

VARIABLE walk   \* one call of getFeatureHistory, or the last

vars == <<catalogVars, walk>>

NoWalk == [at |-> "idle", id |-> NoName]

Init == CatalogInit /\ walk = NoWalk

\* The start is any version of the feature; one that is not stored has no
\* history.
StartHistory ==
    /\ walk.at = "idle"
    /\ \E n \in Names :
          walk' = IF features[n].status = "absent" THEN NoWalk
                  ELSE [at |-> "walking", id |-> n]
    /\ UNCHANGED catalogVars

\* Each round follows the link of the record it is at ...
FollowLink ==
    LET prev == features[walk.id].prev IN
    /\ walk.at = "walking"
    /\ walk' = IF prev = NoName THEN NoWalk ELSE [at |-> "reading", id |-> prev]
    /\ UNCHANGED catalogVars

\* ... and reads the row there, which becomes the record it is at.
ReadVersion ==
    /\ walk.at = "reading"
    /\ walk' = IF features[walk.id].status = "absent" THEN NoWalk
               ELSE [walk EXCEPT !.at = "walking"]
    /\ UNCHANGED catalogVars

WalkHistory == FollowLink \/ ReadVersion

Next ==
    \/ (ExtractFeatures \/ PersistStep) /\ UNCHANGED walk
    \/ StartHistory
    \/ WalkHistory

\* A call that was made goes on: persisting and walking wait for nothing but
\* the database.
Spec ==
    /\ Init /\ [][Next]_vars
    /\ WF_vars(PersistStep /\ UNCHANGED walk)
    /\ WF_vars(WalkHistory)

\* "Return all versions (active + deprecated) for a feature lineage, ordered
\* newest first" (feature.service.ts:92): every call ends.
HistoryEnds == walk.at # "idle" ~> walk.at = "idle"
=============================================================================
