--------------------------- MODULE FeatureCatalog ---------------------------
(***************************************************************************)
(* The business features of one service, as every scan extracts them anew  *)
(* and merges them into what earlier scans stored: BusinessFeatureExtractor*)
(* and its persistFeatures.                                                *)
(*                                                                         *)
(* A row's id is a hash of the lower-cased, trimmed name; two features are *)
(* matched by a name with the punctuation stripped as well.  So a Name is  *)
(* a spelling, which is an id, and Key gives the names that match.         *)
(***************************************************************************)
EXTENDS Integers, Sequences, SequencesExt

CONSTANTS Names,       \* spellings of features' names: one row each
          Key(_),      \* normaliseName of a spelling
          Contents,    \* description, diagram and threat model together
          MaxDrafts,   \* features one extraction may return, a bound
          MaxRescans,  \* extractions of the service, a bound
          ListLimit,   \* how many rows the extractor reads back
          WriteFaults  \* what may fail: among "list", "row", "edge", "docs"

NoName == "no name"

ASSUME CatalogAssumption ==
    /\ NoName \notin Names
    /\ MaxDrafts \in Nat /\ MaxRescans \in Nat /\ ListLimit \in Nat

VARIABLES features,    \* entities of type feature_analysis, by id
          indexed,     \* ids of the features' semantic documents
          implements,  \* sources of the IMPLEMENTS_FEATURE edges
          persist,     \* the persistFeatures call in progress, or the last one
          rescans      \* extractions started so far

catalogVars == <<features, indexed, implements, persist, rescans>>

NoFeature == [status |-> "absent", version |-> 0, content |-> NoName,
              prev |-> NoName, log |-> 0]

Draft == [name : Names, content : Contents]

Feature == [status : {"absent", "active", "deprecated"}, version : Nat,
            content : Contents \union {NoName},
            prev : Names \union {NoName}, log : Nat]

Write == [name : Names, row : Feature]

\* What is left to write: of drafts, by their place in the list, the rows they
\* supersede and their own; of rows that disappeared.
Idle == [at |-> "idle", drafts |-> <<>>, old |-> <<>>, gone |-> {}, new |-> <<>>,
         docs |-> {}, clean |-> TRUE]

CatalogTypeOK ==
    /\ features \in [Names -> Feature]
    /\ indexed \subseteq Names
    /\ implements \subseteq Names
    /\ persist.at \in {"idle", "load", "write", "docs", "done"}
    /\ persist.drafts \in Seq(Draft)
    /\ \A i \in DOMAIN persist.old : persist.old[i] \in Write
    /\ persist.gone \subseteq Write
    /\ \A i \in DOMAIN persist.new : persist.new[i] \in Write
    /\ rescans \in 0..MaxRescans

CatalogInit ==
    /\ features = [n \in Names |-> NoFeature]
    /\ indexed = {}
    /\ implements = {}
    /\ persist = Idle
    /\ rescans = 0

-----------------------------------------------------------------------------
(* extractFeaturesForService                                               *)

Extractions == BoundedSeq(Draft, MaxDrafts)

\* The agents return a list of features; one whose diagram or threat model
\* fails is left out.  Nothing is stored when nothing is left.
ExtractFeatures ==
    /\ persist.at \in {"idle", "done"}
    /\ rescans < MaxRescans
    /\ rescans' = rescans + 1
    /\ \E drafts \in Extractions :
          persist' = [Idle EXCEPT !.at = IF drafts = <<>> THEN "idle" ELSE "load",
                                  !.drafts = drafts]
    /\ UNCHANGED <<features, indexed, implements>>

-----------------------------------------------------------------------------
(* persistFeatures: a plan from what was active, then one write at a time. *)

Active == {n \in Names : features[n].status = "active"}

\* A call to a store may fail; at most one of a call of persistFeatures does,
\* a bound.
Lost(what) == what \in WriteFaults /\ persist.clean

\* loadActiveFeaturesByService: ListLimit rows are read, in no order, and
\* filtered after that; a read that fails counts as nothing there.
Loaded ==
    LET stored == {n \in Names : features[n].status # "absent"}
        read == IF Cardinality(stored) <= ListLimit THEN {stored}
                ELSE kSubset(ListLimit, stored)
    IN {Active \intersect r : r \in read}
       \union (IF Lost("list") THEN {{}} ELSE {})

\* find takes the first row that matches.
Matches(loaded) ==
    {first \in [{Key(n) : n \in loaded} -> loaded] :
        \A k \in DOMAIN first : Key(first[k]) = k}

Same(d, n) == d.name = n /\ d.content = features[n].content

Deprecate(n) == [name |-> n, row |-> [features[n] EXCEPT !.status = "deprecated"]]

NewFeature(d) ==
    [name |-> d.name,
     row |-> [status |-> "active", version |-> 1, content |-> d.content,
              prev |-> NoName, log |-> 1]]

\* The new version takes the id its name gives it, that of the version it
\* replaces when the name is spelled as before.
NewVersion(d, n) ==
    [name |-> d.name,
     row |-> [status |-> "active", version |-> features[n].version + 1,
              content |-> d.content, prev |-> n, log |-> features[n].log + 1]]

\* What is written for the drafts, given the match of each key; a draft that
\* says what its match says is left out.
Plan(drafts, loaded, first) ==
    LET Matched(d) == Key(d.name) \in DOMAIN first
        Match(d) == first[Key(d.name)]
        matched == {i \in DOMAIN drafts : Matched(drafts[i])}
        unchanged == {i \in matched : Same(drafts[i], Match(drafts[i]))}
    IN [old |-> [i \in matched \ unchanged |-> Deprecate(Match(drafts[i]))],
        gone |-> {Deprecate(n) : n \in loaded \ {Match(drafts[i]) : i \in matched}},
        new |-> [i \in DOMAIN drafts \ unchanged |->
                    IF i \in matched THEN NewVersion(drafts[i], Match(drafts[i]))
                    ELSE NewFeature(drafts[i])]]

LoadAndPlan ==
    /\ persist.at = "load"
    /\ \E loaded \in Loaded : \E first \in Matches(loaded) :
          LET plan == Plan(persist.drafts, loaded, first)
          IN persist' = [persist EXCEPT
                !.at = "write", !.old = plan.old, !.gone = plan.gone,
                !.new = plan.new, !.docs = {plan.new[i].name : i \in DOMAIN plan.new},
                !.clean = (loaded = Active)]
    /\ UNCHANGED <<features, indexed, implements, rescans>>

\* The writes that may be next, each with what is left after it.
Earliest(writes) == {i \in DOMAIN writes : \A j \in DOMAIN writes : i <= j}

OldWrites ==
    {[write |-> persist.old[i],
      left |-> [persist EXCEPT !.old = Restrict(@, DOMAIN @ \ {i})]] :
        i \in Earliest(persist.old)}

GoneWrites ==
    {[write |-> w, left |-> [persist EXCEPT !.gone = @ \ {w}]] : w \in persist.gone}

NewWrites ==
    {[write |-> persist.new[i],
      left |-> [persist EXCEPT !.new = Restrict(@, DOMAIN @ \ {i})]] :
        i \in Earliest(persist.new)}

\* Mutation: the new rows are written before the old ones are deprecated.
NextWritesNewFirst ==
    IF NewWrites # {} THEN NewWrites
    ELSE IF OldWrites # {} THEN OldWrites ELSE GoneWrites

\* Superseded rows first, then those that disappeared, then the new ones.
NextWrites ==
    IF OldWrites # {} THEN OldWrites
    ELSE IF GoneWrites # {} THEN GoneWrites ELSE NewWrites

\* One storeEntity, and the edge of an active feature after it; the error of
\* either is logged, and the next write follows.
WriteFeature ==
    /\ persist.at = "write"
    /\ \E next \in NextWrites :
          LET w == next.write IN
          \/ /\ features' = [features EXCEPT ![w.name] = w.row]
             /\ \/ implements' = IF w.row.status = "active"
                                 THEN implements \union {w.name} ELSE implements
                \/ Lost("edge") /\ UNCHANGED implements
             /\ persist' = next.left
          \/ /\ Lost("row")
             /\ persist' = [next.left EXCEPT !.clean = FALSE]
             /\ UNCHANGED <<features, implements>>
    /\ UNCHANGED <<indexed, rescans>>

\* The semantic documents of the new rows, in one batch; those of deprecated
\* features stay.
IndexFeatures ==
    /\ persist.at = "write" /\ NextWrites = {}
    /\ \/ indexed' = indexed \union persist.docs
       \/ Lost("docs") /\ UNCHANGED indexed
    /\ persist' = [persist EXCEPT !.at = "done"]
    /\ UNCHANGED <<features, implements, rescans>>

PersistStep == LoadAndPlan \/ WriteFeature \/ IndexFeatures

-----------------------------------------------------------------------------
(* Properties                                                              *)

\* After a call of persistFeatures that saw every active row and lost no
\* write, the active features are the ones just extracted, spelled and
\* described as they were, whatever earlier scans left behind: a feature
\* deprecated by this call and written anew under the same id must end
\* active, one that is spelled differently now must leave no second row.
\* (Two drafts of one extraction that match each other are out of it: both
\* are stored, and the next scan deprecates one of them.)
CatalogIsExtraction ==
    (persist.at = "done" /\ persist.clean
       /\ \A i, j \in DOMAIN persist.drafts :
             Key(persist.drafts[i].name) = Key(persist.drafts[j].name) => i = j)
    => {[name |-> n, content |-> features[n].content] : n \in Active}
         = {persist.drafts[i] : i \in DOMAIN persist.drafts}

=============================================================================
