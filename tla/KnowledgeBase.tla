---------------------------- MODULE KnowledgeBase ---------------------------
(***************************************************************************)
(* What a scan stores about one service, and where: the entities table     *)
(* (PostgresDataAdapter), the graph beside it (PostgresGraphAdapter), and  *)
(* the copy the scan works on.  The stages are those of                    *)
(* RepositoryTaskProcessor, from the extraction of the code to the         *)
(* exploitability of its threats; the features stage runs FeatureCatalog.  *)
(* Deleting all assets (AssetService.deleteAllAssets) goes on beside it.   *)
(*                                                                         *)
(* A payload is a set of fields, and of each field only the scan that      *)
(* produced it is kept; 0 is a field that is not set.                      *)
(***************************************************************************)
EXTENDS FeatureCatalog

CONSTANTS DataStores,    \* technologies of data stores
          StoresIn(_),   \* the data stores in the diagram of a feature
          Options,       \* what the scans are asked to do
          Faults,        \* which awaited calls may fail
          OneFault,      \* whether at most one does in a scan, a bound
          MaxDeletions   \* times all assets are deleted, a bound

VARIABLES row,         \* the service in the entities table
          node,        \* the service in the graph
          storeRows,   \* data stores in the entities table
          storeNodes,  \* data stores in the graph
          storeEdges,  \* data stores an edge of the graph leads to
          scan,        \* the scan in progress, or the last one
          deletion     \* [at: between the two stores or not, done: how many]

storage == <<row, node, storeRows, storeNodes, storeEdges>>
knowledgeVars == <<catalogVars, storage, scan, deletion>>

\* "severity" is that of the service's gravest threat, set with "threats":
\* 3 critical, 2 high, 1 anything below.
Fields == {"code", "analysis", "threats", "severity", "exploit"}

Nothing == [f \in Fields |-> 0]

Payload == [Fields -> Nat]

ScanOptions == [correlate : BOOLEAN, services : BOOLEAN, features : BOOLEAN]

ASSUME KnowledgeAssumption ==
    /\ Options \subseteq ScanOptions
    /\ \A c \in Contents : StoresIn(c) \subseteq DataStores
    /\ OneFault \in BOOLEAN /\ MaxDeletions \in Nat

Steps == {"read", "rows", "nodes", "fetch", "analyse", "node", "extract",
          "catalog", "model", "threats", "threat node", "reread", "delete",
          "consolidate", "store rows", "store nodes", "store edges", "exploit",
          "ended"}

Scan == [n : Nat, at : Steps, options : ScanOptions,
         memory : Payload,        \* the entity in the list of the task
         held : Payload,          \* what was read, or is about to be written
         found : SUBSET DataStores,  \* what consolidation computed
         did : SUBSET {"analysis", "threats"},  \* history: enriched it with
         stale : BOOLEAN,         \* history: the service was not read again
         clean : BOOLEAN]         \* history: nothing failed or was deleted

NoOptions == [correlate |-> FALSE, services |-> FALSE, features |-> FALSE]

KnowledgeTypeOK ==
    /\ CatalogTypeOK
    /\ row \in Payload /\ node \in Payload
    /\ storeRows \subseteq DataStores
    /\ storeNodes \subseteq DataStores
    /\ storeEdges \subseteq DataStores
    /\ scan \in Scan
    /\ deletion \in [at : {"idle", "graph"}, done : 0..MaxDeletions,
                     since : Nat]   \* history: the scan it came in

KnowledgeInit ==
    /\ CatalogInit
    /\ row = Nothing /\ node = Nothing
    /\ storeRows = {} /\ storeNodes = {} /\ storeEdges = {}
    /\ scan = [n |-> 0, at |-> "ended", options |-> NoOptions,
               memory |-> Nothing, held |-> Nothing, found |-> {}, did |-> {},
               stale |-> FALSE, clean |-> FALSE]
    /\ deletion = [at |-> "idle", done |-> 0, since |-> 0]

-----------------------------------------------------------------------------
(* Payloads.                                                               *)

\* Mutation: the payload is replaced.
MergeReplace(old, new) == new

\* { ...old, ...new }, and || of the database: a field that is set wins.
Merge(old, new) == [f \in Fields |-> IF new[f] # 0 THEN new[f] ELSE old[f]]

\* The scan goes on at a step.
Go(step) == [scan EXCEPT !.at = step]
Unclean(s) == [s EXCEPT !.clean = FALSE]

\* An awaited call may fail; what becomes of the error is said at each.
Fails(what) == what \in Faults /\ (OneFault => scan.clean)


-----------------------------------------------------------------------------
(* Stage 1: extracted and transformed code is stored.                      *)

StartScan ==
    /\ scan.at = "ended" /\ scan.n < MaxRescans
    /\ \E o \in Options :
          scan' = [n |-> scan.n + 1, at |-> "read", options |-> o,
                   memory |-> [Nothing EXCEPT !["code"] = scan.n + 1],
                   held |-> Nothing, found |-> {}, did |-> {},
                   stale |-> FALSE, clean |-> TRUE]
    /\ UNCHANGED <<catalogVars, storage, deletion>>

\* storeEntities of the relational store: rows are read before the
\* transaction begins; without them nothing is written.
ReadPrevious ==
    /\ scan.at = "read"
    /\ \/ scan' = [Go("rows") EXCEPT !.held = row]
       \/ Fails("rows") /\ scan' = Unclean(Go("nodes"))
    /\ UNCHANGED <<catalogVars, storage, deletion>>

\* The transaction: all rows are merged with what was read, or none.
StoreRows ==
    /\ scan.at = "rows"
    /\ \/ row' = Merge(scan.held, scan.memory) /\ scan' = Go("nodes")
       \/ Fails("rows") /\ UNCHANGED row /\ scan' = Unclean(Go("nodes"))
    /\ UNCHANGED <<catalogVars, node, storeRows, storeNodes, storeEdges, deletion>>

AfterCorrelation == IF scan.options.features THEN "extract" ELSE "delete"

\* The graph takes the entity as it is.
StoreNodes ==
    LET next == IF scan.options.correlate THEN "fetch" ELSE AfterCorrelation IN
    /\ scan.at = "nodes"
    /\ \/ node' = scan.memory /\ scan' = Go(next)
       \/ Fails("nodes") /\ UNCHANGED node /\ scan' = Unclean(Go(next))
    /\ UNCHANGED <<catalogVars, row, storeRows, storeNodes, storeEdges, deletion>>

-----------------------------------------------------------------------------
(* Stage 4: correlation.                                                   *)

\* fetchDbEntities and mergeWithDb: what was extracted is laid over what is
\* stored, in memory.
FetchDbEntities ==
    LET next == IF scan.options.services THEN "analyse" ELSE AfterCorrelation IN
    /\ scan.at = "fetch"
    /\ \/ scan' = [Go(next) EXCEPT !.memory = Merge(row, @)]
       \/ Fails("fetch") /\ scan' = Unclean(Go(next))
    /\ UNCHANGED <<catalogVars, storage, deletion>>

\* analyzeService, and the row of persistServiceAnalysis.  An analysis that
\* fails is skipped.
AnalyseService ==
    LET analysed == [scan.memory EXCEPT !["analysis"] = scan.n]
        next == [Go("node") EXCEPT !.memory = analysed,
                                   !.did = @ \union {"analysis"}] IN
    /\ scan.at = "analyse"
    /\ \/ row' = Merge(row, analysed) /\ scan' = next
       \/ Fails("rows") /\ UNCHANGED row /\ scan' = Unclean(next)
       \/ Fails("analysis") /\ UNCHANGED row /\ scan' = Unclean(Go(AfterCorrelation))
    /\ UNCHANGED <<catalogVars, node, storeRows, storeNodes, storeEdges, deletion>>

\* The graph's part of persistServiceAnalysis.
StoreAnalysedNode ==
    /\ scan.at = "node"
    /\ \/ node' = scan.memory /\ scan' = Go(AfterCorrelation)
       \/ Fails("nodes") /\ UNCHANGED node /\ scan' = Unclean(Go(AfterCorrelation))
    /\ UNCHANGED <<catalogVars, row, storeRows, storeNodes, storeEdges, deletion>>

-----------------------------------------------------------------------------
(* Stage 5: features, and the threat model of the service.                 *)

\* extractFeaturesForService; without features there is no threat model, and
\* when it throws the service is not read again either.
ExtractServiceFeatures ==
    /\ scan.at = "extract"
    /\ \/ /\ ExtractFeatures
          /\ scan' = Go(IF persist'.at = "load" THEN "catalog" ELSE "reread")
       \/ /\ Fails("extraction")
          /\ scan' = Unclean(Go("delete"))
          /\ UNCHANGED catalogVars
    /\ UNCHANGED <<storage, deletion>>

PersistFeatures ==
    /\ scan.at = "catalog"
    /\ PersistStep
    /\ scan' = IF persist'.at = "done" THEN Go("model") ELSE scan
    /\ UNCHANGED <<storage, deletion>>

\* Mutation: the entity the stage was called with is the base.
ThreatBaseMemory == scan.memory

\* persistServiceSecurityData lays the threats over the stored entity.
ThreatBase == IF row = Nothing THEN scan.memory ELSE row

\* The two agents, and the read of the base; the error of any of them is
\* logged, and the service read again.
ModelThreats ==
    /\ scan.at = "model"
    /\ \/ scan' = [Go("threats") EXCEPT
                     !.held = [ThreatBase EXCEPT !["threats"] = scan.n,
                                                 !["severity"] = 3]]
       \/ Fails("threats") /\ scan' = Unclean(Go("reread"))
    /\ UNCHANGED <<catalogVars, storage, deletion>>

StoreThreats ==
    /\ scan.at = "threats"
    /\ \/ /\ row' = Merge(row, scan.held)
          /\ scan' = [Go("threat node") EXCEPT !.did = @ \union {"threats"}]
       \/ Fails("rows") /\ UNCHANGED row /\ scan' = Unclean(Go("reread"))
    /\ UNCHANGED <<catalogVars, node, storeRows, storeNodes, storeEdges, deletion>>

StoreThreatNode ==
    /\ scan.at = "threat node"
    /\ \/ node' = scan.held /\ scan' = Go("reread")
       \/ Fails("nodes") /\ UNCHANGED node /\ scan' = Unclean(Go("reread"))
    /\ UNCHANGED <<catalogVars, row, storeRows, storeNodes, storeEdges, deletion>>

\* The list of the task takes the stored entity, if there is one.
ReadServiceAgain ==
    /\ scan.at = "reread"
    /\ \/ scan' = [Go("delete") EXCEPT !.memory = IF row = Nothing THEN @ ELSE row]
       \/ Fails("reread") /\ scan' = [Unclean(Go("delete")) EXCEPT !.stale = TRUE]
    /\ UNCHANGED <<catalogVars, storage, deletion>>

-----------------------------------------------------------------------------
(* Stage 5.5: data stores, computed anew for the tenant.                   *)

AfterConsolidation == IF scan.options.features THEN "exploit" ELSE "ended"

\* Mutation: the graph keeps its own.
DeletedNodesKept == storeNodes

DeletedNodes == {}

\* Both stores forget their data stores, side by side; when either fails the
\* stage has.
DeleteStores ==
    /\ scan.at = "delete"
    /\ \/ /\ storeRows' = {} /\ storeNodes' = DeletedNodes
          /\ scan' = Go("consolidate")
       \/ /\ Fails("delete")
          /\ \/ storeRows' = {} /\ UNCHANGED storeNodes
             \/ storeNodes' = {} /\ UNCHANGED storeRows
          /\ scan' = Unclean(Go(AfterConsolidation))
    /\ UNCHANGED <<catalogVars, row, node, storeEdges, deletion>>

\* Features of any status count.
Consolidated ==
    UNION {StoresIn(features[f].content) :
              f \in {g \in Names : features[g].status # "absent"}}

Consolidate ==
    /\ scan.at = "consolidate"
    /\ \/ scan' = [Go(IF Consolidated = {} THEN AfterConsolidation
                      ELSE "store rows") EXCEPT !.found = Consolidated]
       \/ Fails("fetch") /\ scan' = Unclean(Go(AfterConsolidation))
    /\ UNCHANGED <<catalogVars, storage, deletion>>

\* persistEntities returns its errors, and nobody reads them.
StoreStoreRows ==
    /\ scan.at = "store rows"
    /\ \/ storeRows' = storeRows \union scan.found /\ scan' = Go("store nodes")
       \/ Fails("rows") /\ UNCHANGED storeRows /\ scan' = Unclean(Go("store nodes"))
    /\ UNCHANGED <<catalogVars, row, node, storeNodes, storeEdges, deletion>>

StoreStoreNodes ==
    /\ scan.at = "store nodes"
    /\ \/ storeNodes' = storeNodes \union scan.found /\ scan' = Go("store edges")
       \/ Fails("nodes") /\ UNCHANGED storeNodes /\ scan' = Unclean(Go("store edges"))
    /\ UNCHANGED <<catalogVars, row, node, storeRows, storeEdges, deletion>>

\* Edges of earlier consolidations stay.
StoreStoreEdges ==
    /\ scan.at = "store edges"
    /\ \/ storeEdges' = storeEdges \union scan.found /\ scan' = Go(AfterConsolidation)
       \/ Fails("nodes") /\ UNCHANGED storeEdges
          /\ scan' = Unclean(Go(AfterConsolidation))
    /\ UNCHANGED <<catalogVars, row, node, storeRows, storeNodes, deletion>>

-----------------------------------------------------------------------------
(* Stage 6: exploitability.                                                *)

\* adjustSeverity: a threat that no path reaches is demoted one step; one
\* that a path does reach stays, or is promoted.
Adjusted(severity) == {IF severity > 1 THEN severity - 1 ELSE 1} \union severity..3

\* analyzeExploitability works on the copy in memory and stores all of it,
\* in the entities table only; without threats the service is left alone.
AnalyseExploitability ==
    /\ scan.at = "exploit"
    /\ IF scan.memory["threats"] = 0
       THEN UNCHANGED row /\ scan' = Go("ended")
       ELSE \/ \E s \in Adjusted(scan.memory["severity"]) :
                  LET analysed == [scan.memory EXCEPT !["exploit"] = scan.n,
                                                      !["severity"] = s] IN
                  \/ /\ row' = Merge(row, analysed)
                     /\ scan' = [Go("ended") EXCEPT !.memory = analysed]
                  \/ /\ Fails("rows") /\ UNCHANGED row
                     /\ scan' = [Unclean(Go("ended")) EXCEPT !.memory = analysed]
            \/ Fails("exploit") /\ UNCHANGED row /\ scan' = Unclean(Go("ended"))
    /\ UNCHANGED <<catalogVars, node, storeRows, storeNodes, storeEdges, deletion>>

-----------------------------------------------------------------------------
(* deleteAllAssets                                                         *)

\* The tables of the entities and of the semantic documents ...
DeleteTenantData ==
    /\ deletion.at = "idle" /\ deletion.done < MaxDeletions
    /\ row' = Nothing /\ storeRows' = {}
    /\ features' = [n \in Names |-> NoFeature] /\ indexed' = {}
    /\ deletion' = [at |-> "graph", done |-> deletion.done + 1, since |-> scan.n]
    /\ scan' = Unclean(scan)
    /\ persist' = [persist EXCEPT !.clean = FALSE]
    /\ UNCHANGED <<implements, rescans, node, storeNodes, storeEdges>>

\* ... and then those of the graph.
DeleteTenantGraph ==
    /\ deletion.at = "graph"
    /\ node' = Nothing /\ storeNodes' = {} /\ storeEdges' = {} /\ implements' = {}
    /\ deletion' = [deletion EXCEPT !.at = "idle"]
    /\ scan' = Unclean(scan)
    /\ UNCHANGED <<features, indexed, persist, rescans, row, storeRows>>

-----------------------------------------------------------------------------
ScanStep ==
    \/ ReadPrevious \/ StoreRows \/ StoreNodes
    \/ FetchDbEntities \/ AnalyseService \/ StoreAnalysedNode
    \/ ExtractServiceFeatures \/ PersistFeatures
    \/ ModelThreats \/ StoreThreats \/ StoreThreatNode \/ ReadServiceAgain
    \/ DeleteStores \/ Consolidate
    \/ StoreStoreRows \/ StoreStoreNodes \/ StoreStoreEdges
    \/ AnalyseExploitability

KnowledgeNext == StartScan \/ ScanStep \/ DeleteTenantData \/ DeleteTenantGraph

KnowledgeSpec == KnowledgeInit /\ [][KnowledgeNext]_knowledgeVars

-----------------------------------------------------------------------------
(* Properties                                                              *)

\* A scan that could not read the service again after its features works on
\* without the threat model it has just stored, and its last write loses it
\* (repository-task-processor.ts:699).
Forgets(f) == f = "threats" /\ scan.stale /\ scan.at = "exploit" /\ row[f] = scan.n

\* Every stage stores the whole entity, as it read it some awaits before: no
\* field of the row may go back to what an earlier scan made of it, unless
\* everything is deleted.  Whichever calls fail, the only thing to be lost is
\* the threat model of this very scan, by its last write, when the read that
\* comes before it failed: never what an earlier scan found.
FieldsAdvance ==
    [][row' = Nothing \/ \A f \in Fields \ {"severity"} :
                           row'[f] >= row[f] \/ Forgets(f)]_knowledgeVars

\* At the end of a scan in which nothing failed and nothing was deleted, both
\* stores have the new code and what the scan made of it; the graph, which is
\* overwritten with bare code first, has got back what the scan did not make,
\* as soon as the scan enriched the entity at all; and a severity was adjusted
\* once, from the threat model of the same scan.
CleanScanIsFresh ==
    (scan.at = "ended" /\ scan.clean) =>
        /\ row["code"] = scan.n /\ node["code"] = scan.n
        /\ \A f \in scan.did : row[f] = scan.n /\ node[f] = scan.n
        /\ scan.did # {} =>
              \A f \in {"analysis", "threats"} : node[f] = row[f]
        /\ "threats" \in scan.did =>
              row["exploit"] = scan.n /\ row["severity"] >= 2

\* At the same moment the data stores of both stores are those that the
\* stored features use, and each has its edge.
StoresAreComputed ==
    (scan.at = "ended" /\ scan.clean) =>
        /\ storeRows = Consolidated
        /\ storeNodes = Consolidated
        /\ Consolidated \subseteq storeEdges

-----------------------------------------------------------------------------
(* What does not hold                                                      *)

\* The same of a scan that could not read the service again.
FieldsNeverGoBack ==
    [][row' = Nothing \/ \A f \in Fields \ {"severity"} : row'[f] >= row[f]]_knowledgeVars

\* "so re-runs don't double-demote" (exploitability-analyzer.ts:94): the
\* severity of a threat is at most one step below what the threat model said.
DemotedOnce == row["threats"] # 0 => row["severity"] >= 2

\* Edges lead to data stores that are there, between scans.
EdgesLeadSomewhere ==
    (scan.at = "ended" /\ deletion.at = "idle") => storeEdges \subseteq storeNodes

\* Deleted assets do not come back: what is stored after a deletion was made
\* by the scan it came in, or a later one.
DeletedStaysDeleted == \A f \in Fields \ {"severity"} :
                          row[f] # 0 => row[f] >= deletion.since
=============================================================================
