--------------------------- MODULE CloudDiscovery ---------------------------
(***************************************************************************)
(* The cloud discovery of a repository task: CloudDiscoveryStage.discover  *)
(* reads the estate query by query while it goes on changing, builds the   *)
(* graph (CloudGraph), and RepositoryTaskProcessor.runCloudDiscoveryStage  *)
(* writes it to two stores: the cloud_nodes and cloud_edges tables of the  *)
(* graph, which the topology is drawn from, and the entities table, which  *)
(* the assets and the agents' queries are read from.                       *)
(*                                                                         *)
(* A query answers at one moment.  The calls of one AWS region that fail   *)
(* are caught where they are made and count as an empty answer.            *)
(***************************************************************************)
EXTENDS CloudGraph

CONSTANTS FirstEstate,     \* items there at first
          Volatile,        \* items that may come or go, a bound
          MaxChanges,      \* times something changes, a bound
          MaxDiscoveries,  \* a bound
          Clouds,          \* the providers that are configured
          SilentKinds      \* AWS kinds whose calls may fail

ASSUME DiscoveryAssumption ==
    /\ FirstEstate \subseteq Items /\ Volatile \subseteq Items
    /\ \A i, j \in FirstEstate : i.id = j.id => i = j
    /\ \A i \in Items : /\ i.kind \in AzureKinds => "azure" \in Clouds
                        /\ i.kind \in AwsKinds => "aws" \in Clouds
    /\ MaxChanges \in Nat /\ MaxDiscoveries \in Nat
    /\ Clouds \subseteq {"azure", "aws"} /\ SilentKinds \subseteq AwsKinds

VARIABLES estate,   \* the items there are
          changes,  \* how often that changed
          found,    \* the discovery in progress, or the last one
          nodes,    \* cloud_nodes: what each row says of the exposure
          edges,    \* cloud_edges
          rows      \* entities: the metadata of the row with the node's id

vars == <<estate, changes, found, nodes, edges, rows>>

\* What was read, by the call that read it.
GraphParts == {"ingress", "network", "identity"}
Sources == GraphParts \cup {"resources"}

Empty == [nodes |-> {}, edges |-> {}]

Discovery ==
    [n : 0..MaxDiscoveries,
     at : {"resources", "identities", "graph", "aws", "rows", "graph store",
           "topology", "ended"},
     read : [Sources -> SUBSET Items],
     parts : SUBSET GraphParts,   \* graph parts that have answered
     built : BOOLEAN,             \* there is a graph
     errors : SUBSET {"azure", "identities", "roles", "build", "rows", "graph"},
     silent : BOOLEAN,            \* history: a call failed and nobody says so
     steady : SUBSET Items,       \* history: items there all along
     ever : SUBSET Items]         \* history: items there at some time

Flags == {"absent", "hidden", "exposed"}

CloudTypeOK ==
    /\ estate \subseteq Items
    /\ changes \in 0..MaxChanges
    /\ [f \in DOMAIN found \ {"graph"} |-> found[f]] \in Discovery
    /\ nodes \in [Ids -> Flags]
    /\ rows \in [Ids -> Flags \cup {"resource"}]

NoDiscovery ==
    [n |-> 0, at |-> "ended", read |-> [s \in Sources |-> {}], parts |-> {},
     built |-> FALSE, graph |-> Empty, errors |-> {}, silent |-> FALSE,
     steady |-> {}, ever |-> {}]

Init ==
    /\ estate = FirstEstate /\ changes = 0
    /\ found = NoDiscovery
    /\ nodes = [i \in Ids |-> "absent"]
    /\ edges = {}
    /\ rows = [i \in Ids |-> "absent"]

-----------------------------------------------------------------------------
(* The estate.                                                             *)

\* An item comes, in place of another of the same id, or goes.
EstateChanges ==
    /\ changes < MaxChanges
    /\ \E i \in Volatile :
          LET rest == {j \in estate : j.id # i.id}
          IN  estate' \in {rest, rest \cup {i}} \ {estate}
    /\ changes' = changes + 1
    /\ found' = IF found.at = "ended" THEN found
                ELSE [found EXCEPT !.steady = @ \cap estate',
                                   !.ever = @ \cup estate']
    /\ UNCHANGED <<nodes, edges, rows>>

-----------------------------------------------------------------------------
(* discover: Azure.                                                        *)

\* The discovery goes on at a step.
To(step) == [found EXCEPT !.at = step]
Noting(f, what) == [f EXCEPT !.errors = @ \cup what]

StartDiscovery ==
    /\ found.at = "ended" /\ found.n < MaxDiscoveries
    /\ found' = [NoDiscovery EXCEPT
                    !.n = found.n + 1,
                    !.at = IF "azure" \in Clouds THEN "resources" ELSE "aws",
                    !.steady = estate, !.ever = estate]
    /\ UNCHANGED <<estate, changes, nodes, edges, rows>>

\* The token and the query; without them nothing of Azure is discovered.
QueryResourceGraph ==
    /\ found.at = "resources"
    /\ found' \in {[To("identities") EXCEPT
                       !.read["resources"] = OfKind(estate, ResourceKinds)],
                   Noting(To("aws"), {"azure"})}
    /\ UNCHANGED <<estate, changes, nodes, edges, rows>>

\* Either query may fail, and the discovery goes on without its answer.
FetchIdentities ==
    /\ found.at = "identities"
    /\ \E failed \in SUBSET {"identities", "roles"} :
          found' = Noting(To("graph"), failed)
    /\ UNCHANGED <<estate, changes, nodes, edges, rows>>

Under(items, kind, parents) ==
    {i \in OfKind(items, {kind}) : \E p \in parents : p.id \in i.refs}

\* A route and a group of one front door.
SameDoor(items, r, g) ==
    \E e \in OfKind(items, {"FrontDoorEndpoint"}) :
        /\ e.id \in r.refs
        /\ \E p \in OfKind(items, {"FrontDoorProfile"}) : p.id \in e.refs \cap g.refs

\* What something has is asked for with it.  The origin groups of a front door
\* are taken from its own routes, the origins from the groups.
IngressGraph(items) ==
    LET doors == OfKind(items, {"FrontDoorProfile"})
        endpoints == Under(items, "FrontDoorEndpoint", doors)
        routes == Under(items, "FrontDoorRoute", endpoints)
        groups == {g \in Under(items, "FrontDoorOriginGroup", doors) :
                      \E r \in routes : g.id \in r.refs /\ SameDoor(items, r, g)}
        balancers == OfKind(items, {"TrafficManagerProfile"})
        services == OfKind(items, {"APIManagementService"})
    IN  UNION {doors, endpoints, routes, groups,
               Under(items, "FrontDoorOrigin", groups),
               balancers, Under(items, "TrafficManagerEndpoint", balancers),
               services, Under(items, "APIMApi", services),
               Under(items, "APIMBackend", services),
               OfKind(items, {"AppGateway"})}

NetworkTopology == OfKind(estate, NetworkKinds)
IdentityGraph == OfKind(estate, IdentityKinds)

Answer(part) == CASE part = "ingress" -> IngressGraph(estate)
                  [] part = "network" -> NetworkTopology
                  [] part = "identity" -> IdentityGraph

\* With the last of the three answers the graph is built.
Answered(f) ==
    IF f.parts # GraphParts THEN f
    ELSE [f EXCEPT !.at = "aws", !.built = TRUE,
                   !.graph = Build(f.read["resources"], f.read["ingress"],
                                   f.read["network"], f.read["identity"])]

\* Mutation: what fails counts as an empty answer.
FetchGraphPartSoftly ==
    /\ found.at = "graph"
    /\ \E part \in GraphParts \ found.parts :
          \E got \in {Answer(part), {}} :
              found' = Answered([found EXCEPT !.parts = @ \cup {part},
                                              !.read[part] = got])
    /\ UNCHANGED <<estate, changes, nodes, edges, rows>>

\* Three calls in any order; the first that fails leaves Azure without a
\* graph, as does a node that its schema refuses.  A bound: each answer is of
\* one moment, while the code asks resource by resource and page by page
\* (azure-ingress.fetcher.ts:48-53).
FetchGraphPart ==
    /\ found.at = "graph"
    /\ \/ \E part \in GraphParts \ found.parts :
             found' = Answered([found EXCEPT !.parts = @ \cup {part},
                                             !.read[part] = Answer(part)])
       \/ found' = Noting(To("aws"), {"build"})
    /\ UNCHANGED <<estate, changes, nodes, edges, rows>>

-----------------------------------------------------------------------------
(* discover: AWS.                                                          *)

\* The graph joins that of Azure as it is.
Merged(f, graph) ==
    [f EXCEPT !.built = TRUE,
              !.graph = [nodes |-> @.nodes \cup graph.nodes,
                         edges |-> @.edges \cup graph.edges]]

\* Read account by account and region by region; the calls for the kinds
\* that are lost failed, and count as an answer of nothing.
AwsIngressGraph(lost) == OfKind(estate, AwsIngressKinds \ lost)
AwsNetworkTopology(lost) == OfKind(estate, AwsNetworkKinds \ lost)
AwsIdentityGraph(lost) == OfKind(estate, AwsIdentityKinds \ lost)

\* The inventory of AWS Config is fetched too, and not used.
DiscoverAWS ==
    /\ found.at = "aws"
    /\ \E lost \in SUBSET (SilentKinds \cap {i.kind : i \in estate}) :
          found' = IF "aws" \in Clouds
                   THEN [Merged(To("rows"),
                                BuildAWS(AwsIngressGraph(lost),
                                         AwsNetworkTopology(lost),
                                         AwsIdentityGraph(lost)))
                            EXCEPT !.silent = lost # {}]
                   ELSE To("rows")
    /\ UNCHANGED <<estate, changes, nodes, edges, rows>>

-----------------------------------------------------------------------------
(* runCloudDiscoveryStage: the stores.                                     *)

Ending(f) == [f EXCEPT !.at = "ended"]
AfterRows(f) == [f EXCEPT !.at = IF f.built THEN "graph store" ELSE "ended"]

\* The flat resources, here and in the graph's tables; the second write may
\* fail alone.  Of those with a node of their own the metadata is replaced, so
\* what it said of the exposure is gone until the nodes are written.
PersistResources ==
    /\ found.at = "rows"
    /\ LET flat == {i.id : i \in OfKind(found.read["resources"], ComputeKinds)}
           written == [i \in Ids |-> IF i \in flat THEN "resource" ELSE rows[i]]
       IN  \/ rows' = written /\ found' = AfterRows(found)
           \/ /\ rows' \in {rows, written}
              /\ found' = AfterRows(Noting(found, {"rows"}))
    /\ UNCHANGED <<estate, changes, nodes, edges>>

\* Rows are inserted or updated, never deleted.
Flagged(table, graph) ==
    [i \in Ids |->
        LET here == {n \in graph.nodes : n.id = i}
        IN  IF here = {} THEN table[i]
            ELSE IF \E n \in here : n.exposed THEN "exposed" ELSE "hidden"]

SameKey(e, f) == e.type = f.type /\ e.source = f.source /\ e.target = f.target

\* One transaction; when it fails the entities are not written either.
StoreCloudGraph ==
    /\ found.at = "graph store"
    /\ \/ /\ nodes' = Flagged(nodes, found.graph)
          /\ edges' = {e \in edges : ~\E f \in found.graph.edges : SameKey(e, f)}
                      \cup found.graph.edges
          /\ found' = To("topology")
       \/ /\ found' = Ending(Noting(found, {"graph"}))
          /\ UNCHANGED <<nodes, edges>>
    /\ UNCHANGED <<estate, changes, rows>>

\* Mutation: the failure is only logged.
StoreTopologyQuietly ==
    /\ found.at = "topology"
    /\ found' = Ending(found)
    /\ rows' \in {rows, Flagged(rows, found.graph)}
    /\ UNCHANGED <<estate, changes, nodes, edges>>

\* cloudGraphToEntities and storeEntities; the internet is no entity.
StoreTopology ==
    /\ found.at = "topology"
    /\ \/ found' = Ending(found) /\ rows' = Flagged(rows, found.graph)
       \/ found' = Ending(Noting(found, {"graph"})) /\ UNCHANGED rows
    /\ UNCHANGED <<estate, changes, nodes, edges>>

Next ==
    \/ EstateChanges
    \/ StartDiscovery
    \/ QueryResourceGraph
    \/ FetchIdentities
    \/ FetchGraphPart
    \/ DiscoverAWS
    \/ PersistResources
    \/ StoreCloudGraph
    \/ StoreTopology

Spec == Init /\ [][Next]_vars

-----------------------------------------------------------------------------
(* What reaches what.                                                      *)

\* Traffic that gets to a gets to b: a names b, b names a, or both serve the
\* same one.
Along == {<<"PrivateEndpoint", "Subnet">>, <<"WebApp", "Subnet">>,
          <<"CloudFrontDistribution", "ALB">>}
         \cup {"FrontDoorOrigin", "APIMBackend"} \X ComputeKinds
Back == {<<"FrontDoorProfile", "FrontDoorEndpoint">>,
         <<"FrontDoorEndpoint", "FrontDoorRoute">>,
         <<"FrontDoorOriginGroup", "FrontDoorOrigin">>,
         <<"TrafficManagerProfile", "TrafficManagerEndpoint">>,
         <<"APIManagementService", "APIMApi">>, <<"ALB", "ALBListener">>}
        \cup ComputeKinds \X {"PrivateEndpoint"}

Reaches(items, a, b) ==
    \/ <<a.kind, b.kind>> \in Along /\ b.id \in a.refs
    \/ <<a.kind, b.kind>> \in Back /\ a.id \in b.refs
    \/ /\ <<a.kind, b.kind>> = <<"FrontDoorRoute", "FrontDoorOriginGroup">>
       /\ b.id \in a.refs /\ SameDoor(items, a, b)
    \/ /\ <<a.kind, b.kind>> = <<"APIMApi", "APIMBackend">>
       /\ \E s \in OfKind(items, {"APIManagementService"}) :
              s.id \in a.refs \cap b.refs
    \/ /\ <<a.kind, b.kind>> = <<"ALBListener", "ALBTargetGroup">>
       /\ \E s \in OfKind(items, {"ALB"}) : \E v \in s.refs \cap b.refs :
              s.id \in a.refs /\ Named(v, {"VPC"})

\* What faces the internet by itself, and what of that is an entrance.
Entrances(items) ==
    {i \in items :
        \/ i.kind \in {"FrontDoorProfile", "TrafficManagerProfile",
                       "CloudFrontDistribution", "APIGatewayV2Api"}
        \/ i.open /\ i.kind \in {"APIManagementService", "ALB",
                                 "APIGatewayRestApi"}}
Facing(items) ==
    Entrances(items) \cup
    {i \in items :
        \/ i.kind = "AppGateway"
        \/ i.open /\ i.kind \in {"NetworkSecurityGroup", "StorageAccount",
                                 "AWSSubnet", "SecurityGroup"}}

\* Items some way from an entrance leads to.
Reachable(items) ==
    LET Further(S) == S \cup {i \in items : \E j \in S : Reaches(items, j, i)}
        steps[n \in 0..Cardinality(items)] ==
            IF n = 0 THEN Entrances(items) ELSE Further(steps[n - 1])
    IN  steps[Cardinality(items)]

Exposed(items) == {i.id : i \in Facing(items) \cup Reachable(items)}

-----------------------------------------------------------------------------
(* Properties.                                                             *)

\* After a discovery that missed nothing, whatever the internet could reach
\* all along is flagged, and only what it could have reached is, though the
\* parts of the graph were read at different times
\* (cloud-graph-builder.ts, build and buildAWS).
ExposureIsReachability ==
    found.at = "ended" /\ found.built /\ found.errors = {} /\ ~found.silent =>
        /\ \A i \in Exposed(found.steady) : nodes[i] = "exposed"
        /\ {n.id : n \in {m \in found.graph.nodes \ {InternetNode} :
                             nodes[m.id] = "exposed"}}
               \subseteq Exposed(found.ever)

\* A discovery that reports no error leaves the same of its nodes in both
\* stores, although they are written one after the other and the flat
\* resources overwrite the rows first (repository-task-processor.ts,
\* runCloudDiscoveryStage).
StoresAgree ==
    found.at = "ended" /\ found.errors = {} =>
        \A n \in found.graph.nodes : n.id # Internet => rows[n.id] = nodes[n.id]

\* A resource of Azure that stayed within reach keeps its flag in the graph,
\* however many queries and writes of a discovery fail
\* (cloud-discovery.stage.ts, discover).
ExposureIsNotForgotten ==
    [][\A i \in {j.id : j \in OfKind(Items, AzureKinds)} :
          nodes[i] = "exposed" /\ nodes'[i] # "exposed"
              => i \notin Exposed(found.steady)]_vars

\* Violated: the same of AWS, where a call that fails is an empty answer.
AwsExposureIsNotForgotten ==
    [][\A i \in {j.id : j \in OfKind(Items, AwsKinds)} :
          nodes[i] = "exposed" /\ nodes'[i] # "exposed"
              => i \notin Exposed(found.steady)]_vars

\* Violated: a discovery that misses a part says so.
MissedIsReported == found.at = "ended" /\ found.silent => found.errors # {}

\* Violated: every role an identity has on a scope is in the graph.
RolesAreKept ==
    found.at = "ended" /\ found.built /\ found.errors = {} =>
        \A r \in OfKind(found.steady, {"RoleAssignment"}) :
            \E e \in edges : e.type = "HAS_ROLE" /\ e.about = r.id

\* Violated: what is gone from the estate goes from the graph.
NoStaleNodes ==
    found.at = "ended" /\ found.built /\ found.errors = {} =>
        \A i \in Ids : nodes[i] # "absent" => \E j \in found.ever : j.id = i
=============================================================================
