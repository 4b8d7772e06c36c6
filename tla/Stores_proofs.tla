------------------------ MODULE Stores_proofs -----------------------
(***************************************************************************)
(* Proofs about what the entity table and the graph hold.                  *)
(*                                                                         *)
(* Of a cloud account (CloudDiscovery): the two stores agree after every   *)
(* discovery without an error (the first part), and the graph flags what   *)
(* the internet can reach (the second): what is reachable is a least fixed *)
(* point, and so is what the builder's search visits; the edges of the     *)
(* search are those along which traffic reaches what it reaches; and each  *)
(* answer is read from some moment of the discovery.                       *)
(*                                                                         *)
(* Of a service (KnowledgeBase, the third part): no field goes back, and   *)
(* what a scan without a failure leaves is new and complete, for every set *)
(* of features and data stores and every failure; and its active features  *)
(* are those just extracted (the fourth part).                             *)
(***************************************************************************)
EXTENDS CloudDiscovery, KnowledgeBase, FiniteSetTheorems, WellFoundedInduction, TLAPS

-----------------------------------------------------------------------------
(* Every node of a graph has the id of an item, or is the internet.        *)

NodeFields == {"id", "kind", "refs", "open", "exposed"}

IsNode(n) == DOMAIN n = NodeFields /\ n.id \in Ids \cup {Internet}

\* A node made of an item.
LEMMA NodeIsNode ==
    ASSUME NEW i \in Items, NEW x PROVE IsNode(Node(i, x))
  BY DEF IsNode, Node, NodeFields, Ids

\* Flagging a node leaves it one.
LEMMA FlaggingKeepsNodes ==
    ASSUME NEW n, IsNode(n), NEW x PROVE IsNode([n EXCEPT !.exposed = x])
  <1>1. DOMAIN [n EXCEPT !.exposed = x] = NodeFields
    BY DEF IsNode
  <1>2. [n EXCEPT !.exposed = x].id = n.id
    BY DEF IsNode, NodeFields
  <1> QED BY <1>1, <1>2 DEF IsNode

\* What flags nodes by what the internet reaches keeps them nodes.
LEMMA DerivedAreNodes ==
    ASSUME NEW N, \A n \in N : IsNode(n), NEW E
    PROVE  \A n \in DeriveInternetExposure(N, E) : IsNode(n)
  BY DEF DeriveInternetExposure, IsNode, NodeFields

LEMMA AwsDerivedAreNodes ==
    ASSUME NEW N, \A n \in N : IsNode(n), NEW E
    PROVE  \A n \in DeriveAWSInternetExposure(N, E) : IsNode(n)
  BY DEF DeriveAWSInternetExposure, IsNode, NodeFields

LEMMA FirewalledAreNodes ==
    ASSUME NEW N, \A n \in N : IsNode(n), NEW T
    PROVE  \A n \in FirewallExposed(N, T) : IsNode(n)
  BY FlaggingKeepsNodes DEF FirewallExposed

LEMMA InternetIsNode == IsNode(InternetNode)
  BY DEF IsNode, InternetNode, NodeFields

\* A graph of Azure built from items.
LEMMA BuiltAreNodes ==
    ASSUME NEW R \in SUBSET Items, NEW G \in SUBSET Items,
           NEW T \in SUBSET Items, NEW W \in SUBSET Items
    PROVE  \A n \in Build(R, G, T, W).nodes : IsNode(n)
  <1> DEFINE known == {InternetNode} \cup IngressNodes(G) \cup BuildComputeNodes(R)
                      \cup NetworkNodes(R, T)
  <1>1. \A n \in IngressNodes(G) : IsNode(n)
    BY NodeIsNode DEF IngressNodes
  <1>2. \A n \in BuildComputeNodes(R) : IsNode(n)
    BY NodeIsNode DEF BuildComputeNodes, OfKind
  <1>3. \A n \in NetworkNodes(R, T) : IsNode(n)
    BY NodeIsNode DEF NetworkNodes, OfKind
  <1>4. \A n \in IdentityNodes(W) : IsNode(n)
    BY NodeIsNode DEF IdentityNodes, OfKind
  <1>5. \A n \in known : IsNode(n)
    BY <1>1, <1>2, <1>3, InternetIsNode
  <1>6. \A n \in FirewallExposed(known, T) \cup IdentityNodes(W) : IsNode(n)
    <2> HIDE DEF known
    <2> QED BY <1>4, <1>5, FirewalledAreNodes
  <1>7. \E E : Build(R, G, T, W).nodes =
                 DeriveInternetExposure(
                     FirewallExposed(known, T) \cup IdentityNodes(W), E)
    BY Zenon DEF Build
  <1> HIDE DEF known
  <1> QED BY <1>6, <1>7, DerivedAreNodes

\* A graph of AWS built from items.
LEMMA AwsBuiltAreNodes ==
    ASSUME NEW G \in SUBSET Items, NEW T \in SUBSET Items,
           NEW W \in SUBSET Items
    PROVE  \A n \in BuildAWS(G, T, W).nodes : IsNode(n)
  <1> DEFINE all == {InternetNode} \cup AwsIngressNodes(G)
                    \cup AwsNetworkNodes(T) \cup AwsIdentityNodes(W)
  <1>1. \A n \in AwsIngressNodes(G) : IsNode(n)
    BY NodeIsNode DEF AwsIngressNodes, OfKind
  <1>2. \A n \in AwsNetworkNodes(T) : IsNode(n)
    BY NodeIsNode DEF AwsNetworkNodes, OfKind
  <1>3. \A n \in AwsIdentityNodes(W) : IsNode(n)
    BY NodeIsNode DEF AwsIdentityNodes, OfKind
  <1>4. \A n \in all : IsNode(n)
    BY <1>1, <1>2, <1>3, InternetIsNode
  <1>5. \E E : BuildAWS(G, T, W).nodes = DeriveAWSInternetExposure(all, E)
    BY Zenon DEF BuildAWS
  <1> HIDE DEF all
  <1> QED BY <1>4, <1>5, AwsDerivedAreNodes

-----------------------------------------------------------------------------
(* The invariant.                                                          *)

DiscoveryFields == {"n", "at", "read", "parts", "built", "graph", "errors",
                    "silent", "steady", "ever"}

\* What was read are items, what was built are nodes, and without a graph
\* there is an empty one.
IsDiscovery(f) ==
    /\ DOMAIN f = DiscoveryFields
    /\ f.read \in [Sources -> SUBSET Items]
    /\ \A n \in f.graph.nodes : IsNode(n)
    /\ ~f.built => f.graph = Empty

Table(t) == t = [i \in Ids |-> t[i]]

\* A row says what the graph says of its node.
Says(t, graph) ==
    \A n \in graph.nodes : n.id # Internet =>
        t[n.id] = IF \E m \in graph.nodes : m.id = n.id /\ m.exposed
                  THEN "exposed" ELSE "hidden"

\* From the moment the graph is stored until the entities are, the first store
\* says what the graph says; after that both do.
StoresInv ==
    /\ estate \subseteq Items
    /\ IsDiscovery(found)
    /\ Table(nodes) /\ Table(rows)
    /\ found.at = "topology" => Says(nodes, found.graph)
    /\ StoresAgree

\* Writing a graph to a store makes it say what the graph says.
LEMMA FlaggedSays ==
    ASSUME NEW t, NEW graph, \A n \in graph.nodes : IsNode(n)
    PROVE  Says(Flagged(t, graph), graph) /\ Table(Flagged(t, graph))
  BY DEF Says, Flagged, Table, IsNode

\* Two stores that say what the graph says agree on its nodes.
LEMMA SayingTheSame ==
    ASSUME NEW s, NEW t, NEW graph, Says(s, graph), Says(t, graph)
    PROVE  \A n \in graph.nodes : n.id # Internet => s[n.id] = t[n.id]
  BY DEF Says

LEMMA StoresInit == Init => StoresInv
  <1> SUFFICES ASSUME Init PROVE StoresInv
    OBVIOUS
  <1>1. estate \subseteq Items
    BY DiscoveryAssumption DEF Init
  <1>2. IsDiscovery(found)
    BY DEF Init, NoDiscovery, IsDiscovery, DiscoveryFields, Empty, Sources,
           GraphParts
  <1>3. Table(nodes) /\ Table(rows)
    BY DEF Init, Table
  <1>4. found.at # "topology" /\ found.graph.nodes = {}
    BY DEF Init, NoDiscovery, Empty
  <1> QED BY <1>1, <1>2, <1>3, <1>4 DEF StoresInv, StoresAgree

\* A step that changes none of what the stores owe each other.
LEMMA Elsewhere ==
    ASSUME StoresInv, estate' \subseteq Items, IsDiscovery(found'),
           UNCHANGED nodes, Table(rows'),
           found'.at \notin {"topology", "ended"}
    PROVE  StoresInv'
  BY DEF StoresInv, StoresAgree

\* The discovery goes on at a step, with an error noted.
LEMMA GoingOn ==
    ASSUME IsDiscovery(found), NEW step, NEW what
    PROVE  /\ IsDiscovery(Noting(To(step), what))
           /\ Noting(To(step), what).at = step
  <1>1. To(step) = [found EXCEPT !.at = step]
    BY DEF To
  <1>2. IsDiscovery(To(step)) /\ To(step).at = step
    BY <1>1 DEF IsDiscovery, DiscoveryFields
  <1> QED BY <1>2 DEF IsDiscovery, DiscoveryFields, Noting

\* The estate changes, at any moment.
LEMMA EstateKeeps == StoresInv /\ EstateChanges => StoresInv'
  <1> SUFFICES ASSUME StoresInv, EstateChanges PROVE StoresInv'
    OBVIOUS
  <1>1. estate' \subseteq Items
    <2>1. PICK i \in Volatile : LET rest == {j \in estate : j.id # i.id}
                                IN  estate' \in {rest, rest \cup {i}} \ {estate}
      BY DEF EstateChanges
    <2> QED BY <2>1, DiscoveryAssumption DEF StoresInv
  <1>2. /\ IsDiscovery(found')
        /\ found'.at = found.at /\ found'.graph = found.graph
        /\ found'.errors = found.errors
    BY DEF EstateChanges, StoresInv, IsDiscovery, DiscoveryFields
  <1>3. UNCHANGED <<nodes, edges, rows>>
    BY DEF EstateChanges
  <1> QED BY <1>1, <1>2, <1>3 DEF StoresInv, StoresAgree

LEMMA StartKeeps == StoresInv /\ StartDiscovery => StoresInv'
  <1> SUFFICES ASSUME StoresInv, StartDiscovery PROVE StoresInv'
    OBVIOUS
  <1>1. /\ IsDiscovery(found')
        /\ found'.at \in {"resources", "aws"}
    BY DEF StartDiscovery, NoDiscovery, IsDiscovery, DiscoveryFields, Empty,
           Sources, GraphParts
  <1>2. UNCHANGED <<estate, nodes, rows>>
    BY DEF StartDiscovery
  <1> QED BY <1>1, <1>2, Elsewhere DEF StoresInv, Table

LEMMA QueryKeeps == StoresInv /\ QueryResourceGraph => StoresInv'
  <1> SUFFICES ASSUME StoresInv, QueryResourceGraph PROVE StoresInv'
    OBVIOUS
  <1>1. IsDiscovery(found)
    BY DEF StoresInv
  <1>2. UNCHANGED <<estate, nodes, rows>>
    BY DEF QueryResourceGraph
  <1>3. CASE found' = [To("identities") EXCEPT
                          !.read["resources"] = OfKind(estate, ResourceKinds)]
    <2>1. OfKind(estate, ResourceKinds) \in SUBSET Items
      BY DEF StoresInv, OfKind
    <2>2. /\ DOMAIN found' = DiscoveryFields
          /\ found'.at = "identities" /\ found'.graph = found.graph
          /\ found'.built = found.built
          /\ found'.read = [found.read EXCEPT !["resources"] =
                                OfKind(estate, ResourceKinds)]
      BY <1>1, <1>3 DEF IsDiscovery, DiscoveryFields, To
    <2>3. found'.read \in [Sources -> SUBSET Items]
      BY <1>1, <2>1, <2>2 DEF IsDiscovery
    <2>4. IsDiscovery(found') /\ found'.at \notin {"topology", "ended"}
      BY <1>1, <2>2, <2>3 DEF IsDiscovery
    <2> QED BY <1>2, <2>4, Elsewhere DEF StoresInv, Table
  <1>4. CASE found' = Noting(To("aws"), {"azure"})
    <2>1. IsDiscovery(found') /\ found'.at = "aws"
      BY <1>1, <1>4, GoingOn
    <2> QED BY <1>2, <2>1, Elsewhere DEF StoresInv, Table
  <1> QED BY <1>3, <1>4 DEF QueryResourceGraph

LEMMA IdentitiesKeep == StoresInv /\ FetchIdentities => StoresInv'
  <1> SUFFICES ASSUME StoresInv, FetchIdentities PROVE StoresInv'
    OBVIOUS
  <1>1. IsDiscovery(found)
    BY DEF StoresInv
  <1>2. PICK failed : found' = Noting(To("graph"), failed)
    BY DEF FetchIdentities
  <1>3. IsDiscovery(found') /\ found'.at = "graph"
    BY <1>1, <1>2, GoingOn
  <1>4. UNCHANGED <<estate, nodes, rows>>
    BY DEF FetchIdentities
  <1> QED BY <1>3, <1>4, Elsewhere DEF StoresInv, Table

\* Each answer is of items.
LEMMA AnswersAreItems ==
    ASSUME estate \subseteq Items, NEW part \in GraphParts
    PROVE  Answer(part) \in SUBSET Items
  <1>1. IngressGraph(estate) \subseteq estate
    BY DEF IngressGraph, Under, OfKind
  <1>2. NetworkTopology \subseteq Items /\ IdentityGraph \subseteq Items
    BY DEF NetworkTopology, IdentityGraph, OfKind
  <1> QED BY <1>1, <1>2 DEF Answer, GraphParts

\* With the last answer the graph is built.
LEMMA AnsweredIsDiscovery ==
    ASSUME NEW f, IsDiscovery(f)
    PROVE  /\ IsDiscovery(Answered(f))
           /\ Answered(f).at \in {f.at, "aws"}
  <1>1. CASE f.parts # GraphParts
    BY <1>1 DEF Answered
  <1>2. CASE f.parts = GraphParts
    <2> DEFINE graph == Build(f.read["resources"], f.read["ingress"],
                              f.read["network"], f.read["identity"])
    <2>1. /\ f.read["resources"] \in SUBSET Items
          /\ f.read["ingress"] \in SUBSET Items
          /\ f.read["network"] \in SUBSET Items
          /\ f.read["identity"] \in SUBSET Items
      BY DEF IsDiscovery, Sources, GraphParts
    <2>2. \A n \in graph.nodes : IsNode(n)
      BY <2>1, BuiltAreNodes
    <2>3. Answered(f) = [f EXCEPT !.at = "aws", !.built = TRUE, !.graph = graph]
      BY <1>2 DEF Answered
    <2> HIDE DEF graph
    <2>4. /\ DOMAIN Answered(f) = DiscoveryFields
          /\ Answered(f).at = "aws" /\ Answered(f).built
          /\ Answered(f).graph = graph /\ Answered(f).read = f.read
      BY <2>3 DEF IsDiscovery, DiscoveryFields
    <2> QED BY <2>2, <2>4 DEF IsDiscovery
  <1> QED BY <1>1, <1>2

LEMMA PartKeeps == StoresInv /\ FetchGraphPart => StoresInv'
  <1> SUFFICES ASSUME StoresInv, FetchGraphPart PROVE StoresInv'
    OBVIOUS
  <1>1. IsDiscovery(found) /\ found.at = "graph"
    BY DEF StoresInv, FetchGraphPart
  <1>2. UNCHANGED <<estate, nodes, rows>>
    BY DEF FetchGraphPart
  <1>3. ASSUME NEW part \in GraphParts,
               found' = Answered([found EXCEPT !.parts = @ \cup {part},
                                               !.read[part] = Answer(part)])
        PROVE  StoresInv'
    <2> DEFINE f == [found EXCEPT !.parts = @ \cup {part},
                                  !.read[part] = Answer(part)]
    <2>1. Answer(part) \in SUBSET Items
      BY AnswersAreItems DEF StoresInv
    <2>2. /\ DOMAIN f = DiscoveryFields
          /\ f.at = "graph" /\ f.graph = found.graph /\ f.built = found.built
          /\ f.read = [found.read EXCEPT ![part] = Answer(part)]
      BY <1>1 DEF IsDiscovery, DiscoveryFields
    <2>3. f.read \in [Sources -> SUBSET Items]
      BY <1>1, <2>1, <2>2 DEF IsDiscovery
    <2>4. IsDiscovery(f)
      BY <1>1, <2>2, <2>3 DEF IsDiscovery
    <2>5. found' = Answered(f)
      BY <1>3
    <2>6. f.at = "graph"
      BY <2>2
    <2> HIDE DEF f
    <2>7. IsDiscovery(found') /\ found'.at \in {"graph", "aws"}
      BY <2>4, <2>5, <2>6, AnsweredIsDiscovery
    <2> QED BY <1>2, <2>7, Elsewhere DEF StoresInv, Table
  <1>4. CASE found' = Noting(To("aws"), {"build"})
    <2>1. IsDiscovery(found') /\ found'.at = "aws"
      BY <1>1, <1>4, GoingOn
    <2> QED BY <1>2, <2>1, Elsewhere DEF StoresInv, Table
  <1> QED BY <1>3, <1>4 DEF FetchGraphPart

\* The graph of AWS joins what there is.
LEMMA AwsKeeps == StoresInv /\ DiscoverAWS => StoresInv'
  <1> SUFFICES ASSUME StoresInv, DiscoverAWS PROVE StoresInv'
    OBVIOUS
  <1>1. IsDiscovery(found)
    BY DEF StoresInv
  <1>2. UNCHANGED <<estate, nodes, rows>>
    BY DEF DiscoverAWS
  <1>3. IsDiscovery(To("rows")) /\ To("rows").at = "rows"
    BY <1>1 DEF To, IsDiscovery, DiscoveryFields
  <1>4. CASE found' = To("rows")
    BY <1>2, <1>3, <1>4, Elsewhere DEF StoresInv, Table
  <1>5. ASSUME NEW lost,
               found' = [Merged(To("rows"), BuildAWS(AwsIngressGraph(lost),
                                                     AwsNetworkTopology(lost),
                                                     AwsIdentityGraph(lost)))
                            EXCEPT !.silent = lost # {}]
        PROVE  StoresInv'
    <2> DEFINE graph == BuildAWS(AwsIngressGraph(lost),
                                 AwsNetworkTopology(lost),
                                 AwsIdentityGraph(lost))
               f == To("rows")
               silent == lost # {}
    <2>1. /\ AwsIngressGraph(lost) \in SUBSET Items
          /\ AwsNetworkTopology(lost) \in SUBSET Items
          /\ AwsIdentityGraph(lost) \in SUBSET Items
      BY DEF StoresInv, AwsIngressGraph, AwsNetworkTopology,
             AwsIdentityGraph, OfKind
    <2>2. \A n \in graph.nodes : IsNode(n)
      BY <2>1, AwsBuiltAreNodes
    <2>3. found' = [Merged(f, graph) EXCEPT !.silent = silent]
      BY <1>5
    <2>4. IsDiscovery(f) /\ f.at = "rows"
      BY <1>3
    <2> HIDE DEF f, graph, silent
    <2>5. /\ DOMAIN Merged(f, graph) = DiscoveryFields
          /\ Merged(f, graph).at = "rows" /\ Merged(f, graph).built
          /\ Merged(f, graph).read = f.read
          /\ Merged(f, graph).graph.nodes = f.graph.nodes \cup graph.nodes
      BY <2>4 DEF Merged, IsDiscovery, DiscoveryFields
    <2>6. /\ DOMAIN found' = DiscoveryFields
          /\ found'.at = "rows" /\ found'.built
          /\ found'.read = f.read
          /\ found'.graph.nodes = f.graph.nodes \cup graph.nodes
      BY <2>3, <2>5 DEF DiscoveryFields
    <2>7. IsDiscovery(found') /\ found'.at = "rows"
      BY <2>2, <2>4, <2>6 DEF IsDiscovery
    <2> QED BY <1>2, <2>7, Elsewhere DEF StoresInv, Table
  <1> QED BY <1>4, <1>5, Zenon DEF DiscoverAWS

\* After the rows the discovery ends only if there is no graph.
LEMMA AfterRowsKeeps ==
    ASSUME StoresInv, NEW f, IsDiscovery(f), found' = AfterRows(f),
           UNCHANGED <<estate, nodes>>, Table(rows')
    PROVE  StoresInv'
  <1>1. /\ IsDiscovery(found') /\ found'.graph = f.graph
        /\ found'.at = IF f.built THEN "graph store" ELSE "ended"
    BY DEF AfterRows, IsDiscovery, DiscoveryFields
  <1>2. CASE f.built
    BY <1>1, <1>2, Elsewhere DEF StoresInv
  <1>3. CASE ~f.built
    <2>1. found'.graph.nodes = {} /\ found'.at = "ended"
      BY <1>1, <1>3 DEF IsDiscovery, Empty
    <2> QED BY <1>1, <2>1 DEF StoresInv, StoresAgree, Table
  <1> QED BY <1>2, <1>3

LEMMA PersistKeeps == StoresInv /\ PersistResources => StoresInv'
  <1> SUFFICES ASSUME StoresInv, PersistResources PROVE StoresInv'
    OBVIOUS
  <1>1. IsDiscovery(found) /\ Table(rows) /\ UNCHANGED <<estate, nodes>>
    BY DEF StoresInv, PersistResources
  <1>2. PICK written :
            /\ Table(written)
            /\ \/ rows' = written /\ found' = AfterRows(found)
               \/ /\ rows' \in {rows, written}
                  /\ found' = AfterRows(Noting(found, {"rows"}))
    BY DEF PersistResources, Table
  <1>3. IsDiscovery(Noting(found, {"rows"}))
    BY <1>1 DEF Noting, IsDiscovery, DiscoveryFields
  <1>4. Table(rows')
    BY <1>1, <1>2 DEF Table
  <1> QED BY <1>1, <1>2, <1>3, <1>4, AfterRowsKeeps

\* A discovery that ends with an error owes nothing.
LEMMA EndingBadly ==
    ASSUME StoresInv, NEW what, what # {},
           found' = Ending(Noting(found, what)),
           UNCHANGED estate, Table(nodes'), Table(rows')
    PROVE  StoresInv'
  <1>1. IsDiscovery(Noting(found, what)) /\ Noting(found, what).errors # {}
    BY DEF StoresInv, Noting, IsDiscovery, DiscoveryFields
  <1>2. IsDiscovery(found') /\ found'.at = "ended" /\ found'.errors # {}
    BY <1>1 DEF Ending, IsDiscovery, DiscoveryFields
  <1> QED BY <1>2 DEF StoresInv, StoresAgree

LEMMA GraphKeeps == StoresInv /\ StoreCloudGraph => StoresInv'
  <1> SUFFICES ASSUME StoresInv, StoreCloudGraph PROVE StoresInv'
    OBVIOUS
  <1>1. IsDiscovery(found) /\ Table(nodes) /\ Table(rows)
        /\ UNCHANGED <<estate, rows>>
    BY DEF StoresInv, StoreCloudGraph
  <1>2. CASE nodes' = Flagged(nodes, found.graph) /\ found' = To("topology")
    <2>1. /\ IsDiscovery(found') /\ found'.at = "topology"
          /\ found'.graph = found.graph
      BY <1>1, <1>2 DEF To, IsDiscovery, DiscoveryFields
    <2>2. Says(nodes', found'.graph) /\ Table(nodes')
      BY <1>1, <1>2, <2>1, FlaggedSays DEF IsDiscovery
    <2> QED BY <1>1, <2>1, <2>2 DEF StoresInv, StoresAgree, Table
  <1>3. CASE found' = Ending(Noting(found, {"graph"})) /\ UNCHANGED nodes
    BY <1>1, <1>3, EndingBadly DEF Table
  <1> QED BY <1>2, <1>3 DEF StoreCloudGraph

LEMMA TopologyKeeps == StoresInv /\ StoreTopology => StoresInv'
  <1> SUFFICES ASSUME StoresInv, StoreTopology PROVE StoresInv'
    OBVIOUS
  <1>1. IsDiscovery(found) /\ Table(nodes) /\ Table(rows)
        /\ UNCHANGED <<estate, nodes>> /\ Says(nodes, found.graph)
    BY DEF StoresInv, StoreTopology
  <1>2. CASE found' = Ending(found) /\ rows' = Flagged(rows, found.graph)
    <2>1. /\ IsDiscovery(found') /\ found'.at = "ended"
          /\ found'.graph = found.graph
      BY <1>1, <1>2 DEF Ending, IsDiscovery, DiscoveryFields
    <2>2. Says(rows', found.graph) /\ Table(rows')
      BY <1>1, <1>2, FlaggedSays DEF IsDiscovery
    <2>3. Says(nodes', found.graph) /\ Table(nodes')
      BY <1>1 DEF Says, Table
    <2>4. \A n \in found.graph.nodes : n.id # Internet => rows'[n.id] = nodes'[n.id]
      BY <2>2, <2>3, SayingTheSame
    <2>5. StoresAgree'
      BY <2>1, <2>4 DEF StoresAgree
    <2> QED BY <1>1, <2>1, <2>2, <2>3, <2>5 DEF StoresInv
  <1>3. CASE found' = Ending(Noting(found, {"graph"})) /\ UNCHANGED rows
    BY <1>1, <1>3, EndingBadly DEF Table
  <1> QED BY <1>2, <1>3 DEF StoreTopology

LEMMA StoresStep == StoresInv /\ [Next]_vars => StoresInv'
  <1> SUFFICES ASSUME StoresInv, [Next]_vars PROVE StoresInv'
    OBVIOUS
  <1>1. CASE UNCHANGED vars
    BY <1>1 DEF StoresInv, StoresAgree, vars, Table
  <1> QED BY <1>1, EstateKeeps, StartKeeps, QueryKeeps, IdentitiesKeep,
             PartKeeps, AwsKeeps, PersistKeeps, GraphKeeps, TopologyKeeps
          DEF Next

(* Whatever the estate holds, however it changes and whatever fails: after *)
(* a discovery without an error the two stores say the same of each node   *)
(* of its graph (repository-task-processor.ts, runCloudDiscoveryStage).    *)
THEOREM StoresAlwaysAgree == Spec => []StoresAgree
  <1>1. StoresInv => StoresAgree
    BY DEF StoresInv
  <1> QED BY <1>1, StoresInit, StoresStep, PTL DEF Spec
-----------------------------------------------------------------------------
(* Numbers, and what is computed round by round.                           *)

LEMMA LeastOf ==
    ASSUME NEW S \in SUBSET Nat, S # {} PROVE \E x \in S : \A y \in S : x <= y
<1>1. PICK x \in S : \A y \in S : <<y, x>> \notin OpToRel(<, Nat)
  BY NatLessThanWellFounded, WFMin, Zenon
<1>2. \A y \in S : ~(y < x)
  BY <1>1, Zenon DEF OpToRel
<1> QED BY <1>2

\* Induction, over a set of numbers.
LEMMA UpTo ==
    ASSUME NEW N \in Nat, NEW P, 0 \in P, \A n \in 1..N : n - 1 \in P => n \in P
    PROVE  \A n \in 0..N : n \in P
<1> SUFFICES ASSUME NEW m \in 0..N, m \notin P PROVE FALSE
  OBVIOUS
<1> DEFINE Bad == {n \in 0..N : n \notin P}
<1>1. Bad \in SUBSET Nat /\ Bad # {}
  OBVIOUS
<1>2. PICK x \in Bad : \A y \in Bad : x <= y
  BY <1>1, LeastOf
<1>3. x \in 1..N /\ x - 1 \in 0..N
  OBVIOUS
<1>4. x - 1 \in P
  BY <1>2, <1>3
<1> QED BY <1>3, <1>4

\* What a relation leads to from a set, and the rounds from s along it.
Succ(S, R) == {q[2] : q \in {p \in R : p[1] \in S}}

Spreads(f, R, s, N) ==
    f = [n \in 0..N |-> IF n = 0 THEN s ELSE f[n - 1] \union Succ(f[n - 1], R)]

LEMMA RoundsExist ==
    ASSUME NEW R, NEW s, NEW N \in Nat PROVE \E f : Spreads(f, R, s, N)
<1> DEFINE P == {m \in Nat : \E f : Spreads(f, R, s, m)}
<1>1. 0 \in P
  <2> DEFINE f == [n \in 0..0 |-> s]
  <2>1. Spreads(f, R, s, 0)
    BY DEF Spreads
  <2> QED BY <2>1
<1>2. ASSUME NEW m \in 1..N, m - 1 \in P PROVE m \in P
  <2>1. PICK f : Spreads(f, R, s, m - 1)
    BY <1>2
  <2>2. \A n \in 0..(m - 1) : f[n] = IF n = 0 THEN s ELSE f[n - 1] \union Succ(f[n - 1], R)
    BY <2>1 DEF Spreads
  <2> DEFINE h == [n \in 0..m |-> IF n = m THEN f[m - 1] \union Succ(f[m - 1], R) ELSE f[n]]
  <2>3. ASSUME NEW n \in 0..m
        PROVE  h[n] = IF n = 0 THEN s ELSE h[n - 1] \union Succ(h[n - 1], R)
    <3>1. CASE n = m
      BY <3>1
    <3>2. CASE n # m
      <4>1. n \in 0..(m - 1) /\ h[n] = f[n]
        BY <3>2
      <4>2. n # 0 => h[n - 1] = f[n - 1]
        BY <4>1
      <4> QED BY <2>2, <4>1, <4>2
    <3> QED BY <3>1, <3>2
  <2>4. Spreads(h, R, s, m)
    <3>1. h = [n \in 0..m |-> h[n]]
      OBVIOUS
    <3> HIDE DEF h
    <3> QED BY <2>3, <3>1 DEF Spreads
  <2>5. m \in Nat
    OBVIOUS
  <2> QED BY <2>4, <2>5
<1>3. \A n \in 0..N : n \in P
  <2> HIDE DEF P
  <2> QED BY <1>1, <1>2, UpTo
<1> QED BY <1>3

\* Growing within a finite set, the rounds come to rest in as many rounds as it
\* has elements.
LEMMA RoundsRest ==
    ASSUME NEW N \in Nat, NEW f, NEW U, IsFiniteSet(U), Cardinality(U) <= N,
           \A n \in 1..N : f[n - 1] \subseteq f[n] /\ f[n] \subseteq f[n - 1] \union U,
           \A n \in 1..(N - 1) : f[n] = f[n - 1] => f[n + 1] = f[n]
    PROVE  U \subseteq f[N] \/ (N > 0 /\ f[N] = f[N - 1])
<1> DEFINE D(n) == f[n] \ f[0]
           P == {n \in 0..N : /\ f[0] \subseteq f[n] /\ D(n) \subseteq U
                              /\ \/ Cardinality(D(n)) >= n
                                 \/ n > 0 /\ f[n] = f[n - 1]}
<1>1. 0 \in P
  <2>1. D(0) = {}
    OBVIOUS
  <2>2. Cardinality(D(0)) = 0
    BY <2>1, FS_EmptySet
  <2> HIDE DEF D
  <2>3. f[0] \subseteq f[0] /\ D(0) \subseteq U /\ Cardinality(D(0)) >= 0 /\ 0 \in 0..N
    BY <2>1, <2>2
  <2> QED BY <2>3
<1>2. ASSUME NEW n \in 1..N, n - 1 \in P PROVE n \in P
  <2>1. f[n - 1] \subseteq f[n] /\ f[n] \subseteq f[n - 1] \union U
    OBVIOUS
  <2>2. f[0] \subseteq f[n] /\ D(n) \subseteq U
    BY <1>2, <2>1
  <2>3. CASE f[n] = f[n - 1]
    BY <2>2, <2>3
  <2>4. CASE f[n] # f[n - 1] /\ n - 1 > 0 /\ f[n - 1] = f[n - 2]
    <3>1. n - 1 \in 1..(N - 1) /\ (n - 1) - 1 = n - 2 /\ (n - 1) + 1 = n
      BY <2>4
    <3> QED BY <2>4, <3>1
  <2>5. CASE f[n] # f[n - 1] /\ Cardinality(D(n - 1)) >= n - 1
    <3>1. PICK x \in f[n] : x \notin f[n - 1]
      BY <2>1, <2>5
    <3>2. x \in D(n) /\ x \notin D(n - 1) /\ D(n - 1) \subseteq D(n)
      BY <1>2, <2>1, <3>1
    <3>3. IsFiniteSet(D(n)) /\ IsFiniteSet(D(n - 1))
      BY <2>2, <3>2, FS_Subset
    <3>4. /\ IsFiniteSet(D(n - 1) \union {x})
          /\ Cardinality(D(n - 1) \union {x}) = Cardinality(D(n - 1)) + 1
      BY <3>2, <3>3, FS_AddElement
    <3>5. Cardinality(D(n - 1) \union {x}) <= Cardinality(D(n))
      BY <3>2, <3>3, FS_Subset
    <3>6. Cardinality(D(n - 1)) \in Nat /\ Cardinality(D(n)) \in Nat
      BY <3>3, FS_CardinalityType
    <3>7. Cardinality(D(n)) >= n
      BY <2>5, <3>4, <3>5, <3>6
    <3> QED BY <2>2, <3>7
  <2> QED BY <1>2, <2>3, <2>4, <2>5
<1>3. N \in P
  <2> HIDE DEF P
  <2> QED BY <1>1, <1>2, UpTo
<1>4. CASE Cardinality(D(N)) >= N
  <2>1. D(N) \subseteq U
    BY <1>3
  <2>2. IsFiniteSet(D(N)) /\ Cardinality(D(N)) <= Cardinality(U)
    BY <2>1, FS_Subset
  <2>3. Cardinality(D(N)) \in Nat /\ Cardinality(U) \in Nat
    BY <2>2, FS_CardinalityType
  <2>4. Cardinality(D(N)) = Cardinality(U)
    BY <1>4, <2>2, <2>3
  <2>5. D(N) = U
    BY <2>1, <2>4, FS_Subset
  <2> QED BY <2>5
<1> QED BY <1>3, <1>4

LEMMA RoundByRound ==
    ASSUME NEW f, NEW R, NEW s, NEW N \in Nat, Spreads(f, R, s, N)
    PROVE  /\ f[0] = s
           /\ \A n \in 1..N : f[n] = f[n - 1] \union Succ(f[n - 1], R)
<1>1. \A n \in 0..N : f[n] = IF n = 0 THEN s ELSE f[n - 1] \union Succ(f[n - 1], R)
  BY DEF Spreads
<1>2. f[0] = s
  <2>1. 0 \in 0..N
    OBVIOUS
  <2> QED BY <1>1, <2>1
<1>3. ASSUME NEW n \in 1..N PROVE f[n] = f[n - 1] \union Succ(f[n - 1], R)
  <2>1. n \in 0..N /\ n # 0
    OBVIOUS
  <2> QED BY <1>1, <2>1
<1> QED BY <1>2, <1>3

\* The last round is the least set that has s and is closed under the relation.
LEMMA SpreadIsLeast ==
    ASSUME NEW f, NEW R, NEW s, NEW N \in Nat, Spreads(f, R, s, N),
           NEW S, s \subseteq S, Succ(S, R) \subseteq S
    PROVE  f[N] \subseteq S
<1> DEFINE P == {n \in 0..N : f[n] \subseteq S}
<1>1. f[0] = s /\ \A n \in 1..N : f[n] = f[n - 1] \union Succ(f[n - 1], R)
  BY RoundByRound
<1>2. 0 \in P
  BY <1>1
<1>3. ASSUME NEW n \in 1..N, n - 1 \in P PROVE n \in P
  <2>1. f[n - 1] \subseteq S /\ n \in 0..N
    BY <1>3
  <2>2. Succ(f[n - 1], R) \subseteq Succ(S, R)
    BY <2>1 DEF Succ
  <2>3. f[n] \subseteq S
    BY <1>1, <2>1, <2>2
  <2> QED BY <2>1, <2>3
<1>4. \A n \in 0..N : n \in P
  <2> HIDE DEF P
  <2> QED BY <1>2, <1>3, UpTo
<1> QED BY <1>4

LEMMA SpreadIsClosed ==
    ASSUME NEW f, NEW R, NEW s, NEW N \in Nat, Spreads(f, R, s, N),
           NEW U, IsFiniteSet(U), Cardinality(U) <= N, \A p \in R : p[2] \in U
    PROVE  s \subseteq f[N] /\ Succ(f[N], R) \subseteq f[N]
<1> DEFINE P == {n \in 0..N : s \subseteq f[n]}
<1>1. f[0] = s /\ \A n \in 1..N : f[n] = f[n - 1] \union Succ(f[n - 1], R)
  BY RoundByRound
<1>2. \A n \in 0..N : n \in P
  <2>1. 0 \in P
    BY <1>1
  <2>2. ASSUME NEW n \in 1..N, n - 1 \in P PROVE n \in P
    <3>1. s \subseteq f[n - 1] /\ n \in 0..N
      BY <2>2
    <3>2. s \subseteq f[n]
      BY <1>1, <3>1
    <3> QED BY <3>1, <3>2
  <2> HIDE DEF P
  <2> QED BY <2>1, <2>2, UpTo
<1>3. \A S : Succ(S, R) \subseteq U
  BY DEF Succ
<1>5. \A n \in 1..(N - 1) : f[n + 1] = f[n] \union Succ(f[n], R)
  <2> TAKE n \in 1..(N - 1)
  <2>1. n + 1 \in 1..N /\ (n + 1) - 1 = n
    OBVIOUS
  <2> QED BY <1>1, <2>1
<1>6. U \subseteq f[N] \/ (N > 0 /\ f[N] = f[N - 1])
  <2>1. \A n \in 1..N : f[n - 1] \subseteq f[n] /\ f[n] \subseteq f[n - 1] \union U
    BY <1>1, <1>3
  <2>2. \A n \in 1..(N - 1) : f[n] = f[n - 1] => f[n + 1] = f[n]
    <3> TAKE n \in 1..(N - 1)
    <3>1. n \in 1..N
      OBVIOUS
    <3> QED BY <1>1, <1>5, <3>1
  <2> QED BY <2>1, <2>2, RoundsRest
<1>7. CASE U \subseteq f[N]
  BY <1>2, <1>3, <1>7
<1>8. CASE N > 0 /\ f[N] = f[N - 1]
  BY <1>1, <1>2, <1>8
<1> QED BY <1>6, <1>7, <1>8

-----------------------------------------------------------------------------
(* What a search visits: the least set that has its start and is closed    *)
(* under the edges.                                                        *)

Ends(E) == {<<e.source, e.target>> : e \in E}

\* The rounds of Visited.
Rings(f, E, from) ==
    f = [n \in 0..Cardinality(E) |->
            IF n = 0 THEN from
            ELSE f[n - 1] \union {e.target : e \in {g \in E : g.source \in f[n - 1]}}]

LEMMA VisitedIsSpread ==
    ASSUME NEW E, IsFiniteSet(E), NEW from
    PROVE  \E f : /\ Visited(E, from) = f[Cardinality(E)]
                  /\ Spreads(f, Ends(E), from, Cardinality(E))
<1>1. Visited(E, from) = (CHOOSE f : Rings(f, E, from))[Cardinality(E)]
  BY DEF Visited, Rings
<1>2. \A S : {e.target : e \in {g \in E : g.source \in S}} = Succ(S, Ends(E))
  <2> TAKE S
  <2>1. ASSUME NEW e \in E, e.source \in S PROVE e.target \in Succ(S, Ends(E))
    <3>1. <<e.source, e.target>> \in {p \in Ends(E) : p[1] \in S}
      BY <2>1 DEF Ends
    <3> QED BY <3>1 DEF Succ
  <2>2. ASSUME NEW x \in Succ(S, Ends(E)) PROVE \E e \in E : e.source \in S /\ e.target = x
    BY DEF Succ, Ends
  <2> QED BY <2>1, <2>2
<1>3. \A f : Rings(f, E, from) <=> Spreads(f, Ends(E), from, Cardinality(E))
  BY <1>2 DEF Rings, Spreads
<1>4. \E f : Rings(f, E, from)
  BY <1>3, RoundsExist, FS_CardinalityType
<1>5. Rings((CHOOSE f : Rings(f, E, from)), E, from)
  BY <1>4
<1> QED BY <1>1, <1>3, <1>5

\* Every start is visited, and where an edge leads from what is visited.
LEMMA VisitedIsClosed ==
    ASSUME NEW E, IsFiniteSet(E), NEW from
    PROVE  /\ from \subseteq Visited(E, from)
           /\ \A e \in E : e.source \in Visited(E, from) => e.target \in Visited(E, from)
<1> DEFINE U == {e.target : e \in E}
           V == Visited(E, from)
<1>1. IsFiniteSet(U) /\ Cardinality(U) <= Cardinality(E)
  <2> DEFINE f == [e \in E |-> e.target]
  <2>1. f \in Surjection(E, U)
    BY DEF Surjection
  <2> HIDE DEF f, U
  <2> QED BY <2>1, FS_Surjection
<1>2. \A p \in Ends(E) : p[2] \in U
  BY DEF Ends
<1>3. Cardinality(E) \in Nat
  BY FS_CardinalityType
<1> HIDE DEF U, V
<1>4. from \subseteq V /\ Succ(V, Ends(E)) \subseteq V
  BY <1>1, <1>2, <1>3, VisitedIsSpread, SpreadIsClosed DEF V
<1>5. ASSUME NEW e \in E, e.source \in V PROVE e.target \in V
  <2>1. <<e.source, e.target>> \in {p \in Ends(E) : p[1] \in V}
    BY <1>5 DEF Ends
  <2>2. e.target \in Succ(V, Ends(E))
    BY <2>1 DEF Succ
  <2> QED BY <1>4, <2>2
<1> QED BY <1>4, <1>5 DEF V

\* And nothing else is.
LEMMA VisitedIsLeast ==
    ASSUME NEW E, IsFiniteSet(E), NEW from, NEW S, from \subseteq S,
           \A e \in E : e.source \in S => e.target \in S
    PROVE  Visited(E, from) \subseteq S
<1>1. Succ(S, Ends(E)) \subseteq S
  BY DEF Succ, Ends
<1>2. Cardinality(E) \in Nat
  BY FS_CardinalityType
<1> QED BY <1>1, <1>2, VisitedIsSpread, SpreadIsLeast

-----------------------------------------------------------------------------
(* What is reachable: the least set of items that has the entrances and is *)
(* closed under Reaches.                                                   *)

Pairs(items) == {p \in items \X items : Reaches(items, p[1], p[2])}

Farther(S, items) == S \union {i \in items : \E j \in S : Reaches(items, j, i)}

\* The rounds of Reachable.
Rounds(f, items) ==
    f = [n \in 0..Cardinality(items) |->
            IF n = 0 THEN Entrances(items) ELSE Farther(f[n - 1], items)]

LEMMA FartherIsSucc ==
    ASSUME NEW items, NEW S, S \subseteq items
    PROVE  Farther(S, items) = S \union Succ(S, Pairs(items))
<1>1. ASSUME NEW i \in items, NEW j \in S, Reaches(items, j, i)
      PROVE  i \in Succ(S, Pairs(items))
  <2>1. <<j, i>> \in {p \in Pairs(items) : p[1] \in S}
    BY <1>1 DEF Pairs
  <2> QED BY <2>1 DEF Succ
<1>2. ASSUME NEW i \in Succ(S, Pairs(items))
      PROVE  i \in items /\ \E j \in S : Reaches(items, j, i)
  BY DEF Succ, Pairs
<1> QED BY <1>1, <1>2 DEF Farther

\* All rounds stay within the items.
LEMMA RoundsWithin ==
    ASSUME NEW items, NEW N \in Nat, NEW f, f[0] = Entrances(items),
           \A n \in 1..N : f[n] = Farther(f[n - 1], items)
                           \/ f[n] = f[n - 1] \union Succ(f[n - 1], Pairs(items))
    PROVE  \A n \in 0..N : f[n] \subseteq items
<1> DEFINE P == {n \in 0..N : f[n] \subseteq items}
<1>1. 0 \in P
  BY DEF Entrances
<1>2. ASSUME NEW n \in 1..N, n - 1 \in P PROVE n \in P
  <2>1. f[n - 1] \subseteq items /\ n \in 0..N
    BY <1>2
  <2>2. f[n] = f[n - 1] \union Succ(f[n - 1], Pairs(items))
    BY <2>1, FartherIsSucc
  <2>3. Succ(f[n - 1], Pairs(items)) \subseteq items
    BY DEF Succ, Pairs
  <2> QED BY <2>1, <2>2, <2>3
<1>3. \A n \in 0..N : n \in P
  <2> HIDE DEF P
  <2> QED BY <1>1, <1>2, UpTo
<1> QED BY <1>3

LEMMA RoundsOfReach ==
    ASSUME NEW f, NEW items, Cardinality(items) \in Nat, Rounds(f, items)
    PROVE  /\ f[0] = Entrances(items)
           /\ \A n \in 1..Cardinality(items) : f[n] = Farther(f[n - 1], items)
<1>1. \A n \in 0..Cardinality(items) :
         f[n] = IF n = 0 THEN Entrances(items) ELSE Farther(f[n - 1], items)
  BY DEF Rounds
<1>2. f[0] = Entrances(items)
  <2>1. 0 \in 0..Cardinality(items)
    OBVIOUS
  <2> QED BY <1>1, <2>1
<1>3. ASSUME NEW n \in 1..Cardinality(items) PROVE f[n] = Farther(f[n - 1], items)
  <2>1. n \in 0..Cardinality(items) /\ n # 0
    OBVIOUS
  <2> QED BY <1>1, <2>1
<1> QED BY <1>2, <1>3

LEMMA StepsAreSpread ==
    ASSUME NEW f, NEW items, Cardinality(items) \in Nat
    PROVE  Rounds(f, items)
              <=> Spreads(f, Pairs(items), Entrances(items), Cardinality(items))
<1> DEFINE N == Cardinality(items)
           R == Pairs(items)
<1>1. ASSUME f[0] = Entrances(items),
             \A n \in 1..N : f[n] = Farther(f[n - 1], items)
                             \/ f[n] = f[n - 1] \union Succ(f[n - 1], R)
      PROVE  \A n \in 0..N : n # 0 =>
                Farther(f[n - 1], items) = f[n - 1] \union Succ(f[n - 1], R)
  <2>1. \A n \in 0..N : f[n] \subseteq items
    BY <1>1, RoundsWithin
  <2> TAKE n \in 0..N
  <2>2. n # 0 => n - 1 \in 0..N
    OBVIOUS
  <2> QED BY <2>1, <2>2, FartherIsSucc
<1>2. ASSUME Rounds(f, items) PROVE Spreads(f, R, Entrances(items), N)
  <2>1. f[0] = Entrances(items) /\ \A n \in 1..N : f[n] = Farther(f[n - 1], items)
    BY <1>2, RoundsOfReach
  <2>2. \A n \in 0..N : n # 0 =>
            Farther(f[n - 1], items) = f[n - 1] \union Succ(f[n - 1], R)
    BY <1>1, <2>1
  <2> HIDE DEF R
  <2> QED BY <1>2, <2>2 DEF Rounds, Spreads
<1>3. ASSUME Spreads(f, R, Entrances(items), N) PROVE Rounds(f, items)
  <2>1. /\ f[0] = Entrances(items)
        /\ \A n \in 1..N : f[n] = f[n - 1] \union Succ(f[n - 1], R)
    BY <1>3, RoundByRound
  <2>2. \A n \in 0..N : n # 0 =>
            Farther(f[n - 1], items) = f[n - 1] \union Succ(f[n - 1], R)
    BY <1>1, <2>1
  <2> HIDE DEF R
  <2> QED BY <1>3, <2>2 DEF Rounds, Spreads
<1> QED BY <1>2, <1>3

LEMMA ReachableIsSpread ==
    ASSUME NEW items, IsFiniteSet(items)
    PROVE  \E f : /\ Reachable(items) = f[Cardinality(items)]
                  /\ Spreads(f, Pairs(items), Entrances(items), Cardinality(items))
<1>1. Reachable(items) = (CHOOSE f : Rounds(f, items))[Cardinality(items)]
  BY DEF Reachable, Rounds, Farther
<1>2. Cardinality(items) \in Nat
  BY FS_CardinalityType
<1>3. \E f : Rounds(f, items)
  BY <1>2, StepsAreSpread, RoundsExist
<1>4. Rounds((CHOOSE f : Rounds(f, items)), items)
  BY <1>3
<1> QED BY <1>1, <1>2, <1>4, StepsAreSpread

LEMMA ReachableIsClosed ==
    ASSUME NEW items, IsFiniteSet(items)
    PROVE  /\ Entrances(items) \subseteq Reachable(items)
           /\ Reachable(items) \subseteq items
           /\ \A j \in Reachable(items) : \A i \in items :
                 Reaches(items, j, i) => i \in Reachable(items)
<1>1. PICK f : /\ Reachable(items) = f[Cardinality(items)]
               /\ Spreads(f, Pairs(items), Entrances(items), Cardinality(items))
  BY ReachableIsSpread
<1>2. Cardinality(items) \in Nat
  BY FS_CardinalityType
<1>3. \A p \in Pairs(items) : p[2] \in items
  BY DEF Pairs
<1>4. /\ Entrances(items) \subseteq Reachable(items)
      /\ Succ(Reachable(items), Pairs(items)) \subseteq Reachable(items)
  BY <1>1, <1>2, <1>3, SpreadIsClosed
<1>5. Reachable(items) \subseteq items
  <2>1. Entrances(items) \subseteq items /\ Succ(items, Pairs(items)) \subseteq items
    BY <1>3 DEF Entrances, Succ
  <2> QED BY <1>1, <1>2, <2>1, SpreadIsLeast
<1>6. ASSUME NEW j \in Reachable(items), NEW i \in items, Reaches(items, j, i)
      PROVE  i \in Reachable(items)
  <2>1. <<j, i>> \in {p \in Pairs(items) : p[1] \in Reachable(items)}
    BY <1>5, <1>6 DEF Pairs
  <2>2. i \in Succ(Reachable(items), Pairs(items))
    BY <2>1 DEF Succ
  <2> QED BY <1>4, <2>2
<1> QED BY <1>4, <1>5, <1>6

LEMMA ReachableIsLeast ==
    ASSUME NEW items, IsFiniteSet(items), NEW S, Entrances(items) \subseteq S,
           \A j \in S : \A i \in items : Reaches(items, j, i) => i \in S
    PROVE  Reachable(items) \subseteq S
<1>1. Succ(S, Pairs(items)) \subseteq S
  BY DEF Succ, Pairs
<1>2. Cardinality(items) \in Nat
  BY FS_CardinalityType
<1> QED BY <1>1, <1>2, ReachableIsSpread, SpreadIsLeast

\* More items, more that is lit.
LEMMA LitGrows ==
    ASSUME NEW items, NEW more, IsFiniteSet(more), items \subseteq more
    PROVE  Facing(items) \cup Reachable(items) \subseteq Facing(more) \cup Reachable(more)
<1>1. IsFiniteSet(items)
  BY FS_Subset
<1>2. Entrances(items) \subseteq Entrances(more)
  BY DEF Entrances
<1>3. \A j, i : Reaches(items, j, i) => Reaches(more, j, i)
  BY DEF Reaches, OfKind, SameDoor
<1>4. Reachable(items) \subseteq Reachable(more)
  <2>1. Entrances(items) \subseteq Reachable(more)
    BY <1>2, ReachableIsClosed
  <2>2. \A j \in Reachable(more) : \A i \in items :
           Reaches(items, j, i) => i \in Reachable(more)
    BY <1>3, ReachableIsClosed
  <2> QED BY <1>1, <2>1, <2>2, ReachableIsLeast
<1>5. Facing(items) \subseteq Facing(more)
  BY <1>2 DEF Facing
<1> QED BY <1>4, <1>5

LEMMA ExposedGrows ==
    ASSUME NEW items, NEW more, IsFiniteSet(more), items \subseteq more
    PROVE  Exposed(items) \subseteq Exposed(more)
  BY LitGrows DEF Exposed

-----------------------------------------------------------------------------
(* What is read of the ways in.                                            *)

Unique(items) == \A i, j \in items : i.id = j.id => i = j

\* The kinds of a way in, and those that come with what has them.
LEMMA IngressOfKinds ==
    ASSUME NEW items, NEW i \in IngressGraph(items)
    PROVE  i \in items /\ i.kind \in AzureIngressKinds
  BY DEF IngressGraph, Under, OfKind, AzureIngressKinds

LEMMA IngressRoots ==
    ASSUME NEW items, NEW i \in items,
           i.kind \in {"FrontDoorProfile", "TrafficManagerProfile",
                       "APIManagementService", "AppGateway"}
    PROVE  i \in IngressGraph(items)
  BY DEF IngressGraph, OfKind

LEMMA IngressChildren ==
    ASSUME NEW items, NEW j \in IngressGraph(items), NEW i \in items,
           Reaches(items, j, i), i.kind \in AzureIngressKinds
    PROVE  i \in IngressGraph(items)
<1>1. CASE j.kind = "FrontDoorProfile" /\ i.kind = "FrontDoorEndpoint"
  BY <1>1 DEF IngressGraph, Under, OfKind, Reaches, Along, Back, ComputeKinds
<1>2. CASE j.kind = "FrontDoorEndpoint" /\ i.kind = "FrontDoorRoute"
  BY <1>2 DEF IngressGraph, Under, OfKind, Reaches, Along, Back, ComputeKinds
<1>3. CASE j.kind = "FrontDoorRoute" /\ i.kind = "FrontDoorOriginGroup"
  BY <1>3 DEF IngressGraph, Under, OfKind, Reaches, Along, Back, ComputeKinds, SameDoor
<1>4. CASE j.kind = "FrontDoorOriginGroup" /\ i.kind = "FrontDoorOrigin"
  BY <1>4 DEF IngressGraph, Under, OfKind, Reaches, Along, Back, ComputeKinds
<1>5. CASE j.kind = "TrafficManagerProfile" /\ i.kind = "TrafficManagerEndpoint"
  BY <1>5 DEF IngressGraph, Under, OfKind, Reaches, Along, Back, ComputeKinds
<1>6. CASE j.kind = "APIManagementService" /\ i.kind = "APIMApi"
  BY <1>6 DEF IngressGraph, Under, OfKind, Reaches, Along, Back, ComputeKinds
<1>7. CASE j.kind = "APIMApi" /\ i.kind = "APIMBackend"
  BY <1>7 DEF IngressGraph, Under, OfKind, Reaches, Along, Back, ComputeKinds
<1> QED BY <1>1, <1>2, <1>3, <1>4, <1>5, <1>6, <1>7
        DEF Reaches, Along, Back, AzureIngressKinds, ComputeKinds

\* What is read of a front door or a traffic manager is behind it.
DoorKinds == {"FrontDoorProfile", "FrontDoorEndpoint", "FrontDoorRoute",
              "FrontDoorOriginGroup", "FrontDoorOrigin",
              "TrafficManagerProfile", "TrafficManagerEndpoint"}

LEMMA DoorsAreReachable ==
    ASSUME NEW ever, IsFiniteSet(ever), NEW items, items \subseteq ever,
           NEW i \in IngressGraph(items), i.kind \in DoorKinds
    PROVE  i \in Reachable(ever)
<1> DEFINE Root(kind) == OfKind(items, {kind})
           Endpoints == Under(items, "FrontDoorEndpoint", Root("FrontDoorProfile"))
           Routes == Under(items, "FrontDoorRoute", Endpoints)
           Groups == {g \in Under(items, "FrontDoorOriginGroup", Root("FrontDoorProfile")) :
                         \E r \in Routes : g.id \in r.refs /\ SameDoor(items, r, g)}
<1>1. /\ Entrances(ever) \subseteq Reachable(ever)
      /\ \A a \in Reachable(ever) : \A b \in items : Reaches(ever, a, b) => b \in Reachable(ever)
  BY ReachableIsClosed
<1>2. Root("FrontDoorProfile") \cup Root("TrafficManagerProfile") \subseteq Reachable(ever)
  BY <1>1 DEF Entrances, OfKind
<1>3. ASSUME NEW k, NEW l, <<k, l>> \in Back, NEW P, P \subseteq Reachable(ever),
             \A p \in P : p.kind = k
      PROVE  Under(items, l, P) \subseteq Reachable(ever)
  BY <1>1, <1>3 DEF Under, OfKind, Reaches
<1>10. /\ \A x \in Endpoints : x.kind = "FrontDoorEndpoint"
       /\ \A x \in Routes : x.kind = "FrontDoorRoute"
       /\ \A x \in Groups : x.kind = "FrontDoorOriginGroup"
  BY DEF OfKind, Under
<1>4. Endpoints \subseteq Reachable(ever)
  BY <1>2, <1>3 DEF OfKind, Back
<1>5. Routes \subseteq Reachable(ever)
  <2> HIDE DEF Endpoints
  <2> QED BY <1>3, <1>4, <1>10 DEF Back
<1>6. Groups \subseteq Reachable(ever)
  BY <1>1, <1>5 DEF OfKind, Under, Reaches, SameDoor
<1>7. Under(items, "FrontDoorOrigin", Groups) \subseteq Reachable(ever)
  <2>1. <<"FrontDoorOriginGroup", "FrontDoorOrigin">> \in Back
    BY DEF Back
  <2>2. \A p \in Groups : p.kind = "FrontDoorOriginGroup"
    BY <1>10
  <2> HIDE DEF Groups
  <2> QED BY <1>3, <1>6, <2>1, <2>2
<1>8. Under(items, "TrafficManagerEndpoint", Root("TrafficManagerProfile"))
          \subseteq Reachable(ever)
  BY <1>2, <1>3 DEF OfKind, Back
<1>9. i \in Root("FrontDoorProfile") \cup Endpoints \cup Routes \cup Groups
            \cup Under(items, "FrontDoorOrigin", Groups)
            \cup Root("TrafficManagerProfile")
            \cup Under(items, "TrafficManagerEndpoint", Root("TrafficManagerProfile"))
  BY DEF IngressGraph, DoorKinds, OfKind, Under
<1> QED BY <1>2, <1>4, <1>5, <1>6, <1>7, <1>8, <1>9

-----------------------------------------------------------------------------
(* What the search finds, given what is so of every edge it follows.       *)

Plain(e) == /\ e = Rel(e.type, e.source, e.target)
            /\ {e.source, e.target} \subseteq Ids \cup {Internet}

\* From the internet an edge leads to what is lit, and from what is lit too.
Right(e, X, Lit) ==
    \E b \in X :
        /\ e.target = b.id
        /\ e.source = Internet => b \in Lit
        /\ \A a \in X \cap Lit : a.id = e.source => b \in Lit

LEMMA ItemsFinite == IsFiniteSet(Items) /\ IsFiniteSet(Ids)
<1>1. IsFiniteSet(Items)
  BY ItemAssumption
<1> DEFINE f == [i \in Items |-> i.id]
<1>2. f \in Surjection(Items, Ids)
  BY DEF Surjection, Ids
<1> HIDE DEF f
<1>3. IsFiniteSet(Ids)
  BY <1>1, <1>2, FS_Surjection
<1> QED BY <1>1, <1>3

\* There are finitely many edges to follow.
LEMMA WaysFinite ==
    ASSUME NEW E, NEW types, IsFiniteSet(types),
           \A e \in Travelled(E, types) : Plain(e)
    PROVE  IsFiniteSet(Travelled(E, types))
<1> DEFINE I == Ids \cup {Internet}
           P == (types \X I) \X I
           f == [p \in P |-> Rel(p[1][1], p[1][2], p[2])]
           U == {Rel(p[1][1], p[1][2], p[2]) : p \in P}
<1>1. IsFiniteSet(I)
  BY ItemsFinite, FS_Singleton, FS_Union
<1>2. IsFiniteSet(types \X I)
  BY <1>1, FS_Product
<1>3. IsFiniteSet(P)
  BY <1>1, <1>2, FS_Product
<1>4. f \in Surjection(P, U)
  BY DEF Surjection
<1>5. IsFiniteSet(U)
  <2> HIDE DEF f, P, U
  <2> QED BY <1>3, <1>4, FS_Surjection
<1>6. ASSUME NEW e \in Travelled(E, types) PROVE e \in U
  <2>1. Plain(e) /\ e.type \in types
    BY DEF Travelled
  <2>2. <<<<e.type, e.source>>, e.target>> \in P
    BY <2>1 DEF Plain
  <2> QED BY <2>1, <2>2 DEF Plain
<1>7. Travelled(E, types) \subseteq U
  BY <1>6
<1> QED BY <1>5, <1>7, FS_Subset

LEMMA SearchIsRight ==
    ASSUME NEW E, NEW types, IsFiniteSet(types),
           \A e \in Travelled(E, types) : Plain(e),
           NEW X, X \subseteq Items, NEW Lit,
           \A e \in Travelled(E, types) : Right(e, X, Lit),
           NEW from, from \subseteq {Internet} \cup {a.id : a \in X \cap Lit}
    PROVE  \A id \in Visited(Travelled(E, types), from) :
              id = Internet \/ \E a \in X \cap Lit : a.id = id
<1> DEFINE S == {Internet} \cup {a.id : a \in X \cap Lit}
<1>1. ASSUME NEW e \in Travelled(E, types), e.source \in S PROVE e.target \in S
  BY <1>1 DEF Right
<1>2. IsFiniteSet(Travelled(E, types))
  BY WaysFinite
<1>3. from \subseteq S
  OBVIOUS
<1>4. Visited(Travelled(E, types), from) \subseteq S
  <2> HIDE DEF S
  <2> QED BY <1>1, <1>2, <1>3, VisitedIsLeast
<1> QED BY <1>4

\* What is reachable of some kinds is visited, if each entrance is and the
\* edges follow what reaches what.
Follows(j, i, X, E, types) ==
    i \in X /\ \E t \in types : Rel(t, j.id, i.id) \in E

LEMMA SearchIsComplete ==
    ASSUME NEW E, NEW types, IsFiniteSet(types),
           \A e \in Travelled(E, types) : Plain(e),
           NEW items, IsFiniteSet(items), NEW X, NEW kinds, NEW from,
           \A i \in OfKind(Entrances(items), kinds) :
              i \in X /\ i.id \in Visited(Travelled(E, types), from),
           \A i \in OfKind(items, kinds) : \A j \in items :
              Reaches(items, j, i) =>
                 j.kind \in kinds /\ (j \in X => Follows(j, i, X, E, types))
    PROVE  \A i \in OfKind(Reachable(items), kinds) :
              i \in X /\ i.id \in Visited(Travelled(E, types), from)
<1> DEFINE V == Visited(Travelled(E, types), from)
           S == {i \in items : i.kind \in kinds => i \in X /\ i.id \in V}
<1>1. IsFiniteSet(Travelled(E, types))
  BY WaysFinite
<1>2. \A e \in Travelled(E, types) : e.source \in V => e.target \in V
  BY <1>1, VisitedIsClosed
<1> HIDE DEF V
<1>3. Entrances(items) \subseteq S
  BY DEF OfKind, Entrances, V
<1>4. ASSUME NEW j \in S, NEW i \in items, Reaches(items, j, i) PROVE i \in S
  <2>1. CASE i.kind \notin kinds
    BY <2>1
  <2>2. CASE i.kind \in kinds
    <3>1. j.kind \in kinds /\ (j \in X => Follows(j, i, X, E, types))
      BY <1>4, <2>2 DEF OfKind
    <3>2. j \in X /\ j.id \in V
      BY <3>1
    <3>3. PICK t \in types : Rel(t, j.id, i.id) \in E
      BY <3>1, <3>2 DEF Follows
    <3>4. Rel(t, j.id, i.id) \in Travelled(E, types)
      BY <3>3 DEF Travelled, Rel
    <3>5. i.id \in V
      BY <1>2, <3>2, <3>4 DEF Rel
    <3> QED BY <3>1, <3>2, <3>5 DEF Follows
  <2> QED BY <2>1, <2>2
<1>5. Reachable(items) \subseteq S
  <2> HIDE DEF S
  <2> QED BY <1>3, <1>4, ReachableIsLeast
<1> QED BY <1>5 DEF OfKind, V

-----------------------------------------------------------------------------
(* Edges are joined on what a node has of its item.                        *)

Like(n, i) == /\ n.id = i.id /\ n.kind = i.kind
              /\ n.refs = i.refs /\ n.open = i.open

Within(S, T) == \A n \in S : \E i \in T : Like(n, i)

NodesOf(N, X) == Within(N, X) /\ Within(X, N)

LEMMA KindsOfNodes ==
    ASSUME NEW N, NEW X, NodesOf(N, X), NEW kinds
    PROVE  NodesOf(OfKind(N, kinds), OfKind(X, kinds))
  BY DEF NodesOf, Within, OfKind, Like

LEMMA HoldsOfNodes ==
    ASSUME NEW N, NEW X, NodesOf(N, X), NEW M, NEW Y, NodesOf(M, Y), NEW t
    PROVE  Holds(t, N, M) = Holds(t, X, Y)
<1>1. ASSUME NEW n \in N, NEW m \in M, n.id \in m.refs
      PROVE  Rel(t, n.id, m.id) \in Holds(t, X, Y)
  <2>1. PICK i \in X : Like(n, i)
    BY DEF NodesOf, Within, Like
  <2>2. PICK j \in Y : Like(m, j)
    BY DEF NodesOf, Within, Like
  <2>3. <<i, j>> \in {q \in X \X Y : q[1].id \in q[2].refs}
    BY <1>1, <2>1, <2>2 DEF Like
  <2> QED BY <2>1, <2>2, <2>3 DEF Holds, Like
<1>2. ASSUME NEW i \in X, NEW j \in Y, i.id \in j.refs
      PROVE  Rel(t, i.id, j.id) \in Holds(t, N, M)
  <2>1. PICK n \in N : Like(n, i)
    BY DEF NodesOf, Within, Like
  <2>2. PICK m \in M : Like(m, j)
    BY DEF NodesOf, Within, Like
  <2>3. <<n, m>> \in {q \in N \X M : q[1].id \in q[2].refs}
    BY <1>2, <2>1, <2>2 DEF Like
  <2> QED BY <2>1, <2>2, <2>3 DEF Holds, Like
<1>3. Holds(t, N, M) \subseteq Holds(t, X, Y)
  BY <1>1 DEF Holds
<1>4. Holds(t, X, Y) \subseteq Holds(t, N, M)
  BY <1>2 DEF Holds
<1> QED BY <1>3, <1>4

LEMMA PointsToOfNodes ==
    ASSUME NEW N, NEW X, NodesOf(N, X), NEW M, NEW Y, NodesOf(M, Y), NEW t
    PROVE  PointsTo(t, N, M) = PointsTo(t, X, Y)
<1>1. ASSUME NEW n \in N, NEW m \in M, m.id \in n.refs
      PROVE  Rel(t, n.id, m.id) \in PointsTo(t, X, Y)
  <2>1. PICK i \in X : Like(n, i)
    BY DEF NodesOf, Within, Like
  <2>2. PICK j \in Y : Like(m, j)
    BY DEF NodesOf, Within, Like
  <2>3. <<i, j>> \in {q \in X \X Y : q[2].id \in q[1].refs}
    BY <1>1, <2>1, <2>2 DEF Like
  <2> QED BY <2>1, <2>2, <2>3 DEF PointsTo, Like
<1>2. ASSUME NEW i \in X, NEW j \in Y, j.id \in i.refs
      PROVE  Rel(t, i.id, j.id) \in PointsTo(t, N, M)
  <2>1. PICK n \in N : Like(n, i)
    BY DEF NodesOf, Within, Like
  <2>2. PICK m \in M : Like(m, j)
    BY DEF NodesOf, Within, Like
  <2>3. <<n, m>> \in {q \in N \X M : q[2].id \in q[1].refs}
    BY <1>2, <2>1, <2>2 DEF Like
  <2> QED BY <2>1, <2>2, <2>3 DEF PointsTo, Like
<1>3. PointsTo(t, N, M) \subseteq PointsTo(t, X, Y)
  BY <1>1 DEF PointsTo
<1>4. PointsTo(t, X, Y) \subseteq PointsTo(t, N, M)
  BY <1>2 DEF PointsTo
<1> QED BY <1>3, <1>4

\* What a join is, one edge at a time.
LEMMA HoldsIs ==
    ASSUME NEW t, NEW X, NEW Y
    PROVE  /\ \A e \in Holds(t, X, Y) :
                 \E i \in X, j \in Y : i.id \in j.refs /\ e = Rel(t, i.id, j.id)
           /\ \A i \in X, j \in Y : i.id \in j.refs => Rel(t, i.id, j.id) \in Holds(t, X, Y)
<1>1. ASSUME NEW i \in X, NEW j \in Y, i.id \in j.refs
      PROVE  Rel(t, i.id, j.id) \in Holds(t, X, Y)
  <2>1. <<i, j>> \in {q \in X \X Y : q[1].id \in q[2].refs}
    BY <1>1
  <2> QED BY <2>1 DEF Holds
<1> QED BY <1>1 DEF Holds

LEMMA PointsToIs ==
    ASSUME NEW t, NEW X, NEW Y
    PROVE  /\ \A e \in PointsTo(t, X, Y) :
                 \E i \in X, j \in Y : j.id \in i.refs /\ e = Rel(t, i.id, j.id)
           /\ \A i \in X, j \in Y : j.id \in i.refs => Rel(t, i.id, j.id) \in PointsTo(t, X, Y)
<1>1. ASSUME NEW i \in X, NEW j \in Y, j.id \in i.refs
      PROVE  Rel(t, i.id, j.id) \in PointsTo(t, X, Y)
  <2>1. <<i, j>> \in {q \in X \X Y : q[2].id \in q[1].refs}
    BY <1>1
  <2> QED BY <2>1 DEF PointsTo
<1> QED BY <1>1 DEF PointsTo

-----------------------------------------------------------------------------
(* The edges of Azure that the search follows.                             *)

LEMMA IngressOfNodes ==
    ASSUME NEW N, NEW X, NodesOf(N, X)
    PROVE  BuildIngressEdges(N) = BuildIngressEdges(X)
<1> DEFINE Public(S) == {n \in OfKind(S, {"APIManagementService"}) : n.open}
           Doors(S) == {Rel("ROUTES_TO", Internet, n.id) :
                           n \in OfKind(S, {"FrontDoorProfile"})
                                 \cup OfKind(S, {"TrafficManagerProfile"})
                                 \cup Public(S)}
           Backends(S) == {Rel("HAS_BACKEND", p[1].id, p[2].id) : p \in
                {q \in OfKind(S, {"APIMApi"}) \X OfKind(S, {"APIMBackend"}) :
                    \E s \in OfKind(S, {"APIManagementService"}) :
                        s.id \in q[1].refs \cap q[2].refs}}
           H(t, S, k, l) == Holds(t, OfKind(S, {k}), OfKind(S, {l}))
<1>1. \A k, l, t : H(t, N, k, l) = H(t, X, k, l)
  BY KindsOfNodes, HoldsOfNodes
<1>2. \A k, l, t : PointsTo(t, OfKind(N, {k}), OfKind(N, {l}))
                   = PointsTo(t, OfKind(X, {k}), OfKind(X, {l}))
  BY KindsOfNodes, PointsToOfNodes
<1>3. Doors(N) = Doors(X)
  <2>1. ASSUME NEW S, NEW T, Within(S, T)
        PROVE  Doors(S) \subseteq Doors(T)
    BY <2>1 DEF Within, Like, OfKind
  <2>2. Within(X, N) /\ Within(N, X)
    BY DEF NodesOf
  <2> HIDE DEF Doors
  <2>3. Doors(N) \subseteq Doors(X)
    BY <2>1, <2>2
  <2>4. Doors(X) \subseteq Doors(N)
    BY <2>1, <2>2
  <2> QED BY <2>3, <2>4
<1>4. Backends(N) = Backends(X)
  <2>1. ASSUME NEW S, NEW T, Within(S, T)
        PROVE  Backends(S) \subseteq Backends(T)
    <3>1. ASSUME NEW a \in OfKind(S, {"APIMApi"}),
                 NEW b \in OfKind(S, {"APIMBackend"}),
                 NEW s \in OfKind(S, {"APIManagementService"}),
                 s.id \in a.refs \cap b.refs
          PROVE  Rel("HAS_BACKEND", a.id, b.id) \in Backends(T)
      <4>1. PICK i \in OfKind(T, {"APIMApi"}) : Like(a, i)
        BY <2>1 DEF Within, Like, OfKind
      <4>2. PICK j \in OfKind(T, {"APIMBackend"}) : Like(b, j)
        BY <2>1 DEF Within, Like, OfKind
      <4>3. PICK r \in OfKind(T, {"APIManagementService"}) : Like(s, r)
        BY <2>1 DEF Within, Like, OfKind
      <4>4. r.id \in i.refs \cap j.refs
        BY <3>1, <4>1, <4>2, <4>3 DEF Like
      <4>5. <<i, j>> \in {q \in OfKind(T, {"APIMApi"}) \X OfKind(T, {"APIMBackend"}) :
                            \E t \in OfKind(T, {"APIManagementService"}) :
                                t.id \in q[1].refs \cap q[2].refs}
        BY <4>4
      <4> QED BY <4>1, <4>2, <4>5 DEF Like
    <3> QED BY <3>1
  <2>2. Within(X, N) /\ Within(N, X)
    BY DEF NodesOf
  <2> HIDE DEF Backends
  <2>3. Backends(N) \subseteq Backends(X)
    BY <2>1, <2>2
  <2>4. Backends(X) \subseteq Backends(N)
    BY <2>1, <2>2
  <2> QED BY <2>3, <2>4
<1>5. \A S : BuildIngressEdges(S) =
             Doors(S) \cup H("HAS_ENDPOINT", S, "FrontDoorProfile", "FrontDoorEndpoint")
             \cup H("HAS_ROUTE", S, "FrontDoorEndpoint", "FrontDoorRoute")
             \cup H("HAS_ORIGIN_GROUP", S, "FrontDoorProfile", "FrontDoorOriginGroup")
             \cup H("HAS_ORIGIN", S, "FrontDoorOriginGroup", "FrontDoorOrigin")
             \cup PointsTo("ROUTES_TO", OfKind(S, {"FrontDoorRoute"}),
                           OfKind(S, {"FrontDoorOriginGroup"}))
             \cup H("ROUTES_TO", S, "TrafficManagerProfile", "TrafficManagerEndpoint")
             \cup H("EXPOSES_API", S, "APIManagementService", "APIMApi")
             \cup Backends(S)
  BY Zenon DEF BuildIngressEdges
<1> HIDE DEF Doors, Backends, H
<1> QED BY <1>1, <1>2, <1>3, <1>4, <1>5

\* An edge to what is lit, or from something to what it reaches.
LEMMA RightEdge ==
    ASSUME NEW ever, ever \subseteq Items, NEW X, X \subseteq ever, Unique(X),
           NEW Lit, \A a \in Lit : \A b \in ever : Reaches(ever, a, b) => b \in Lit,
           NEW a \in X, NEW b \in X, b \in Lit \/ Reaches(ever, a, b), NEW t
    PROVE  Right(Rel(t, a.id, b.id), X, Lit) /\ Plain(Rel(t, a.id, b.id))
<1>1. a.id \in Ids /\ b.id \in Ids /\ a.id # Internet
  BY ItemAssumption DEF Ids
<1>2. \A c \in X \cap Lit : c.id = a.id => b \in Lit
  BY DEF Unique
<1> QED BY <1>1, <1>2 DEF Right, Plain, Rel

LEMMA RightEntrance ==
    ASSUME NEW X, X \subseteq Items, NEW Lit, NEW b \in X, b \in Lit, NEW t
    PROVE  Right(Rel(t, Internet, b.id), X, Lit) /\ Plain(Rel(t, Internet, b.id))
<1>1. b.id \in Ids
  BY DEF Ids
<1> QED BY <1>1 DEF Right, Plain, Rel

LEMMA IngressEdgesRight ==
    ASSUME NEW ever, ever \subseteq Items, NEW items, items \subseteq ever,
           NEW X, X \subseteq ever, Unique(X), IngressGraph(items) \subseteq X,
           NEW e \in BuildIngressEdges(IngressGraph(items))
    PROVE  Right(e, X, Reachable(ever)) /\ Plain(e)
<1> DEFINE G == IngressGraph(items)
           Lit == Reachable(ever)
           Fine(x) == Right(x, X, Lit) /\ Plain(x)
           K(kind) == OfKind(G, {kind})
           Public == {n \in K("APIManagementService") : n.open}
<1>1. IsFiniteSet(ever)
  BY ItemsFinite, FS_Subset
<1>2. /\ Entrances(ever) \subseteq Lit
      /\ \A a \in Lit : \A b \in ever : Reaches(ever, a, b) => b \in Lit
  BY <1>1, ReachableIsClosed
<1>3. \A b \in G : b.kind \in DoorKinds => b \in Lit
  BY <1>1, DoorsAreReachable
<1>4. ASSUME NEW a \in G, NEW b \in G, b \in Lit \/ Reaches(ever, a, b), NEW t
      PROVE  Fine(Rel(t, a.id, b.id))
  <2> HIDE DEF G, Lit
  <2>1. a \in X /\ b \in X
    BY DEF G
  <2> QED BY <1>2, <1>4, <2>1, RightEdge
<1>5. ASSUME NEW b \in K("FrontDoorProfile") \cup K("TrafficManagerProfile") \cup Public
      PROVE  Fine(Rel("ROUTES_TO", Internet, b.id))
  <2>1. b \in X
    BY DEF OfKind
  <2>2. b \in Entrances(ever)
    BY <2>1 DEF Entrances, OfKind
  <2>3. b \in Lit
    BY <1>2, <2>2
  <2> HIDE DEF G, Lit
  <2> QED BY <2>1, <2>3, RightEntrance
<1>6. ASSUME NEW k, NEW l \in DoorKinds, NEW t, NEW x \in Holds(t, K(k), K(l))
      PROVE  Fine(x)
  <2>1. PICK a \in K(k), b \in K(l) : a.id \in b.refs /\ x = Rel(t, a.id, b.id)
    <3> HIDE DEF K
    <3> QED BY <1>6, HoldsIs
  <2>2. a \in G /\ b \in G /\ b.kind = l
    BY <2>1 DEF OfKind
  <2> HIDE DEF G, Lit, Fine
  <2> QED BY <1>3, <1>4, <2>1, <2>2
<1>7. ASSUME NEW x \in PointsTo("ROUTES_TO", K("FrontDoorRoute"), K("FrontDoorOriginGroup"))
      PROVE  Fine(x)
  <2>1. PICK a \in K("FrontDoorRoute"), b \in K("FrontDoorOriginGroup") :
           x = Rel("ROUTES_TO", a.id, b.id)
    BY PointsToIs
  <2>2. a \in G /\ b \in G /\ b.kind \in DoorKinds
    BY <2>1 DEF OfKind, DoorKinds
  <2> HIDE DEF G, Lit, Fine
  <2> QED BY <1>3, <1>4, <2>1, <2>2
<1>8. ASSUME NEW x \in Holds("EXPOSES_API", K("APIManagementService"), K("APIMApi"))
      PROVE  Fine(x)
  <2>1. PICK a \in K("APIManagementService"), b \in K("APIMApi") :
           a.id \in b.refs /\ x = Rel("EXPOSES_API", a.id, b.id)
    BY HoldsIs
  <2>2. a \in G /\ b \in G /\ Reaches(ever, a, b)
    BY <2>1 DEF OfKind, Reaches, Back
  <2> HIDE DEF G, Lit, Fine
  <2> QED BY <1>4, <2>1, <2>2
<1>9. ASSUME NEW a \in K("APIMApi"), NEW b \in K("APIMBackend"),
             NEW s \in K("APIManagementService"), s.id \in a.refs \cap b.refs
      PROVE  Fine(Rel("HAS_BACKEND", a.id, b.id))
  <2>1. s \in OfKind(ever, {"APIManagementService"})
    BY DEF OfKind
  <2>2. a \in G /\ b \in G /\ Reaches(ever, a, b)
    BY <1>9, <2>1 DEF OfKind, Reaches
  <2> HIDE DEF G, Lit, Fine
  <2> QED BY <1>4, <2>2
<1>10. {"FrontDoorEndpoint", "FrontDoorRoute", "FrontDoorOriginGroup", "FrontDoorOrigin",
        "TrafficManagerEndpoint"} \subseteq DoorKinds
  BY DEF DoorKinds
<1>11. e \in BuildIngressEdges(G)
  OBVIOUS
<1> HIDE DEF Fine, G, Lit
<1>12. \/ e \in {Rel("ROUTES_TO", Internet, n.id) :
                    n \in K("FrontDoorProfile") \cup K("TrafficManagerProfile") \cup Public}
       \/ e \in Holds("HAS_ENDPOINT", K("FrontDoorProfile"), K("FrontDoorEndpoint"))
       \/ e \in Holds("HAS_ROUTE", K("FrontDoorEndpoint"), K("FrontDoorRoute"))
       \/ e \in Holds("HAS_ORIGIN_GROUP", K("FrontDoorProfile"), K("FrontDoorOriginGroup"))
       \/ e \in Holds("HAS_ORIGIN", K("FrontDoorOriginGroup"), K("FrontDoorOrigin"))
       \/ e \in PointsTo("ROUTES_TO", K("FrontDoorRoute"), K("FrontDoorOriginGroup"))
       \/ e \in Holds("ROUTES_TO", K("TrafficManagerProfile"), K("TrafficManagerEndpoint"))
       \/ e \in Holds("EXPOSES_API", K("APIManagementService"), K("APIMApi"))
       \/ e \in {Rel("HAS_BACKEND", p[1].id, p[2].id) : p \in
                {q \in K("APIMApi") \X K("APIMBackend") :
                    \E s \in K("APIManagementService") :
                        s.id \in q[1].refs \cap q[2].refs}}
  BY <1>11 DEF BuildIngressEdges
<1>13. Fine(e)
  <2> HIDE DEF K, Public
  <2> QED BY <1>5, <1>6, <1>7, <1>8, <1>9, <1>10, <1>12
<1> QED BY <1>13 DEF Fine, Lit

\* What Build makes of what was read.
Placed(R, T) == OfKind(R, {"VirtualNetwork", "Subnet"})
                \cup OfKind(T, {"NetworkSecurityGroup", "PrivateEndpoint"})

Known(R, G, T) == {InternetNode} \cup IngressNodes(G) \cup BuildComputeNodes(R)
                  \cup NetworkNodes(R, T)

AzureNodes(R, G, T, W) == FirewallExposed(Known(R, G, T), T) \cup IdentityNodes(W)

AzureEdges(R, G, T, W) ==
    BuildIngressEdges(IngressNodes(G))
    \cup BuildOriginBackendEdges(IngressNodes(G), BuildComputeNodes(R))
    \cup BuildNetworkEdges(NetworkNodes(R, T), T)
    \cup BuildPrivateEndpointEdges(NetworkNodes(R, T))
    \cup BuildFirewallEdges(Known(R, G, T), T)
    \cup BuildIdentityEdges(IdentityNodes(W), W)
    \cup BuildComputeSubnetEdges(R, NetworkNodes(R, T))

LEMMA BuildIs ==
    ASSUME NEW R, NEW G, NEW T, NEW W
    PROVE  Build(R, G, T, W).nodes =
              DeriveInternetExposure(AzureNodes(R, G, T, W), AzureEdges(R, G, T, W))
<1>1. Build(R, G, T, W) =
         [nodes |-> DeriveInternetExposure(AzureNodes(R, G, T, W), AzureEdges(R, G, T, W)),
          edges |-> DeduplicateRelationships(AzureEdges(R, G, T, W))]
  BY Zenon DEF Build, AzureNodes, AzureEdges, Known
<1> QED BY <1>1

LEMMA UnflaggedNodes ==
    ASSUME NEW X PROVE NodesOf({Node(i, FALSE) : i \in X}, X)
<1>1. \A i : Like(Node(i, FALSE), i)
  BY DEF Like, Node
<1>2. Within({Node(i, FALSE) : i \in X}, X)
  BY <1>1 DEF Within
<1>3. Within(X, {Node(i, FALSE) : i \in X})
  <2>1. \A i \in X : Node(i, FALSE) \in {Node(j, FALSE) : j \in X}
    OBVIOUS
  <2> QED BY <1>1, <2>1 DEF Within, Like
<1> QED BY <1>2, <1>3 DEF NodesOf

LEMMA NodesAreOfItems ==
    ASSUME NEW R, NEW G, NEW T
    PROVE  /\ NodesOf(IngressNodes(G), G)
           /\ NodesOf(BuildComputeNodes(R), OfKind(R, ComputeKinds))
           /\ NodesOf(NetworkNodes(R, T), Placed(R, T))
<1>1. \A i, x : Like(Node(i, x), i)
  BY DEF Like, Node
<1>2. NodesOf(IngressNodes(G), G)
  <2>1. ASSUME NEW n \in IngressNodes(G) PROVE \E i \in G : \E x : n = Node(i, x)
    BY Zenon DEF IngressNodes
  <2>2. ASSUME NEW i \in G PROVE \E x : Node(i, x) \in IngressNodes(G)
    BY Zenon DEF IngressNodes
  <2>3. Within(IngressNodes(G), G)
    BY <1>1, <2>1 DEF Within
  <2>4. Within(G, IngressNodes(G))
    BY <1>1, <2>2 DEF Within, Like
  <2> QED BY <2>3, <2>4 DEF NodesOf
<1>3. NodesOf(BuildComputeNodes(R), OfKind(R, ComputeKinds))
  <2>1. BuildComputeNodes(R) = {Node(i, FALSE) : i \in OfKind(R, ComputeKinds)}
    BY DEF BuildComputeNodes
  <2> QED BY <2>1, UnflaggedNodes
<1>4. NodesOf(NetworkNodes(R, T), Placed(R, T))
  <2>1. NetworkNodes(R, T) = {Node(i, FALSE) : i \in Placed(R, T)}
    BY DEF NetworkNodes, Placed
  <2> QED BY <2>1, UnflaggedNodes
<1> QED BY <1>2, <1>3, <1>4

\* The other edges are not followed.
LEMMA NotFollowed ==
    ASSUME NEW R, NEW G, NEW T, NEW W
    PROVE  /\ \A e \in BuildNetworkEdges(NetworkNodes(R, T), T) : e.type \notin AzureTravels
           /\ \A e \in BuildFirewallEdges(Known(R, G, T), T) : e.type \notin AzureTravels
           /\ \A e \in BuildIdentityEdges(IdentityNodes(W), W) : e.type \notin AzureTravels
<1>4. \A t, s, u, x : Rel(t, s, u).type = t /\ [Rel(t, s, u) EXCEPT !.about = x].type = t
  BY DEF Rel
<1>5. \A t, X, Y : /\ \A e \in Holds(t, X, Y) : e.type = t
                  /\ \A e \in PointsTo(t, X, Y) : e.type = t
  BY <1>4, HoldsIs, PointsToIs
<1>1. \A e \in BuildNetworkEdges(NetworkNodes(R, T), T) :
         e.type \in {"CONTAINS", "PROTECTED_BY", "HAS_SERVICE_ENDPOINT", "PEERED_WITH"}
  <2> TAKE e \in BuildNetworkEdges(NetworkNodes(R, T), T)
  <2>1. \/ \E X, Y : e \in Holds("CONTAINS", X, Y)
        \/ \E X, Y : e \in PointsTo("PROTECTED_BY", X, Y)
        \/ \E s, u, x : e = [Rel("HAS_SERVICE_ENDPOINT", s, u) EXCEPT !.about = x]
        \/ \E s, u : e = Rel("PEERED_WITH", s, u)
    BY Zenon DEF BuildNetworkEdges
  <2>2. \A s, u, x : e = [Rel("HAS_SERVICE_ENDPOINT", s, u) EXCEPT !.about = x]
                        => e.type = "HAS_SERVICE_ENDPOINT"
    BY DEF Rel
  <2>3. \A s, u : e = Rel("PEERED_WITH", s, u) => e.type = "PEERED_WITH"
    BY DEF Rel
  <2>4. \A X, Y : e \in Holds("CONTAINS", X, Y) => e.type = "CONTAINS"
    BY <1>5
  <2>7. \A X, Y : e \in PointsTo("PROTECTED_BY", X, Y) => e.type = "PROTECTED_BY"
    BY <1>5
  <2>5. e.type \in {"CONTAINS", "PROTECTED_BY", "HAS_SERVICE_ENDPOINT", "PEERED_WITH"}
           <=> \/ e.type = "CONTAINS" \/ e.type = "PROTECTED_BY"
               \/ e.type = "HAS_SERVICE_ENDPOINT" \/ e.type = "PEERED_WITH"
    OBVIOUS
  <2>6. \/ e.type = "CONTAINS" \/ e.type = "PROTECTED_BY"
        \/ e.type = "HAS_SERVICE_ENDPOINT" \/ e.type = "PEERED_WITH"
    BY <2>1, <2>2, <2>3, <2>4, <2>7
  <2> QED BY <2>5, <2>6, Zenon
<1>2. \A e \in BuildFirewallEdges(Known(R, G, T), T) :
         e.type \in {"HAS_FIREWALL_RULE", "ACCESSIBLE_FROM"}
  BY DEF BuildFirewallEdges, PointsTo, Rel
<1>3. \A e \in BuildIdentityEdges(IdentityNodes(W), W) :
         e.type \in {"ASSIGNED_IDENTITY", "HAS_ROLE"}
  <2> TAKE e \in BuildIdentityEdges(IdentityNodes(W), W)
  <2>1. \/ \E s, u : e = Rel("ASSIGNED_IDENTITY", s, u)
        \/ \E s, u, x : e = [Rel("HAS_ROLE", s, u) EXCEPT !.about = x]
    BY Zenon DEF BuildIdentityEdges
  <2>2. \A s, u, x : e = [Rel("HAS_ROLE", s, u) EXCEPT !.about = x]
                        => e.type = "HAS_ROLE"
    BY DEF Rel
  <2>3. \A s, u : e = Rel("ASSIGNED_IDENTITY", s, u) => e.type = "ASSIGNED_IDENTITY"
    BY DEF Rel
  <2>4. e.type \in {"ASSIGNED_IDENTITY", "HAS_ROLE"}
           <=> e.type = "ASSIGNED_IDENTITY" \/ e.type = "HAS_ROLE"
    OBVIOUS
  <2> QED BY <2>1, <2>2, <2>3, <2>4, Zenon
<1> QED BY <1>1, <1>2, <1>3 DEF AzureTravels

Resolves(R, G, a, b) ==
    /\ a \in OfKind(G, {"FrontDoorOrigin", "APIMBackend"})
    /\ b \in OfKind(R, ComputeKinds) /\ b.id \in a.refs

Connects(T, x, b) ==
    b \in OfKind(T, {"PrivateEndpoint"}) /\ x \in b.refs \cap Ids /\ Named(x, ComputeKinds)

Deployed(R, T, a, b) ==
    /\ a \in OfKind(T, {"PrivateEndpoint"}) \cup OfKind(R, {"VirtualMachine", "WebApp"})
    /\ b \in OfKind(R, {"Subnet"}) /\ b.id \in a.refs

LEMMA AzureWays ==
    ASSUME NEW R, NEW G, NEW T, NEW W
    PROVE  /\ \A e \in Travelled(AzureEdges(R, G, T, W), AzureTravels) :
                 \/ e \in BuildIngressEdges(G)
                 \/ \E a, b : Resolves(R, G, a, b) /\ e = Rel("RESOLVES_TO", a.id, b.id)
                 \/ \E x, b : Connects(T, x, b) /\ e = Rel("HAS_PRIVATE_ENDPOINT", x, b.id)
                 \/ \E a, b : Deployed(R, T, a, b) /\ e = Rel("DEPLOYED_IN", a.id, b.id)
           /\ BuildIngressEdges(G) \subseteq AzureEdges(R, G, T, W)
           /\ \A a, b : Resolves(R, G, a, b) =>
                 Rel("RESOLVES_TO", a.id, b.id) \in AzureEdges(R, G, T, W)
           /\ \A x, b : Connects(T, x, b) =>
                 Rel("HAS_PRIVATE_ENDPOINT", x, b.id) \in AzureEdges(R, G, T, W)
           /\ \A a, b : Deployed(R, T, a, b) =>
                 Rel("DEPLOYED_IN", a.id, b.id) \in AzureEdges(R, G, T, W)
<1> DEFINE N == NetworkNodes(R, T)
           P == Placed(R, T)
           C == OfKind(R, ComputeKinds)
           Origins == OfKind(G, {"FrontDoorOrigin", "APIMBackend"})
           Pes == OfKind(T, {"PrivateEndpoint"})
           Subnets == OfKind(R, {"Subnet"})
           Machines == OfKind(R, {"VirtualMachine", "WebApp"})
<1>1. BuildIngressEdges(IngressNodes(G)) = BuildIngressEdges(G)
  BY NodesAreOfItems, IngressOfNodes
<1>2. BuildOriginBackendEdges(IngressNodes(G), BuildComputeNodes(R))
         = PointsTo("RESOLVES_TO", Origins, C)
  BY NodesAreOfItems, KindsOfNodes, PointsToOfNodes DEF BuildOriginBackendEdges
<1>3. /\ NodesOf(OfKind(N, {"PrivateEndpoint"}), OfKind(P, {"PrivateEndpoint"}))
      /\ NodesOf(OfKind(N, {"Subnet"}), OfKind(P, {"Subnet"}))
  BY NodesAreOfItems, KindsOfNodes
<1>4. /\ OfKind(P, {"PrivateEndpoint"}) \subseteq Pes \cup OfKind(R, {})
      /\ Pes \subseteq OfKind(P, {"PrivateEndpoint"})
      /\ OfKind(P, {"Subnet"}) = Subnets
  BY DEF Placed, OfKind
<1>5. NodesOf(OfKind(N, {"PrivateEndpoint"}), Pes) /\ NodesOf(OfKind(N, {"Subnet"}), Subnets)
  <2>1. OfKind(P, {"PrivateEndpoint"}) = Pes
    BY <1>4 DEF OfKind
  <2> QED BY <1>3, <1>4, <2>1
<1>6. PointsTo("DEPLOYED_IN", OfKind(N, {"PrivateEndpoint"}), OfKind(N, {"Subnet"}))
         = PointsTo("DEPLOYED_IN", Pes, Subnets)
  BY <1>5, PointsToOfNodes
<1>7. BuildComputeSubnetEdges(R, N) = PointsTo("DEPLOYED_IN", Machines, Subnets)
  <2>1. NodesOf(Machines, Machines)
    BY DEF NodesOf, Within, Like
  <2> HIDE DEF Machines, N, Subnets
  <2>2. PointsTo("DEPLOYED_IN", Machines, OfKind(N, {"Subnet"}))
           = PointsTo("DEPLOYED_IN", Machines, Subnets)
    BY <1>5, <2>1, PointsToOfNodes
  <2> QED BY <2>2 DEF BuildComputeSubnetEdges, Machines
<1>8. ASSUME NEW x, NEW b \in OfKind(N, {"PrivateEndpoint"}), x \in b.refs \cap Ids,
             Named(x, ComputeKinds)
      PROVE  \E c : Connects(T, x, c) /\ b.id = c.id
  BY <1>5, <1>8 DEF NodesOf, Within, Like, Connects
<1>9. ASSUME NEW x, NEW c, Connects(T, x, c)
      PROVE  Rel("HAS_PRIVATE_ENDPOINT", x, c.id) \in BuildPrivateEndpointEdges(N)
  <2>1. PICK b \in OfKind(N, {"PrivateEndpoint"}) : Like(b, c)
    BY <1>5, <1>9 DEF NodesOf, Within, Connects, Like
  <2>2. <<b, x>> \in {q \in OfKind(N, {"PrivateEndpoint"}) \X Ids :
                         q[2] \in q[1].refs /\ Named(q[2], ComputeKinds)}
    BY <1>9, <2>1 DEF Connects, Like
  <2>3. Rel("HAS_PRIVATE_ENDPOINT", x, b.id) \in BuildPrivateEndpointEdges(N)
    <3> HIDE DEF N
    <3> QED BY <2>2 DEF BuildPrivateEndpointEdges
  <2> QED BY <2>1, <2>3 DEF Like
<1>10. ASSUME NEW e \in BuildPrivateEndpointEdges(N), e.type \in AzureTravels
       PROVE  \/ e \in PointsTo("DEPLOYED_IN", Pes, Subnets)
              \/ \E x, c : Connects(T, x, c) /\ e = Rel("HAS_PRIVATE_ENDPOINT", x, c.id)
  <2> HIDE DEF N, Pes, Subnets
  <2>1. e.type # "CONNECTS_TO"
    BY <1>10 DEF AzureTravels
  <2>2. CASE e \in PointsTo("DEPLOYED_IN", OfKind(N, {"PrivateEndpoint"}), OfKind(N, {"Subnet"}))
    BY <1>6, <2>2
  <2>3. CASE \E b \in OfKind(N, {"PrivateEndpoint"}), x \in Ids :
                /\ x \in b.refs /\ Named(x, ComputeKinds)
                /\ e = Rel("HAS_PRIVATE_ENDPOINT", x, b.id)
    BY <1>8, <2>3
  <2> QED BY <2>1, <2>2, <2>3 DEF BuildPrivateEndpointEdges, Rel
<1> HIDE DEF N, P, C, Origins, Pes, Subnets, Machines
<1>11. ASSUME NEW e \in Travelled(AzureEdges(R, G, T, W), AzureTravels)
       PROVE  \/ e \in BuildIngressEdges(G)
              \/ e \in PointsTo("RESOLVES_TO", Origins, C)
              \/ \E x, b : Connects(T, x, b) /\ e = Rel("HAS_PRIVATE_ENDPOINT", x, b.id)
              \/ e \in PointsTo("DEPLOYED_IN", Pes, Subnets)
              \/ e \in PointsTo("DEPLOYED_IN", Machines, Subnets)
  <2>1. e.type \in AzureTravels /\ e \in AzureEdges(R, G, T, W)
    BY DEF Travelled
  <2> QED BY <1>1, <1>2, <1>7, <1>10, <2>1, NotFollowed DEF AzureEdges, N
<1>12. \A e \in PointsTo("RESOLVES_TO", Origins, C) :
          \E a, b : Resolves(R, G, a, b) /\ e = Rel("RESOLVES_TO", a.id, b.id)
  BY PointsToIs DEF Resolves, Origins, C
<1>13. \A e \in PointsTo("DEPLOYED_IN", Pes, Subnets) \cup PointsTo("DEPLOYED_IN", Machines, Subnets) :
          \E a, b : Deployed(R, T, a, b) /\ e = Rel("DEPLOYED_IN", a.id, b.id)
  BY PointsToIs DEF Deployed, Pes, Subnets, Machines
<1>14. BuildIngressEdges(G) \subseteq AzureEdges(R, G, T, W)
  BY <1>1 DEF AzureEdges
<1>15. \A a, b : Resolves(R, G, a, b) =>
          Rel("RESOLVES_TO", a.id, b.id) \in AzureEdges(R, G, T, W)
  <2>1. \A a, b : Resolves(R, G, a, b) =>
           Rel("RESOLVES_TO", a.id, b.id) \in PointsTo("RESOLVES_TO", Origins, C)
    BY PointsToIs DEF Resolves, Origins, C
  <2> QED BY <1>2, <2>1 DEF AzureEdges
<1>16. \A x, b : Connects(T, x, b) =>
          Rel("HAS_PRIVATE_ENDPOINT", x, b.id) \in AzureEdges(R, G, T, W)
  BY <1>9 DEF AzureEdges, N
<1>17. \A a, b : Deployed(R, T, a, b) =>
          Rel("DEPLOYED_IN", a.id, b.id) \in AzureEdges(R, G, T, W)
  <2>1. \A a, b : Deployed(R, T, a, b) =>
           \/ Rel("DEPLOYED_IN", a.id, b.id) \in PointsTo("DEPLOYED_IN", Pes, Subnets)
           \/ Rel("DEPLOYED_IN", a.id, b.id) \in PointsTo("DEPLOYED_IN", Machines, Subnets)
    BY PointsToIs DEF Deployed, Pes, Subnets, Machines
  <2>2. PointsTo("DEPLOYED_IN", Pes, Subnets) \subseteq BuildPrivateEndpointEdges(N)
    BY <1>6 DEF BuildPrivateEndpointEdges
  <2> QED BY <1>7, <2>1, <2>2 DEF AzureEdges, N
<1> QED BY <1>11, <1>12, <1>13, <1>14, <1>15, <1>16, <1>17

-----------------------------------------------------------------------------
(* Azure: the search finds what was reachable all along, and nothing that  *)
(* never was.                                                              *)

\* An estate of some moment of a discovery.
Moment(E, steady, ever) ==
    E \subseteq Items /\ Unique(E) /\ steady \subseteq E /\ E \subseteq ever

Seen(R, G, T) == G \cup OfKind(R, ComputeKinds) \cup Placed(R, T)

LEMMA ReachesMore ==
    ASSUME NEW items, NEW more, items \subseteq more, NEW j, NEW i, Reaches(items, j, i)
    PROVE  Reaches(more, j, i)
  BY DEF Reaches, OfKind, SameDoor

LEMMA SeenIsUnique ==
    ASSUME NEW steady, NEW ever, NEW Er, Moment(Er, steady, ever),
           NEW Eg, Moment(Eg, steady, ever), NEW Et, Moment(Et, steady, ever)
    PROVE  LET X == Seen(OfKind(Er, ResourceKinds), IngressGraph(Eg), OfKind(Et, NetworkKinds))
           IN  Unique(X) /\ X \subseteq ever /\ X \subseteq Items
<1> DEFINE R == OfKind(Er, ResourceKinds)
           G == IngressGraph(Eg)
           T == OfKind(Et, NetworkKinds)
           RKinds == ComputeKinds \cup {"VirtualNetwork", "Subnet"}
           TKinds == {"NetworkSecurityGroup", "PrivateEndpoint"}
<1>1. \A i \in G : i \in Eg /\ i.kind \in AzureIngressKinds
  BY IngressOfKinds
<1>2. \A i \in Seen(R, G, T) : \/ i \in Eg /\ i.kind \in AzureIngressKinds
                               \/ i \in Er /\ i.kind \in RKinds
                               \/ i \in Et /\ i.kind \in TKinds
  <2> HIDE DEF G
  <2> QED BY <1>1 DEF Seen, Placed, OfKind
<1>3. AzureIngressKinds \cap (RKinds \cup TKinds) = {} /\ RKinds \cap TKinds = {}
  BY DEF AzureIngressKinds, ComputeKinds
<1>4. \A i \in Seen(R, G, T) : i \in Items /\ i \in ever
  BY <1>2 DEF Moment
<1> HIDE DEF R, G, T, RKinds, TKinds
<1>5. ASSUME NEW i \in Seen(R, G, T), NEW j \in Seen(R, G, T), i.id = j.id PROVE i = j
  <2>1. i.kind = j.kind
    BY <1>4, <1>5, ItemAssumption
  <2> QED BY <1>2, <1>3, <1>5, <2>1 DEF Moment, Unique
<1> QED BY <1>4, <1>5 DEF Unique, R, G, T

LEMMA AzureWaysRight ==
    ASSUME NEW steady, NEW ever, ever \subseteq Items, NEW Er, Moment(Er, steady, ever),
           NEW Eg, Moment(Eg, steady, ever), NEW Et, Moment(Et, steady, ever), NEW W,
           NEW R, R = OfKind(Er, ResourceKinds), NEW G, G = IngressGraph(Eg),
           NEW T, T = OfKind(Et, NetworkKinds),
           NEW e \in Travelled(AzureEdges(R, G, T, W), AzureTravels)
    PROVE  Right(e, Seen(R, G, T), Reachable(ever)) /\ Plain(e)
<1> DEFINE X == Seen(R, G, T)
           Lit == Reachable(ever)
<1>1. Unique(X) /\ X \subseteq ever /\ X \subseteq Items
  BY SeenIsUnique
<1>2. IsFiniteSet(ever)
  BY ItemsFinite, FS_Subset
<1>3. \A a \in Lit : \A b \in ever : Reaches(ever, a, b) => b \in Lit
  BY <1>2, ReachableIsClosed
<1>4. /\ G \subseteq X
      /\ OfKind(R, ComputeKinds) \subseteq X /\ OfKind(R, {"Subnet"}) \subseteq X
      /\ OfKind(T, {"PrivateEndpoint"}) \subseteq X
      /\ OfKind(R, {"WebApp"}) \subseteq X
      /\ \A i \in X : i.kind # "VirtualMachine"
  <2>1. \A i \in G : i.kind # "VirtualMachine"
    BY IngressOfKinds DEF AzureIngressKinds
  <2> QED BY <2>1 DEF Seen, Placed, OfKind, ComputeKinds
<1>5. CASE e \in BuildIngressEdges(G)
  <2>1. Eg \subseteq ever
    BY DEF Moment
  <2>2. IngressGraph(Eg) \subseteq X /\ e \in BuildIngressEdges(IngressGraph(Eg))
    BY <1>4, <1>5
  <2> HIDE DEF X
  <2>3. Right(e, X, Reachable(ever)) /\ Plain(e)
    BY <1>1, <2>1, <2>2, IngressEdgesRight
  <2> QED BY <2>3 DEF X
<1> HIDE DEF X, Lit
<1>6. CASE \E a, b : Resolves(R, G, a, b) /\ e = Rel("RESOLVES_TO", a.id, b.id)
  <2>1. PICK a, b : Resolves(R, G, a, b) /\ e = Rel("RESOLVES_TO", a.id, b.id)
    BY <1>6
  <2>2. a \in X /\ b \in X
    BY <1>4, <2>1 DEF Resolves, OfKind
  <2>3. Reaches(ever, a, b)
    BY <2>1 DEF Resolves, OfKind, Reaches, Along
  <2> QED BY <1>1, <1>3, <2>1, <2>2, <2>3, RightEdge DEF X, Lit
<1>7. CASE \E x, b : Connects(T, x, b) /\ e = Rel("HAS_PRIVATE_ENDPOINT", x, b.id)
  <2>1. PICK x, b : Connects(T, x, b) /\ e = Rel("HAS_PRIVATE_ENDPOINT", x, b.id)
    BY <1>7
  <2>2. b \in X /\ b \in ever /\ b.id \in Ids /\ x \in Ids /\ x # Internet
    BY <1>1, <1>4, <2>1, ItemAssumption DEF Connects, Ids
  <2>3. ASSUME NEW a \in X, a.id = x PROVE Reaches(ever, a, b)
    <3>1. a.kind \in ComputeKinds
      BY <1>1, <2>1, <2>3, ItemAssumption DEF Connects, Named
    <3>2. b.kind = "PrivateEndpoint" /\ a.id \in b.refs
      BY <2>1, <2>3 DEF Connects, OfKind
    <3> QED BY <3>1, <3>2 DEF Reaches, Back
  <2>4. \A a \in X \cap Lit : a.id = x => b \in Lit
    BY <1>3, <2>2, <2>3
  <2> QED BY <2>1, <2>2, <2>4 DEF Right, Plain, Rel, X, Lit
<1>8. CASE \E a, b : Deployed(R, T, a, b) /\ e = Rel("DEPLOYED_IN", a.id, b.id)
  <2>1. PICK a, b : Deployed(R, T, a, b) /\ e = Rel("DEPLOYED_IN", a.id, b.id)
    BY <1>8
  <2>2. b \in X
    BY <1>4, <2>1 DEF Deployed
  <2>3. CASE a.kind = "VirtualMachine"
    <3>1. a \in Items
      BY <2>1 DEF Deployed, OfKind, Moment
    <3>2. \A c \in X : c.id # a.id
      BY <1>1, <1>4, <2>3, <3>1, ItemAssumption
    <3>3. a.id \in Ids /\ a.id # Internet /\ b.id \in Ids
      BY <1>1, <2>2, <3>1, ItemAssumption DEF Ids
    <3> QED BY <2>1, <2>2, <3>2, <3>3 DEF Right, Plain, Rel, X, Lit
  <2>4. CASE a.kind # "VirtualMachine"
    <3>1. a \in X
      BY <1>4, <2>1, <2>4 DEF Deployed, OfKind
    <3>2. Reaches(ever, a, b)
      BY <2>1, <2>4 DEF Deployed, OfKind, Reaches, Along
    <3> QED BY <1>1, <1>3, <2>1, <2>2, <3>1, <3>2, RightEdge DEF X, Lit
  <2> QED BY <2>3, <2>4
<1> QED BY <1>5, <1>6, <1>7, <1>8, AzureWays

LEMMA IngressFollows ==
    ASSUME NEW items, NEW j \in IngressGraph(items), NEW i \in items,
           Reaches(items, j, i), i.kind \in AzureIngressKinds
    PROVE  /\ i \in IngressGraph(items)
           /\ \E t \in AzureTravels :
                 Rel(t, j.id, i.id) \in BuildIngressEdges(IngressGraph(items))
<1> DEFINE G == IngressGraph(items)
           K(kind) == OfKind(G, {kind})
           H(t, k, l) == Holds(t, K(k), K(l))
           E == BuildIngressEdges(G)
<1>1. i \in G
  BY IngressChildren
<1>2. /\ H("HAS_ENDPOINT", "FrontDoorProfile", "FrontDoorEndpoint") \subseteq E
      /\ H("HAS_ROUTE", "FrontDoorEndpoint", "FrontDoorRoute") \subseteq E
      /\ H("HAS_ORIGIN", "FrontDoorOriginGroup", "FrontDoorOrigin") \subseteq E
      /\ PointsTo("ROUTES_TO", K("FrontDoorRoute"), K("FrontDoorOriginGroup")) \subseteq E
      /\ H("ROUTES_TO", "TrafficManagerProfile", "TrafficManagerEndpoint") \subseteq E
      /\ H("EXPOSES_API", "APIManagementService", "APIMApi") \subseteq E
  <2> HIDE DEF G
  <2> QED BY DEF BuildIngressEdges
<1>3. \A a \in K("APIMApi"), b \in K("APIMBackend"), s \in K("APIManagementService") :
         s.id \in a.refs \cap b.refs => Rel("HAS_BACKEND", a.id, b.id) \in E
  <2> TAKE a \in K("APIMApi"), b \in K("APIMBackend"), s \in K("APIManagementService")
  <2> HAVE s.id \in a.refs \cap b.refs
  <2>1. <<a, b>> \in {q \in K("APIMApi") \X K("APIMBackend") :
                         \E r \in K("APIManagementService") : r.id \in q[1].refs \cap q[2].refs}
    OBVIOUS
  <2> HIDE DEF G
  <2> QED BY <2>1 DEF BuildIngressEdges
<1>4. ASSUME NEW k, NEW l, NEW t \in AzureTravels, H(t, k, l) \subseteq E,
             j.kind = k, i.kind = l, j.id \in i.refs
      PROVE  \E u \in AzureTravels : Rel(u, j.id, i.id) \in E
  <2>1. j \in K(k) /\ i \in K(l)
    BY <1>1, <1>4 DEF OfKind
  <2> HIDE DEF K, E
  <2>2. Rel(t, j.id, i.id) \in Holds(t, K(k), K(l))
    BY <1>4, <2>1, HoldsIs
  <2> QED BY <1>4, <2>2
<1>8. {"HAS_ENDPOINT", "HAS_ROUTE", "HAS_ORIGIN", "ROUTES_TO", "EXPOSES_API", "HAS_BACKEND"} \subseteq AzureTravels
  BY DEF AzureTravels
<1>5. ASSUME j.kind = "FrontDoorRoute" /\ i.kind = "FrontDoorOriginGroup"
      PROVE  \E u \in AzureTravels : Rel(u, j.id, i.id) \in E
  <2>1. j \in K("FrontDoorRoute") /\ i \in K("FrontDoorOriginGroup") /\ i.id \in j.refs
    BY <1>1, <1>5 DEF OfKind, Reaches, Along, Back, ComputeKinds
  <2> HIDE DEF K, E
  <2>2. Rel("ROUTES_TO", j.id, i.id) \in E
    BY <1>2, <2>1, PointsToIs
  <2> QED BY <1>8, <2>2
<1>6. ASSUME j.kind = "APIMApi" /\ i.kind = "APIMBackend"
      PROVE  \E u \in AzureTravels : Rel(u, j.id, i.id) \in E
  <2>1. j \in K("APIMApi") /\ i \in K("APIMBackend")
    BY <1>1, <1>6 DEF OfKind
  <2>2. PICK s \in OfKind(items, {"APIManagementService"}) : s.id \in j.refs \cap i.refs
    BY <1>6 DEF OfKind, Reaches, Along, Back, ComputeKinds
  <2>3. s \in K("APIManagementService")
    BY <2>2, IngressRoots DEF OfKind
  <2>4. Rel("HAS_BACKEND", j.id, i.id) \in E
    BY <1>3, <2>1, <2>2, <2>3
  <2> HIDE DEF E
  <2> QED BY <1>8, <2>4
<1>7. \/ <<j.kind, i.kind>> \in
           {<<"FrontDoorProfile", "FrontDoorEndpoint">>, <<"FrontDoorEndpoint", "FrontDoorRoute">>,
            <<"FrontDoorOriginGroup", "FrontDoorOrigin">>,
            <<"TrafficManagerProfile", "TrafficManagerEndpoint">>,
            <<"APIManagementService", "APIMApi">>} /\ j.id \in i.refs
      \/ j.kind = "FrontDoorRoute" /\ i.kind = "FrontDoorOriginGroup"
      \/ j.kind = "APIMApi" /\ i.kind = "APIMBackend"
  BY DEF Reaches, Along, Back, AzureIngressKinds, ComputeKinds
<1>9. \E u \in AzureTravels : Rel(u, j.id, i.id) \in E
  <2> HIDE DEF E, H
  <2>1. CASE j.kind = "FrontDoorProfile" /\ i.kind = "FrontDoorEndpoint" /\ j.id \in i.refs
    BY <1>2, <1>4, <1>8, <2>1
  <2>2. CASE j.kind = "FrontDoorEndpoint" /\ i.kind = "FrontDoorRoute" /\ j.id \in i.refs
    BY <1>2, <1>4, <1>8, <2>2
  <2>3. CASE j.kind = "FrontDoorOriginGroup" /\ i.kind = "FrontDoorOrigin" /\ j.id \in i.refs
    BY <1>2, <1>4, <1>8, <2>3
  <2>4. CASE j.kind = "TrafficManagerProfile" /\ i.kind = "TrafficManagerEndpoint" /\ j.id \in i.refs
    BY <1>2, <1>4, <1>8, <2>4
  <2>5. CASE j.kind = "APIManagementService" /\ i.kind = "APIMApi" /\ j.id \in i.refs
    BY <1>2, <1>4, <1>8, <2>5
  <2> QED BY <1>5, <1>6, <1>7, <2>1, <2>2, <2>3, <2>4, <2>5
<1> QED BY <1>1, <1>9

LEMMA AzureFollows ==
    ASSUME NEW steady, NEW ever, ever \subseteq Items, NEW Er, Moment(Er, steady, ever),
           NEW Eg, Moment(Eg, steady, ever), NEW Et, Moment(Et, steady, ever), NEW W,
           NEW R, R = OfKind(Er, ResourceKinds), NEW G, G = IngressGraph(Eg),
           NEW T, T = OfKind(Et, NetworkKinds),
           NEW j \in steady, NEW i \in steady, i.kind \in AzureKinds, Reaches(steady, j, i)
    PROVE  /\ j.kind \in AzureKinds
           /\ j \in Seen(R, G, T) =>
                 Follows(j, i, Seen(R, G, T), AzureEdges(R, G, T, W), AzureTravels)
<1> DEFINE X == Seen(R, G, T)
           E == AzureEdges(R, G, T, W)
<1>1. j.kind \in AzureKinds
  BY DEF Reaches, Along, Back, AzureKinds, AzureIngressKinds, ResourceKinds,
         NetworkKinds, IdentityKinds, ComputeKinds
<1>2. i \in Items /\ i \in Er /\ i \in Et /\ i \in Eg /\ i.id \in Ids /\ j \in Items /\ j.id \in Ids
  BY DEF Moment, Ids
<1>3. i.kind \in AzureIngressKinds \cup ComputeKinds \cup {"PrivateEndpoint", "Subnet"}
  BY DEF Reaches, Along, Back, AzureKinds, AzureIngressKinds, ResourceKinds,
         NetworkKinds, IdentityKinds, ComputeKinds
<1> SUFFICES ASSUME j \in X PROVE Follows(j, i, X, E, AzureTravels)
  BY <1>1
<1>4. /\ j.kind \in AzureIngressKinds => j \in G
      /\ j.kind = "WebApp" => j \in R
      /\ j.kind = "PrivateEndpoint" => j \in T
  <2>1. \/ j \in G
        \/ j.kind \in ComputeKinds \cup {"VirtualNetwork", "Subnet"} /\ j \in R
        \/ j.kind \in {"NetworkSecurityGroup", "PrivateEndpoint"} /\ j \in T
    BY DEF Seen, Placed, OfKind
  <2>2. j \in G => j.kind \in AzureIngressKinds
    BY IngressOfKinds
  <2> QED BY <2>1, <2>2 DEF AzureIngressKinds, ComputeKinds
<1>5. CASE i.kind \in AzureIngressKinds
  <2>1. j.kind \in AzureIngressKinds
    BY <1>5 DEF Reaches, Along, Back, AzureIngressKinds, ComputeKinds
  <2>2. steady \subseteq Eg
    BY DEF Moment
  <2>3. j \in IngressGraph(Eg) /\ i \in Eg /\ Reaches(Eg, j, i)
    BY <1>2, <1>4, <2>1, <2>2, ReachesMore
  <2>4. /\ i \in G
        /\ \E t \in AzureTravels : Rel(t, j.id, i.id) \in BuildIngressEdges(G)
    BY <1>5, <2>3, IngressFollows
  <2>5. BuildIngressEdges(G) \subseteq E
    BY AzureWays
  <2>6. i \in X
    BY <2>4 DEF Seen
  <2> HIDE DEF E, X
  <2> QED BY <2>4, <2>5, <2>6 DEF Follows
<1>6. CASE i.kind \in ComputeKinds
  <2>1. j.kind \in {"FrontDoorOrigin", "APIMBackend"} /\ i.id \in j.refs
    BY <1>6 DEF Reaches, Along, Back, ComputeKinds
  <2>2. Resolves(R, G, j, i)
    BY <1>2, <1>4, <1>6, <2>1
       DEF Resolves, OfKind, AzureIngressKinds, ResourceKinds
  <2>3. Rel("RESOLVES_TO", j.id, i.id) \in E
    BY <2>2, AzureWays
  <2>4. i \in X
    BY <2>2 DEF Resolves, Seen
  <2> HIDE DEF E, X
  <2> QED BY <2>3, <2>4 DEF Follows, AzureTravels
<1>7. CASE i.kind = "PrivateEndpoint"
  <2>1. j.kind \in ComputeKinds /\ j.id \in i.refs
    BY <1>7 DEF Reaches, Along, Back, ComputeKinds
  <2>2. Connects(T, j.id, i)
    BY <1>2, <1>7, <2>1 DEF Connects, OfKind, NetworkKinds, Named
  <2>3. Rel("HAS_PRIVATE_ENDPOINT", j.id, i.id) \in E
    BY <2>2, AzureWays
  <2>4. i \in X
    BY <2>2 DEF Connects, Seen, Placed, OfKind
  <2> HIDE DEF E, X
  <2> QED BY <2>3, <2>4 DEF Follows, AzureTravels
<1>8. CASE i.kind = "Subnet"
  <2>1. j.kind \in {"PrivateEndpoint", "WebApp"} /\ i.id \in j.refs
    BY <1>8 DEF Reaches, Along, Back, ComputeKinds
  <2>2. Deployed(R, T, j, i)
    BY <1>2, <1>4, <1>8, <2>1 DEF Deployed, OfKind, ResourceKinds
  <2>3. Rel("DEPLOYED_IN", j.id, i.id) \in E
    BY <2>2, AzureWays
  <2>4. i \in X
    BY <2>2 DEF Deployed, Seen, Placed, OfKind
  <2> HIDE DEF E, X
  <2> QED BY <2>3, <2>4 DEF Follows, AzureTravels
<1> QED BY <1>3, <1>5, <1>6, <1>7, <1>8

-----------------------------------------------------------------------------
(* The graph of Azure.                                                     *)

Covers(N, kinds, items) ==
    \A i \in OfKind(Facing(items) \cup Reachable(items), kinds) :
        \E n \in N : n.id = i.id /\ n.exposed

Confirmed(N, kinds, items) ==
    \A n \in N : n # InternetNode =>
        /\ \E i \in OfKind(Items, kinds) : i.id = n.id
        /\ n.exposed => n.id \in Exposed(items)

\* A node, before the search: of an item of these kinds, with what it has.
From(n, kinds, items) ==
    \/ n = InternetNode
    \/ \E i \in OfKind(items, kinds) : Like(n, i)

\* What flags the nodes of Azure before the search.
LEMMA AzureStart ==
    ASSUME NEW steady, NEW ever, ever \subseteq Items, NEW Er, Moment(Er, steady, ever),
           NEW Eg, Moment(Eg, steady, ever), NEW Et, Moment(Et, steady, ever),
           NEW Ew, Moment(Ew, steady, ever), NEW W, W = OfKind(Ew, IdentityKinds),
           NEW R, R = OfKind(Er, ResourceKinds), NEW G, G = IngressGraph(Eg),
           NEW T, T = OfKind(Et, NetworkKinds), NEW n \in AzureNodes(R, G, T, W)
    PROVE  /\ From(n, AzureKinds, ever)
           /\ n.exposed => n = InternetNode \/ n.id \in Exposed(ever)
<1>1. /\ Er \subseteq ever /\ Eg \subseteq ever /\ Et \subseteq ever /\ Ew \subseteq ever
      /\ IsFiniteSet(ever)
  BY ItemsFinite, FS_Subset DEF Moment
<1>2. IdentityKinds \cup NetworkKinds \cup ResourceKinds \cup AzureIngressKinds = AzureKinds
  BY DEF AzureKinds
<1> DEFINE Ok(m) == /\ From(m, AzureKinds, ever)
                    /\ m.exposed => m = InternetNode \/ m.id \in Exposed(ever)
<1>3. ASSUME NEW i \in ever, i.kind \in AzureKinds, NEW x, x => i.id \in Exposed(ever)
      PROVE  Ok(Node(i, x))
  BY <1>3 DEF From, Like, Node, OfKind
<1>4. Ok(InternetNode)
  BY DEF From
<1>5. ASSUME NEW m \in IngressNodes(G) PROVE Ok(m)
  <2>1. PICK i \in G : m = Node(i, \/ i.kind \in {"FrontDoorProfile", "FrontDoorEndpoint",
                                                  "TrafficManagerProfile", "AppGateway"}
                                   \/ i.kind = "APIManagementService" /\ i.open)
    BY Zenon DEF IngressNodes
  <2>2. i \in Eg /\ i.kind \in AzureIngressKinds
    BY IngressOfKinds
  <2>3. i.kind \in DoorKinds => i \in Reachable(ever)
    BY <1>1, DoorsAreReachable
  <2>4. i.kind = "AppGateway" \/ (i.kind = "APIManagementService" /\ i.open)
           => i \in Facing(ever)
    BY <1>1, <2>2 DEF Facing, Entrances
  <2>5. (\/ i.kind \in {"FrontDoorProfile", "FrontDoorEndpoint",
                        "TrafficManagerProfile", "AppGateway"}
         \/ i.kind = "APIManagementService" /\ i.open) => i.id \in Exposed(ever)
    BY <2>3, <2>4 DEF Exposed, DoorKinds
  <2>6. i \in ever /\ i.kind \in AzureKinds
    BY <1>1, <1>2, <2>2
  <2> HIDE DEF Ok
  <2> QED BY <1>3, <2>1, <2>5, <2>6, Zenon
<1>6. ASSUME NEW m \in BuildComputeNodes(R) \cup NetworkNodes(R, T) \cup IdentityNodes(W)
      PROVE  Ok(m)
  <2>1. PICK i \in R \cup T \cup W : m = Node(i, FALSE)
    BY DEF BuildComputeNodes, NetworkNodes, IdentityNodes, OfKind
  <2>2. i \in ever /\ i.kind \in AzureKinds
    BY <1>1, <1>2 DEF OfKind
  <2> HIDE DEF Ok
  <2> QED BY <1>3, <2>1, <2>2
<1>7. \A m \in Known(R, G, T) : Ok(m)
  BY <1>4, <1>5, <1>6 DEF Known
<1>8. ASSUME NEW m \in FirewallExposed(Known(R, G, T), T) PROVE Ok(m)
  <2>1. PICK k \in Known(R, G, T) :
           m = IF \E f \in OfKind(T, {"StorageAccount"}) : f.id = k.id /\ f.open
               THEN [k EXCEPT !.exposed = TRUE] ELSE k
    BY DEF FirewallExposed
  <2>2. CASE \E f \in OfKind(T, {"StorageAccount"}) : f.id = k.id /\ f.open
    <3>1. PICK f \in OfKind(T, {"StorageAccount"}) : f.id = k.id /\ f.open
      BY <2>2
    <3>2. f \in ever /\ f \in Facing(ever) /\ f.id # Internet
      BY <1>1, <3>1, ItemAssumption DEF OfKind, Facing, Ids
    <3>3. k.id \in Exposed(ever)
      BY <3>1, <3>2 DEF Exposed
    <3>4. k # InternetNode
      BY <3>1, <3>2 DEF InternetNode
    <3>5. PICK i \in OfKind(ever, AzureKinds) : Like(k, i)
      BY <1>7, <3>4 DEF From
    <3>6. /\ m.id = k.id /\ m.kind = k.kind /\ m.refs = k.refs /\ m.open = k.open
      BY <2>1, <2>2
    <3> QED BY <3>3, <3>5, <3>6 DEF From, Like
  <2>3. CASE ~\E f \in OfKind(T, {"StorageAccount"}) : f.id = k.id /\ f.open
    BY <1>7, <2>1, <2>3
  <2> QED BY <2>2, <2>3
<1>9. Ok(n)
  <2> HIDE DEF Ok
  <2> QED BY <1>6, <1>8 DEF AzureNodes
<1> QED BY <1>9

LEMMA SeenHasNode ==
    ASSUME NEW R, NEW G, NEW T, NEW W, NEW i \in Seen(R, G, T)
    PROVE  \E n \in AzureNodes(R, G, T, W) : Like(n, i)
<1>1. PICK k \in Known(R, G, T) : Like(k, i)
  <2>1. CASE i \in G
    <3>1. Within(G, IngressNodes(G))
      BY NodesAreOfItems DEF NodesOf
    <3> QED BY <2>1, <3>1 DEF Within, Known, Like
  <2>2. CASE i \in OfKind(R, ComputeKinds)
    <3>1. Within(OfKind(R, ComputeKinds), BuildComputeNodes(R))
      BY NodesAreOfItems DEF NodesOf
    <3> QED BY <2>2, <3>1 DEF Within, Known, Like
  <2>3. CASE i \in Placed(R, T)
    <3>1. Within(Placed(R, T), NetworkNodes(R, T))
      BY NodesAreOfItems DEF NodesOf
    <3> QED BY <2>3, <3>1 DEF Within, Known, Like
  <2> QED BY <2>1, <2>2, <2>3 DEF Seen
<1> DEFINE n == IF \E f \in OfKind(T, {"StorageAccount"}) : f.id = k.id /\ f.open
                THEN [k EXCEPT !.exposed = TRUE] ELSE k
<1>2. n \in FirewallExposed(Known(R, G, T), T)
  BY DEF FirewallExposed
<1>3. Like(n, i)
  BY <1>1 DEF Like
<1> QED BY <1>2, <1>3 DEF AzureNodes

LEMMA FiveAreFinite ==
    ASSUME NEW a, NEW b, NEW c, NEW d, NEW e PROVE IsFiniteSet({a, b, c, d, e})
<1>1. IsFiniteSet({a} \cup {b})
  BY FS_Singleton, FS_Union
<1>2. IsFiniteSet(({a} \cup {b}) \cup {c})
  BY <1>1, FS_Singleton, FS_Union
<1>3. IsFiniteSet({d} \cup {e})
  BY FS_Singleton, FS_Union
<1>4. IsFiniteSet((({a} \cup {b}) \cup {c}) \cup ({d} \cup {e}))
  BY <1>2, <1>3, FS_Union
<1>5. {a, b, c, d, e} = (({a} \cup {b}) \cup {c}) \cup ({d} \cup {e})
  OBVIOUS
<1> QED BY <1>4, <1>5

LEMMA TravelsFinite == IsFiniteSet(AzureTravels) /\ IsFiniteSet(AwsTravels)
<1> DEFINE A == {"ROUTES_TO", "HAS_ENDPOINT", "HAS_ROUTE", "HAS_ORIGIN_GROUP", "HAS_ORIGIN"}
           B == {"EXPOSES_API", "HAS_BACKEND", "RESOLVES_TO", "DEPLOYED_IN",
                 "HAS_PRIVATE_ENDPOINT"}
           C == {"ROUTES_TO", "DISTRIBUTES_TO", "HAS_LISTENER", "FORWARDS_TO", "RESOLVES_TO"}
<1>1. IsFiniteSet(A) /\ IsFiniteSet(B) /\ IsFiniteSet(C)
  BY FiveAreFinite
<1>2. AzureTravels = A \cup B /\ AwsTravels \subseteq C \cup B
  BY DEF AzureTravels, AwsTravels
<1> HIDE DEF A, B, C
<1>3. IsFiniteSet(A \cup B) /\ IsFiniteSet(C \cup B)
  BY <1>1, FS_Union
<1> QED BY <1>2, <1>3, FS_Subset

LEMMA AzureShows ==
    ASSUME NEW steady, NEW ever, ever \subseteq Items, NEW Er, Moment(Er, steady, ever),
           NEW Eg, Moment(Eg, steady, ever), NEW Et, Moment(Et, steady, ever),
           NEW Ew, Moment(Ew, steady, ever), NEW W, W = OfKind(Ew, IdentityKinds),
           NEW R, R = OfKind(Er, ResourceKinds), NEW G, G = IngressGraph(Eg),
           NEW T, T = OfKind(Et, NetworkKinds)
    PROVE  /\ Covers(Build(R, G, T, W).nodes, AzureKinds, steady)
           /\ Confirmed(Build(R, G, T, W).nodes, AzureKinds, ever)
<1> DEFINE X == Seen(R, G, T)
           E == AzureEdges(R, G, T, W)
           V == Visited(Travelled(E, AzureTravels), {Internet})
           M == AzureNodes(R, G, T, W)
           N == Build(R, G, T, W).nodes
           Flag(m) == m.exposed \/ m.id \in V \/ (m.kind = "NetworkSecurityGroup" /\ m.open)
<1>1. /\ steady \subseteq ever /\ steady \subseteq Er /\ steady \subseteq Eg
      /\ steady \subseteq Et /\ steady \subseteq Items
      /\ IsFiniteSet(ever) /\ IsFiniteSet(steady)
  BY ItemsFinite, FS_Subset DEF Moment
<1>2. IsFiniteSet(AzureTravels)
  BY TravelsFinite
<1>3. /\ \A e \in Travelled(E, AzureTravels) : Plain(e)
      /\ \A e \in Travelled(E, AzureTravels) : Right(e, X, Reachable(ever))
  BY AzureWaysRight
<1>4. X \subseteq Items /\ X \subseteq ever
  BY SeenIsUnique
<1>5. N = {[m EXCEPT !.exposed = \/ @
                                 \/ m.id \in V
                                 \/ m.kind = "NetworkSecurityGroup" /\ m.open] : m \in M}
  <2>1. N = DeriveInternetExposure(M, E)
    BY BuildIs
  <2> HIDE DEF M, E, N
  <2> QED BY <2>1, Zenon DEF DeriveInternetExposure
<1>6. \A id \in V : id = Internet \/ id \in Exposed(ever)
  <2> HIDE DEF E, X
  <2>1. \A id \in V : id = Internet \/ \E a \in X \cap Reachable(ever) : a.id = id
    BY <1>2, <1>3, <1>4, SearchIsRight
  <2> QED BY <2>1 DEF Exposed
<1>7. \A i \in OfKind(Reachable(steady), AzureKinds) : i \in X /\ i.id \in V
  <2>1. ASSUME NEW i \in OfKind(Entrances(steady), AzureKinds) PROVE i \in X /\ i.id \in V
    <3>1. /\ i \in steady
          /\ \/ i.kind \in {"FrontDoorProfile", "TrafficManagerProfile"}
             \/ i.kind = "APIManagementService" /\ i.open
      BY DEF OfKind, Entrances, AzureKinds, AzureIngressKinds, ResourceKinds, ComputeKinds,
             NetworkKinds, IdentityKinds
    <3>2. i \in G
      BY <1>1, <3>1, IngressRoots
    <3>3. Rel("ROUTES_TO", Internet, i.id) \in BuildIngressEdges(G)
      <4>1. i \in OfKind(G, {"FrontDoorProfile"}) \cup OfKind(G, {"TrafficManagerProfile"})
                  \cup {n \in OfKind(G, {"APIManagementService"}) : n.open}
        BY <3>1, <3>2 DEF OfKind
      <4> QED BY <4>1 DEF BuildIngressEdges
    <3>4. Rel("ROUTES_TO", Internet, i.id) \in Travelled(E, AzureTravels)
      <4>1. Rel("ROUTES_TO", Internet, i.id) \in E
        BY <3>3, AzureWays
      <4> HIDE DEF E
      <4> QED BY <4>1 DEF Travelled, Rel, AzureTravels
    <3> HIDE DEF E
    <3>5. Rel("ROUTES_TO", Internet, i.id).source \in V
              => Rel("ROUTES_TO", Internet, i.id).target \in V
      BY <1>2, <1>3, <3>4, WaysFinite, VisitedIsClosed
    <3>6. Internet \in V
      BY <1>2, <1>3, WaysFinite, VisitedIsClosed
    <3> QED BY <3>2, <3>5, <3>6 DEF Rel, Seen
  <2>2. \A i \in OfKind(steady, AzureKinds) : \A j \in steady :
           Reaches(steady, j, i) =>
              j.kind \in AzureKinds /\ (j \in X => Follows(j, i, X, E, AzureTravels))
    BY AzureFollows DEF OfKind
  <2> HIDE DEF X, E
  <2> QED BY <1>1, <1>2, <1>3, <2>1, <2>2, SearchIsComplete
<1> HIDE DEF V, M, N, X, E
<1>8. ASSUME NEW m \in M PROVE \E n \in N : n.id = m.id /\ (Flag(m) => n.exposed)
  <2> DEFINE n == [m EXCEPT !.exposed = \/ @
                                        \/ m.id \in V
                                        \/ m.kind = "NetworkSecurityGroup" /\ m.open]
  <2>1. n \in N
    BY <1>5, Zenon
  <2>2. n.id = m.id /\ (Flag(m) => n.exposed)
    OBVIOUS
  <2> HIDE DEF n
  <2> QED BY <2>1, <2>2
<1>9. ASSUME NEW i \in OfKind(Facing(steady) \cup Reachable(steady), AzureKinds)
      PROVE  \E n \in N : n.id = i.id /\ n.exposed
  <2>1. CASE i \in Reachable(steady)
    <3>1. i \in X /\ i.id \in V
      BY <1>7, <2>1 DEF OfKind
    <3>2. PICK m \in M : Like(m, i)
      BY <3>1, SeenHasNode DEF X, M
    <3> QED BY <1>8, <3>1, <3>2 DEF Like
  <2>2. CASE i \notin Reachable(steady)
    <3>1. Entrances(steady) \subseteq Reachable(steady)
      BY <1>1, ReachableIsClosed
    <3>2. /\ i \in steady
          /\ \/ i.kind = "AppGateway"
             \/ i.kind \in {"NetworkSecurityGroup", "StorageAccount"} /\ i.open
      BY <2>2, <3>1 DEF OfKind, Facing, AzureKinds, AzureIngressKinds, ResourceKinds,
                        ComputeKinds, NetworkKinds, IdentityKinds
    <3>3. CASE i.kind = "AppGateway"
      <4>1. i \in G
        BY <1>1, <3>2, <3>3, IngressRoots
      <4> DEFINE m == Node(i, \/ i.kind \in {"FrontDoorProfile", "FrontDoorEndpoint",
                                             "TrafficManagerProfile", "AppGateway"}
                              \/ i.kind = "APIManagementService" /\ i.open)
      <4>2. m \in Known(R, G, T)
        BY <4>1 DEF Known, IngressNodes
      <4>3. m.id = i.id /\ m.exposed
        BY <3>3 DEF Node
      <4> HIDE DEF m
      <4>4. PICK k \in M : k.id = i.id /\ k.exposed
        <5> DEFINE k == IF \E f \in OfKind(T, {"StorageAccount"}) : f.id = m.id /\ f.open
                        THEN [m EXCEPT !.exposed = TRUE] ELSE m
        <5>1. k \in M
          BY <4>2 DEF M, AzureNodes, FirewallExposed
        <5>2. k.id = i.id /\ k.exposed
          BY <4>3
        <5> QED BY <5>1, <5>2
      <4> QED BY <1>8, <4>4
    <3>4. CASE i.kind = "NetworkSecurityGroup" /\ i.open
      <4>1. i \in X
        BY <1>1, <3>2, <3>4 DEF X, Seen, Placed, OfKind, NetworkKinds
      <4>2. PICK m \in M : Like(m, i)
        BY <4>1, SeenHasNode DEF X, M
      <4>3. Flag(m) /\ m.id = i.id
        BY <3>4, <4>2 DEF Like
      <4> QED BY <1>8, <4>3
    <3>5. CASE i.kind = "StorageAccount" /\ i.open
      <4>1. i \in OfKind(R, ComputeKinds) /\ i \in OfKind(T, {"StorageAccount"})
        BY <1>1, <3>2, <3>5 DEF OfKind, ResourceKinds, ComputeKinds, NetworkKinds
      <4> DEFINE m == Node(i, FALSE)
      <4>2. m \in Known(R, G, T) /\ m.id = i.id
        BY <4>1 DEF Known, BuildComputeNodes, Node
      <4>3. \E f \in OfKind(T, {"StorageAccount"}) : f.id = m.id /\ f.open
        BY <3>5, <4>1, <4>2
      <4> DEFINE k == [m EXCEPT !.exposed = TRUE]
      <4>4. k \in FirewallExposed(Known(R, G, T), T)
        <5>1. k = IF \E f \in OfKind(T, {"StorageAccount"}) : f.id = m.id /\ f.open
                  THEN [m EXCEPT !.exposed = TRUE] ELSE m
          BY <4>3
        <5> HIDE DEF k, m
        <5> QED BY <4>2, <5>1 DEF FirewallExposed
      <4>5. k.id = i.id /\ k.exposed
        BY DEF Node
      <4>6. k \in M
        BY <4>4 DEF M, AzureNodes
      <4> HIDE DEF k, m
      <4> QED BY <1>8, <4>5, <4>6
    <3> QED BY <3>2, <3>3, <3>4, <3>5
  <2> QED BY <2>1, <2>2
<1>10. ASSUME NEW n \in N, n # InternetNode
       PROVE  /\ \E i \in OfKind(Items, AzureKinds) : i.id = n.id
              /\ n.exposed => n.id \in Exposed(ever)
  <2>1. PICK m \in M : n = [m EXCEPT !.exposed = \/ @
                                                 \/ m.id \in V
                                                 \/ m.kind = "NetworkSecurityGroup" /\ m.open]
    BY <1>5
  <2>2. /\ From(m, AzureKinds, ever)
        /\ m.exposed => m = InternetNode \/ m.id \in Exposed(ever)
    BY AzureStart DEF M
  <2>3. m # InternetNode
    <3> SUFFICES ASSUME m = InternetNode PROVE n = InternetNode
      BY <1>10
    <3> QED BY <2>1 DEF InternetNode
  <2>4. PICK i \in OfKind(ever, AzureKinds) : Like(m, i)
    BY <2>2, <2>3 DEF From
  <2>5. i \in Items /\ i.id \in Ids /\ i.id # Internet /\ n.id = i.id /\ m.id = i.id
    BY <2>1, <2>4, ItemAssumption DEF OfKind, Like, Ids
  <2>6. n.exposed => m.exposed \/ m.id \in V \/ (i.kind = "NetworkSecurityGroup" /\ i.open)
    BY <2>1, <2>4 DEF Like
  <2>7. i.kind = "NetworkSecurityGroup" /\ i.open => i.id \in Exposed(ever)
    BY <2>4 DEF OfKind, Exposed, Facing
  <2>8. n.exposed => n.id \in Exposed(ever)
    BY <1>6, <2>2, <2>3, <2>5, <2>6, <2>7
  <2> QED BY <2>4, <2>5, <2>8 DEF OfKind
<1> QED BY <1>9, <1>10 DEF Covers, Confirmed, N

-----------------------------------------------------------------------------
(* AWS, the same: one moment, and what is flagged leads on.                *)

AwsEntry(E) == AwsIngressNodes(OfKind(E, AwsIngressKinds))
AwsPlaces(E) == AwsNetworkNodes(OfKind(E, AwsNetworkKinds))
AwsWho(E) == AwsIdentityNodes(OfKind(E, AwsIdentityKinds))

AwsEdges(E) == BuildAWSIngressEdges(AwsEntry(E))
               \cup BuildAWSNetworkEdges(AwsPlaces(E))
               \cup BuildAWSIdentityEdges(AwsWho(E), AwsPlaces(E))

LEMMA AwsNodesAreOfItems ==
    ASSUME NEW E
    PROVE  /\ NodesOf(AwsEntry(E), OfKind(E, AwsIngressKinds))
           /\ NodesOf(AwsPlaces(E), OfKind(E, AwsNetworkKinds))
           /\ NodesOf(AwsWho(E), OfKind(E, AwsIdentityKinds))
<1>1. ASSUME NEW S PROVE OfKind(OfKind(E, S), S) = OfKind(E, S)
  BY DEF OfKind
<1>2. /\ AwsEntry(E) = {Node(i, FALSE) : i \in OfKind(E, AwsIngressKinds)}
      /\ AwsPlaces(E) = {Node(i, FALSE) : i \in OfKind(E, AwsNetworkKinds)}
      /\ AwsWho(E) = {Node(i, FALSE) : i \in OfKind(E, AwsIdentityKinds)}
  BY <1>1 DEF AwsEntry, AwsPlaces, AwsWho, AwsIngressNodes, AwsNetworkNodes, AwsIdentityNodes
<1> QED BY <1>2, UnflaggedNodes

Passive == {"VPCEndpoint", "NATGateway", "EC2Instance", "LambdaFunction", "ECSService"}

\* A node of a kind is of an item of that kind, and the other way.
LEMMA AwsItemOf ==
    ASSUME NEW E
    PROVE  /\ \A n \in AwsEntry(E) \cup AwsPlaces(E) \cup AwsWho(E) :
                 \E i \in OfKind(E, AwsKinds) : Like(n, i)
           /\ \A i \in OfKind(E, AwsIngressKinds) : \E n \in AwsEntry(E) : Like(n, i)
           /\ \A i \in OfKind(E, AwsNetworkKinds) : \E n \in AwsPlaces(E) : Like(n, i)
           /\ \A i \in OfKind(E, AwsIdentityKinds) : \E n \in AwsWho(E) : Like(n, i)
<1>1. /\ Within(AwsEntry(E), OfKind(E, AwsIngressKinds))
      /\ Within(AwsPlaces(E), OfKind(E, AwsNetworkKinds))
      /\ Within(AwsWho(E), OfKind(E, AwsIdentityKinds))
      /\ Within(OfKind(E, AwsIngressKinds), AwsEntry(E))
      /\ Within(OfKind(E, AwsNetworkKinds), AwsPlaces(E))
      /\ Within(OfKind(E, AwsIdentityKinds), AwsWho(E))
  BY AwsNodesAreOfItems DEF NodesOf
<1>2. \A n, i : Like(n, i) => Like(i, n)
  BY DEF Like
<1> QED BY <1>1, <1>2 DEF Within, OfKind, AwsKinds

AwsWay(E, e) ==
    \/ \E b \in OfKind(E, AwsKinds) : b \in Entrances(E) /\ e = Rel("ROUTES_TO", Internet, b.id)
    \/ \E a, b \in OfKind(E, AwsKinds) :
          /\ a.kind \in Passive \/ Reaches(E, a, b)
          /\ e = Rel(e.type, a.id, b.id)

LEMMA AwsIngressWays ==
    ASSUME NEW E, NEW e \in BuildAWSIngressEdges(AwsEntry(E)), e.type \in AwsTravels
    PROVE  AwsWay(E, e)
<1> DEFINE N == AwsEntry(E)
           K(kind) == OfKind(N, {kind})
           Starts == K("CloudFrontDistribution") \cup K("APIGatewayV2Api")
                     \cup {m \in K("ALB") \cup K("APIGatewayRestApi") : m.open}
           Shares(a, t) == \E r \in a.refs \cap t.refs : Named(r, {"VPC"})
<1>1. \A n \in N : \E i \in OfKind(E, AwsKinds) : Like(n, i)
  BY AwsItemOf
<1> HIDE DEF N
<1>2. \/ \E n \in Starts : e = Rel("ROUTES_TO", Internet, n.id)
      \/ \E n \in K("CloudFrontDistribution"), m \in K("ALB") :
            m.id \in n.refs /\ e = Rel("DISTRIBUTES_TO", n.id, m.id)
      \/ \E n \in K("ALB"), m \in K("ALBListener") :
            n.id \in m.refs /\ e = Rel("HAS_LISTENER", n.id, m.id)
      \/ \E n \in K("ALBListener"), m \in K("ALBTargetGroup"), a \in K("ALB") :
            /\ a.id \in n.refs /\ Shares(a, m)
            /\ e = Rel("FORWARDS_TO", n.id, m.id)
  <2>1. e.type # "PROTECTED_BY"
    BY DEF AwsTravels
  <2>2. \A t, s, u : Rel(t, s, u).type = t
    BY DEF Rel
  <2>3. \/ \E n \in Starts : e = Rel("ROUTES_TO", Internet, n.id)
        \/ \E S, T : e \in PointsTo("PROTECTED_BY", S, T)
        \/ e \in PointsTo("DISTRIBUTES_TO", K("CloudFrontDistribution"), K("ALB"))
        \/ e \in Holds("HAS_LISTENER", K("ALB"), K("ALBListener"))
        \/ \E s, t : e = Rel("PROTECTED_BY", s, t)
        \/ \E n \in K("ALBListener"), m \in K("ALBTargetGroup"), a \in K("ALB") :
              /\ a.id \in n.refs /\ Shares(a, m)
              /\ e = Rel("FORWARDS_TO", n.id, m.id)
    BY DEF BuildAWSIngressEdges, N
  <2>4. \A S, T : e \notin PointsTo("PROTECTED_BY", S, T)
    BY <2>1, <2>2, PointsToIs
  <2> HIDE DEF K, Starts, Shares
  <2>5. \A s, t : e # Rel("PROTECTED_BY", s, t)
    BY <2>1, <2>2
  <2>6. e \in PointsTo("DISTRIBUTES_TO", K("CloudFrontDistribution"), K("ALB")) =>
           \E n \in K("CloudFrontDistribution"), m \in K("ALB") :
              m.id \in n.refs /\ e = Rel("DISTRIBUTES_TO", n.id, m.id)
    BY PointsToIs
  <2>7. e \in Holds("HAS_LISTENER", K("ALB"), K("ALBListener")) =>
           \E n \in K("ALB"), m \in K("ALBListener") :
              n.id \in m.refs /\ e = Rel("HAS_LISTENER", n.id, m.id)
    BY HoldsIs
  <2> QED BY <2>3, <2>4, <2>5, <2>6, <2>7
<1>3. CASE \E n \in Starts : e = Rel("ROUTES_TO", Internet, n.id)
  <2>1. PICK n \in Starts : e = Rel("ROUTES_TO", Internet, n.id)
    BY <1>3
  <2>2. PICK i \in OfKind(E, AwsKinds) : Like(n, i)
    BY <1>1 DEF OfKind
  <2>3. i \in Entrances(E)
    BY <2>2 DEF OfKind, Like, Entrances
  <2> QED BY <2>1, <2>2, <2>3 DEF AwsWay, Like
<1>4. ASSUME NEW n \in N, NEW m \in N, NEW t, e = Rel(t, n.id, m.id),
             \A a, b \in OfKind(E, AwsKinds) :
                Like(n, a) /\ Like(m, b) => Reaches(E, a, b)
      PROVE  AwsWay(E, e)
  <2>1. PICK a \in OfKind(E, AwsKinds) : Like(n, a)
    BY <1>1
  <2>2. PICK b \in OfKind(E, AwsKinds) : Like(m, b)
    BY <1>1
  <2>3. e = Rel(e.type, a.id, b.id)
    BY <1>4, <2>1, <2>2 DEF Like, Rel
  <2> QED BY <1>4, <2>1, <2>2, <2>3 DEF AwsWay
<1>5. CASE \E n \in K("CloudFrontDistribution"), m \in K("ALB") :
              m.id \in n.refs /\ e = Rel("DISTRIBUTES_TO", n.id, m.id)
  <2>1. PICK n \in K("CloudFrontDistribution"), m \in K("ALB") :
              m.id \in n.refs /\ e = Rel("DISTRIBUTES_TO", n.id, m.id)
    BY <1>5
  <2>2. \A a, b : Like(n, a) /\ Like(m, b) => Reaches(E, a, b)
    BY <2>1 DEF OfKind, Like, Reaches, Along
  <2> QED BY <1>4, <2>1, <2>2 DEF OfKind
<1>6. CASE \E n \in K("ALB"), m \in K("ALBListener") :
              n.id \in m.refs /\ e = Rel("HAS_LISTENER", n.id, m.id)
  <2>1. PICK n \in K("ALB"), m \in K("ALBListener") :
              n.id \in m.refs /\ e = Rel("HAS_LISTENER", n.id, m.id)
    BY <1>6
  <2>2. \A a, b : Like(n, a) /\ Like(m, b) => Reaches(E, a, b)
    BY <2>1 DEF OfKind, Like, Reaches, Back
  <2> QED BY <1>4, <2>1, <2>2 DEF OfKind
<1>7. CASE \E n \in K("ALBListener"), m \in K("ALBTargetGroup"), a \in K("ALB") :
              /\ a.id \in n.refs /\ Shares(a, m)
              /\ e = Rel("FORWARDS_TO", n.id, m.id)
  <2>1. PICK n \in K("ALBListener"), m \in K("ALBTargetGroup"), a \in K("ALB") :
              /\ a.id \in n.refs /\ Shares(a, m)
              /\ e = Rel("FORWARDS_TO", n.id, m.id)
    BY <1>7
  <2>2. PICK s \in OfKind(E, AwsKinds) : Like(a, s)
    BY <1>1, <2>1 DEF OfKind
  <2>3. s \in OfKind(E, {"ALB"}) /\ s.id \in n.refs
        /\ \E v \in s.refs \cap m.refs : Named(v, {"VPC"})
    BY <2>1, <2>2 DEF OfKind, Like
  <2>4. \A i, b : Like(n, i) /\ Like(m, b) => Reaches(E, i, b)
    BY <2>1, <2>3 DEF OfKind, Like, Reaches
  <2> QED BY <1>4, <2>1, <2>4 DEF OfKind
<1> QED BY <1>2, <1>3, <1>5, <1>6, <1>7

LEMMA AwsIdleWays ==
    ASSUME NEW E, NEW e \in BuildAWSNetworkEdges(AwsPlaces(E))
                            \cup BuildAWSIdentityEdges(AwsWho(E), AwsPlaces(E)),
           e.type \in AwsTravels
    PROVE  AwsWay(E, e)
<1> DEFINE N == AwsPlaces(E)
           W == AwsWho(E)
           Idlers == OfKind(N \cup W, Passive)
           Other == {"CONTAINS", "PEERED_WITH", "HAS_VPC_ENDPOINT", "CONNECTS_TO", "HAS_ROLE",
                     "ASSIGNED_IDENTITY", "ASSUMES_ROLE", "PROTECTED_BY"}
<1>1. \A n \in N \cup W : \E i \in OfKind(E, AwsKinds) : Like(n, i)
  BY AwsItemOf
<1> HIDE DEF N, W
<1>2. Other \cap AwsTravels = {}
  BY DEF AwsTravels
<1>3. \A t, s, u : Rel(t, s, u).type = t
  BY DEF Rel
<1>4. /\ \A t, S, T : e \in PointsTo(t, S, T) => e.type = t
      /\ \A t, S, T : e \in Holds(t, S, T) => e.type = t
  BY <1>3, HoldsIs, PointsToIs
<1>5. \/ \E t \in Other : \/ \E S, T : e \in PointsTo(t, S, T)
                        \/ \E S, T : e \in Holds(t, S, T)
                        \/ \E s, u : e = Rel(t, s, u)
      \/ \E S \in SUBSET Idlers : e \in PointsTo("DEPLOYED_IN", S, OfKind(N, {"AWSSubnet"}))
  <2>1. CASE e \in BuildAWSNetworkEdges(N)
    <3>1. \/ \E S, T : e \in Holds("CONTAINS", S, T)
          \/ \E s, u : e = Rel("PEERED_WITH", s, u)
          \/ \E S, T : e \in Holds("HAS_VPC_ENDPOINT", S, T)
          \/ \E s, u : e = Rel("CONNECTS_TO", s, u)
          \/ e \in PointsTo("DEPLOYED_IN", OfKind(N, {"VPCEndpoint"}) \cup OfKind(N, {"NATGateway"}),
                            OfKind(N, {"AWSSubnet"}))
      BY <2>1, Zenon DEF BuildAWSNetworkEdges
    <3>2. OfKind(N, {"VPCEndpoint"}) \cup OfKind(N, {"NATGateway"}) \subseteq Idlers
      BY DEF OfKind, Passive
    <3>3. {"CONTAINS", "PEERED_WITH", "HAS_VPC_ENDPOINT", "CONNECTS_TO"} \subseteq Other
      OBVIOUS
    <3> HIDE DEF Other, Idlers
    <3> QED BY <3>1, <3>2, <3>3
  <2>2. CASE e \in BuildAWSIdentityEdges(W, N)
    <3> DEFINE Workloads == OfKind(W, {"EC2Instance"}) \cup OfKind(W, {"LambdaFunction"})
                            \cup OfKind(W, {"ECSService"})
    <3>1. \/ \E S, T : e \in PointsTo("HAS_ROLE", S, T)
          \/ \E S, T : e \in PointsTo("ASSIGNED_IDENTITY", S, T)
          \/ \E S, T : e \in PointsTo("ASSUMES_ROLE", S, T)
          \/ \E S, T : e \in PointsTo("PROTECTED_BY", S, T)
          \/ e \in PointsTo("DEPLOYED_IN", Workloads, OfKind(N, {"AWSSubnet"}))
      BY <2>2, Zenon DEF BuildAWSIdentityEdges
    <3>2. Workloads \subseteq Idlers
      BY DEF OfKind, Passive
    <3>3. {"HAS_ROLE", "ASSIGNED_IDENTITY", "ASSUMES_ROLE", "PROTECTED_BY"} \subseteq Other
      OBVIOUS
    <3> HIDE DEF Other, Idlers, Workloads
    <3> QED BY <3>1, <3>2, <3>3
  <2> QED BY <2>1, <2>2 DEF N, W
<1>6. PICK S \in SUBSET Idlers : e \in PointsTo("DEPLOYED_IN", S, OfKind(N, {"AWSSubnet"}))
  <2> HIDE DEF Other, Idlers
  <2>1. e.type \notin Other
    BY <1>2
  <2>4. \A t, s, u : e = Rel(t, s, u) => e.type = t
    BY <1>3
  <2> QED BY <1>4, <1>5, <2>1, <2>4
<1>7. PICK n \in S, m \in OfKind(N, {"AWSSubnet"}) :
         m.id \in n.refs /\ e = Rel("DEPLOYED_IN", n.id, m.id)
  BY <1>6, PointsToIs
<1>8. n \in N \cup W /\ n.kind \in Passive /\ m \in N
  BY <1>6, <1>7 DEF OfKind
<1>9. PICK a \in OfKind(E, AwsKinds) : Like(n, a)
  BY <1>1, <1>8
<1>10. PICK b \in OfKind(E, AwsKinds) : Like(m, b)
  BY <1>1, <1>8
<1>11. a.kind \in Passive /\ e = Rel(e.type, a.id, b.id)
  BY <1>3, <1>7, <1>8, <1>9, <1>10 DEF Like
<1> QED BY <1>9, <1>10, <1>11 DEF AwsWay

LEMMA AwsWays ==
    ASSUME NEW E, NEW e \in Travelled(AwsEdges(E), AwsTravels) PROVE AwsWay(E, e)
  BY AwsIngressWays, AwsIdleWays DEF Travelled, AwsEdges

\* An edge of AWS for all that reaches something.
LEMMA AwsFollows ==
    ASSUME NEW E, NEW j \in E, NEW i \in E, i.kind \in AwsKinds, Reaches(E, j, i)
    PROVE  /\ j.kind \in AwsKinds
           /\ Follows(j, i, OfKind(E, AwsKinds), AwsEdges(E), AwsTravels)
<1> DEFINE N == AwsEntry(E)
           K(kind) == OfKind(N, {kind})
           B == BuildAWSIngressEdges(N)
<1>1. /\ j.kind \in AwsIngressKinds /\ i.kind \in AwsIngressKinds
      /\ \/ j.kind = "CloudFrontDistribution" /\ i.kind = "ALB" /\ i.id \in j.refs
         \/ j.kind = "ALB" /\ i.kind = "ALBListener" /\ j.id \in i.refs
         \/ j.kind = "ALBListener" /\ i.kind = "ALBTargetGroup"
  BY DEF Reaches, Along, Back, AwsKinds, AwsIngressKinds, AwsNetworkKinds, AwsIdentityKinds,
         ComputeKinds
<1>2. PICK n \in N : Like(n, j)
  BY <1>1, AwsItemOf DEF OfKind
<1>3. PICK m \in N : Like(m, i)
  BY <1>1, AwsItemOf DEF OfKind
<1>4. {"DISTRIBUTES_TO", "HAS_LISTENER", "FORWARDS_TO"} \subseteq AwsTravels
  BY DEF AwsTravels
<1>5. /\ PointsTo("DISTRIBUTES_TO", K("CloudFrontDistribution"), K("ALB")) \subseteq B
      /\ Holds("HAS_LISTENER", K("ALB"), K("ALBListener")) \subseteq B
  <2> HIDE DEF N
  <2> QED BY DEF BuildAWSIngressEdges
<1>6. \E t \in AwsTravels : Rel(t, n.id, m.id) \in B
  <2>1. CASE j.kind = "CloudFrontDistribution" /\ i.kind = "ALB" /\ i.id \in j.refs
    <3>1. n \in K("CloudFrontDistribution") /\ m \in K("ALB") /\ m.id \in n.refs
      BY <1>2, <1>3, <2>1 DEF OfKind, Like
    <3> HIDE DEF K, B
    <3> QED BY <1>4, <1>5, <3>1, PointsToIs
  <2>2. CASE j.kind = "ALB" /\ i.kind = "ALBListener" /\ j.id \in i.refs
    <3>1. n \in K("ALB") /\ m \in K("ALBListener") /\ n.id \in m.refs
      BY <1>2, <1>3, <2>2 DEF OfKind, Like
    <3> HIDE DEF K, B
    <3> QED BY <1>4, <1>5, <3>1, HoldsIs
  <2>3. CASE j.kind = "ALBListener" /\ i.kind = "ALBTargetGroup"
    <3>1. PICK s \in OfKind(E, {"ALB"}) : \E v \in s.refs \cap i.refs :
                                            s.id \in j.refs /\ Named(v, {"VPC"})
      BY <2>3 DEF Reaches, Along, Back, ComputeKinds
    <3>2. PICK a \in N : Like(a, s)
      BY AwsItemOf DEF OfKind, AwsIngressKinds
    <3>3. n \in K("ALBListener") /\ m \in K("ALBTargetGroup") /\ a \in K("ALB")
          /\ a.id \in n.refs /\ \E r \in a.refs \cap m.refs : Named(r, {"VPC"})
      BY <1>2, <1>3, <2>3, <3>1, <3>2 DEF OfKind, Like
    <3>4. <<n, m>> \in {q \in K("ALBListener") \X K("ALBTargetGroup") :
                          \E x \in K("ALB") : x.id \in q[1].refs
                              /\ \E r \in x.refs \cap q[2].refs : Named(r, {"VPC"})}
      BY <3>3
    <3> HIDE DEF N
    <3>5. Rel("FORWARDS_TO", n.id, m.id) \in B
      BY <3>4 DEF BuildAWSIngressEdges
    <3> QED BY <1>4, <3>5
  <2> QED BY <1>1, <2>1, <2>2, <2>3
<1>7. B \subseteq AwsEdges(E)
  BY DEF AwsEdges
<1>8. i \in OfKind(E, AwsKinds) /\ j.kind \in AwsKinds
  BY <1>1 DEF OfKind, AwsKinds
<1> HIDE DEF B
<1> QED BY <1>2, <1>3, <1>6, <1>7, <1>8 DEF Like, Follows

Shaped(m) == m = [id |-> m.id, kind |-> m.kind, refs |-> m.refs, open |-> m.open,
                  exposed |-> m.exposed]

LEMMA Flipped ==
    ASSUME NEW m, Shaped(m), NEW b, NEW n, n = [m EXCEPT !.exposed = @ \/ b]
    PROVE  n.id = m.id /\ (n.exposed <=> m.exposed \/ b)
<1>1. n = [id |-> m.id, kind |-> m.kind, refs |-> m.refs, open |-> m.open,
           exposed |-> m.exposed \/ b]
  BY DEF Shaped
<1>2. n.id = m.id
  BY <1>1
<1>3. n.exposed = (m.exposed \/ b)
  BY <1>1, Zenon
<1> QED BY <1>2, <1>3

AwsNodes(E) == {InternetNode} \cup AwsEntry(E) \cup AwsPlaces(E) \cup AwsWho(E)

AwsFacing(E) == {n.id : n \in {m \in AwsNodes(E) :
                    \/ m.exposed
                    \/ m.kind \in {"CloudFrontDistribution", "APIGatewayV2Api"}
                    \/ m.open /\ m.kind \in {"ALB", "APIGatewayRestApi",
                                             "AWSSubnet", "SecurityGroup"}}}

AwsGraph(E) == BuildAWS(OfKind(E, AwsIngressKinds), OfKind(E, AwsNetworkKinds),
                        OfKind(E, AwsIdentityKinds))

LEMMA AwsGraphIs ==
    ASSUME NEW E
    PROVE  AwsGraph(E).nodes =
              {[n EXCEPT !.exposed = @ \/ n.id \in Visited(Travelled(AwsEdges(E), AwsTravels),
                                                           AwsFacing(E))] : n \in AwsNodes(E)}
<1>1. AwsGraph(E) = [nodes |-> DeriveAWSInternetExposure(AwsNodes(E), AwsEdges(E)),
                     edges |-> DeduplicateRelationships(AwsEdges(E))]
  BY Zenon DEF AwsGraph, BuildAWS, AwsNodes, AwsEdges, AwsEntry, AwsPlaces, AwsWho
<1>2. AwsGraph(E).nodes = DeriveAWSInternetExposure(AwsNodes(E), AwsEdges(E))
  BY <1>1
<1> QED BY <1>2, Zenon DEF DeriveAWSInternetExposure, AwsFacing

\* What is lit of AWS: within reach, or facing the internet.
AwsLit(ever) == OfKind(Reachable(ever) \cup Facing(ever), AwsKinds)

LEMMA AwsLitIsClosed ==
    ASSUME NEW ever, IsFiniteSet(ever)
    PROVE  /\ \A a \in AwsLit(ever) : \A b \in ever : Reaches(ever, a, b) => b \in AwsLit(ever)
           /\ OfKind(Entrances(ever), AwsKinds) \subseteq AwsLit(ever)
           /\ \A a \in AwsLit(ever) : a.kind \notin Passive
<1>1. /\ Entrances(ever) \subseteq Reachable(ever) /\ Reachable(ever) \subseteq ever
      /\ \A a \in Reachable(ever) : \A b \in ever : Reaches(ever, a, b) => b \in Reachable(ever)
  BY ReachableIsClosed
<1>2. ASSUME NEW a \in AwsLit(ever), NEW b \in ever, Reaches(ever, a, b)
      PROVE  b \in AwsLit(ever)
  <2>1. a.kind \in {"CloudFrontDistribution", "ALB", "ALBListener"} /\ b.kind \in AwsKinds
    BY <1>2 DEF AwsLit, OfKind, Reaches, Along, Back, AwsKinds, AwsIngressKinds,
                AwsNetworkKinds, AwsIdentityKinds, ComputeKinds
  <2>2. a \in Reachable(ever)
    BY <1>1, <2>1 DEF AwsLit, OfKind, Facing
  <2> QED BY <1>1, <1>2, <2>1, <2>2 DEF AwsLit, OfKind
<1>3. ASSUME NEW a \in Reachable(ever) PROVE a.kind \notin Passive
  <2> DEFINE S == {i \in ever : i.kind \notin Passive}
  <2>1. Entrances(ever) \subseteq S
    BY DEF Entrances, Passive
  <2>2. \A j \in S : \A i \in ever : Reaches(ever, j, i) => i \in S
    BY DEF Reaches, Along, Back, Passive, ComputeKinds
  <2>3. Reachable(ever) \subseteq S
    <3> HIDE DEF S
    <3> QED BY <2>1, <2>2, ReachableIsLeast
  <2> QED BY <2>3
<1>4. \A a \in Facing(ever) : a.kind \notin Passive
  BY DEF Facing, Entrances, Passive
<1>5. OfKind(Entrances(ever), AwsKinds) \subseteq AwsLit(ever)
  BY DEF AwsLit, OfKind, Facing
<1> QED BY <1>2, <1>3, <1>4, <1>5 DEF AwsLit, OfKind

LEMMA AwsWaysRight ==
    ASSUME NEW ever, ever \subseteq Items, NEW E, E \subseteq ever, Unique(E),
           NEW e \in Travelled(AwsEdges(E), AwsTravels)
    PROVE  Right(e, OfKind(E, AwsKinds), AwsLit(ever)) /\ Plain(e)
<1> DEFINE X == OfKind(E, AwsKinds)
           Lit == AwsLit(ever)
<1>1. IsFiniteSet(ever) /\ X \subseteq ever /\ X \subseteq Items /\ Unique(X)
  BY ItemsFinite, FS_Subset DEF OfKind, Unique
<1>2. /\ \A a \in Lit : \A b \in ever : Reaches(ever, a, b) => b \in Lit
      /\ OfKind(Entrances(ever), AwsKinds) \subseteq Lit
      /\ \A a \in Lit : a.kind \notin Passive
  BY <1>1, AwsLitIsClosed
<1>3. AwsWay(E, e)
  BY AwsWays
<1>4. CASE \E b \in X : b \in Entrances(E) /\ e = Rel("ROUTES_TO", Internet, b.id)
  <2>1. PICK b \in X : b \in Entrances(E) /\ e = Rel("ROUTES_TO", Internet, b.id)
    BY <1>4
  <2>2. b \in OfKind(Entrances(ever), AwsKinds)
    BY <2>1 DEF OfKind, Entrances
  <2> HIDE DEF X, Lit
  <2>3. Right(e, X, Lit) /\ Plain(e)
    BY <1>1, <1>2, <2>1, <2>2, RightEntrance
  <2> QED BY <2>3 DEF X, Lit
<1>5. CASE \E a, b \in X : (a.kind \in Passive \/ Reaches(E, a, b)) /\ e = Rel(e.type, a.id, b.id)
  <2>1. PICK a \in X, b \in X :
           (a.kind \in Passive \/ Reaches(E, a, b)) /\ e = Rel(e.type, a.id, b.id)
    BY <1>5
  <2> HIDE DEF X, Lit
  <2>2. CASE Reaches(E, a, b)
    <3>1. Reaches(ever, a, b)
      BY <2>2, ReachesMore
    <3>2. Right(e, X, Lit) /\ Plain(e)
      BY <1>1, <1>2, <2>1, <3>1, RightEdge
    <3> QED BY <3>2 DEF X, Lit
  <2>3. CASE a.kind \in Passive
    <3>1. \A c \in X \cap Lit : c.id # a.id
      BY <1>1, <1>2, <2>1, <2>3 DEF Unique
    <3>2. a.id \in Ids /\ b.id \in Ids /\ a.id # Internet
      BY <1>1, <2>1, ItemAssumption DEF Ids
    <3>3. e.source = a.id /\ e.target = b.id
      BY <2>1 DEF Rel
    <3>4. Right(e, X, Lit) /\ Plain(e)
      BY <2>1, <3>1, <3>2, <3>3 DEF Right, Plain
    <3> QED BY <3>4 DEF X, Lit
  <2> QED BY <2>1, <2>2, <2>3
<1> QED BY <1>3, <1>4, <1>5 DEF AwsWay

LEMMA AwsShows ==
    ASSUME NEW steady, NEW ever, ever \subseteq Items, NEW E, Moment(E, steady, ever)
    PROVE  /\ Covers(AwsGraph(E).nodes, AwsKinds, steady)
           /\ Confirmed(AwsGraph(E).nodes, AwsKinds, ever)
<1> DEFINE X == OfKind(E, AwsKinds)
           Es == AwsEdges(E)
           F == AwsFacing(E)
           V == Visited(Travelled(Es, AwsTravels), F)
           M == AwsNodes(E)
           N == AwsGraph(E).nodes
<1>1. /\ steady \subseteq ever /\ steady \subseteq E /\ E \subseteq ever /\ Unique(E)
      /\ E \subseteq Items /\ X \subseteq Items /\ IsFiniteSet(ever) /\ IsFiniteSet(steady)
  BY ItemsFinite, FS_Subset DEF Moment, OfKind
<1>2. IsFiniteSet(AwsTravels)
  BY TravelsFinite
<1>3. /\ \A e \in Travelled(Es, AwsTravels) : Plain(e)
      /\ \A e \in Travelled(Es, AwsTravels) : Right(e, X, AwsLit(ever))
  BY <1>1, AwsWaysRight
<1>4. N = {[n EXCEPT !.exposed = @ \/ n.id \in V] : n \in M}
  BY AwsGraphIs
<1>5. \A n \in M : \/ n = InternetNode
                   \/ ~n.exposed /\ \E i \in X : Like(n, i)
  <2>1. \A n \in AwsEntry(E) \cup AwsPlaces(E) \cup AwsWho(E) : ~n.exposed
    BY DEF AwsEntry, AwsPlaces, AwsWho, AwsIngressNodes, AwsNetworkNodes, AwsIdentityNodes, Node
  <2> QED BY <2>1, AwsItemOf DEF AwsNodes
<1>14. \A n \in M : Shaped(n)
  <2>1. \A i, x : Shaped(Node(i, x))
    BY DEF Shaped, Node
  <2>2. Shaped(InternetNode)
    BY DEF Shaped, InternetNode
  <2>3. \A n \in M : n = InternetNode \/ \E i, x : n = Node(i, x)
    BY Zenon DEF AwsNodes, AwsEntry, AwsPlaces, AwsWho, AwsIngressNodes, AwsNetworkNodes,
                 AwsIdentityNodes
  <2> QED BY <2>1, <2>2, <2>3
<1>6. \A i \in X : \E n \in M : Like(n, i)
  BY AwsItemOf DEF AwsNodes, OfKind, AwsKinds
<1>7. F \subseteq {Internet} \cup {a.id : a \in X \cap AwsLit(ever)}
  <2> SUFFICES ASSUME NEW n \in M,
                      \/ n.exposed
                      \/ n.kind \in {"CloudFrontDistribution", "APIGatewayV2Api"}
                      \/ n.open /\ n.kind \in {"ALB", "APIGatewayRestApi",
                                               "AWSSubnet", "SecurityGroup"}
               PROVE  n.id = Internet \/ \E a \in X \cap AwsLit(ever) : a.id = n.id
    BY DEF AwsFacing
  <2>1. CASE n = InternetNode
    BY <2>1 DEF InternetNode
  <2>2. CASE n # InternetNode
    <3>1. PICK i \in X : Like(n, i) /\ ~n.exposed
      BY <1>5, <2>2
    <3>2. i \in Facing(ever)
      BY <1>1, <3>1 DEF Like, Facing, Entrances, OfKind
    <3>3. i \in AwsLit(ever)
      BY <3>2 DEF AwsLit, OfKind
    <3> QED BY <3>1, <3>3 DEF Like
  <2> QED BY <2>1, <2>2
<1>8. \A id \in V : id = Internet \/ id \in Exposed(ever)
  <2> HIDE DEF Es, X, F
  <2>1. \A id \in V : id = Internet \/ \E a \in X \cap AwsLit(ever) : a.id = id
    BY <1>1, <1>2, <1>3, <1>7, SearchIsRight
  <2> QED BY <2>1 DEF Exposed, AwsLit, OfKind
<1>9. F \subseteq V
  <2> HIDE DEF Es, F
  <2> QED BY <1>2, <1>3, WaysFinite, VisitedIsClosed
<1>10. ASSUME NEW i \in OfKind(Facing(steady), AwsKinds) PROVE i \in X /\ i.id \in F
  <2>1. /\ i \in steady /\ i \in X
        /\ \/ i.kind \in {"CloudFrontDistribution", "APIGatewayV2Api"}
           \/ i.open /\ i.kind \in {"ALB", "APIGatewayRestApi", "AWSSubnet", "SecurityGroup"}
    BY <1>1 DEF OfKind, Facing, Entrances, AwsKinds, AwsIngressKinds, AwsNetworkKinds,
                AwsIdentityKinds
  <2>2. PICK n \in M : Like(n, i)
    BY <1>6, <2>1
  <2> QED BY <2>1, <2>2 DEF Like, AwsFacing
<1>11. \A i \in OfKind(Reachable(steady), AwsKinds) : i \in X /\ i.id \in V
  <2>1. \A i \in OfKind(Entrances(steady), AwsKinds) : i \in X /\ i.id \in V
    BY <1>9, <1>10 DEF Facing, OfKind
  <2>2. \A i \in OfKind(steady, AwsKinds) : \A j \in steady :
           Reaches(steady, j, i) =>
              j.kind \in AwsKinds /\ (j \in X => Follows(j, i, X, Es, AwsTravels))
    <3> TAKE i \in OfKind(steady, AwsKinds)
    <3> TAKE j \in steady
    <3> HAVE Reaches(steady, j, i)
    <3>1. Reaches(E, j, i)
      BY <1>1, ReachesMore
    <3>2. j \in E /\ i \in E /\ i.kind \in AwsKinds
      BY <1>1 DEF OfKind
    <3> QED BY <3>1, <3>2, AwsFollows
  <2> HIDE DEF X, Es, F
  <2> QED BY <1>1, <1>2, <1>3, <2>1, <2>2, SearchIsComplete
<1> HIDE DEF V, M, N, X, Es, F
<1>12. ASSUME NEW i \in OfKind(Facing(steady) \cup Reachable(steady), AwsKinds)
       PROVE  \E n \in N : n.id = i.id /\ n.exposed
  <2>1. i \in X /\ i.id \in V
    BY <1>9, <1>10, <1>11 DEF OfKind
  <2>2. PICK m \in M : Like(m, i)
    BY <1>6, <2>1
  <2> DEFINE n == [m EXCEPT !.exposed = @ \/ m.id \in V]
  <2>3. n \in N
    BY <1>4, Zenon
  <2>4. n.id = m.id /\ (n.exposed <=> m.exposed \/ m.id \in V)
    BY <1>14, Flipped
  <2> HIDE DEF n
  <2> QED BY <2>1, <2>2, <2>3, <2>4 DEF Like
<1>13. ASSUME NEW n \in N, n # InternetNode
       PROVE  /\ \E i \in OfKind(Items, AwsKinds) : i.id = n.id
              /\ n.exposed => n.id \in Exposed(ever)
  <2>1. PICK m \in M : n = [m EXCEPT !.exposed = @ \/ m.id \in V]
    BY <1>4
  <2>2. m # InternetNode
    <3> SUFFICES ASSUME m = InternetNode PROVE n = InternetNode
      BY <1>13
    <3> QED BY <2>1 DEF InternetNode
  <2>3. PICK i \in X : Like(m, i) /\ ~m.exposed
    BY <1>5, <2>2
  <2>4. i \in Items /\ i.kind \in AwsKinds /\ i.id # Internet /\ n.id = i.id /\ m.id = i.id
    BY <1>1, <2>1, <2>3, ItemAssumption DEF OfKind, Like, Ids, X
  <2>5. n.exposed => m.id \in V
    BY <1>14, <2>1, <2>3, Flipped
  <2> QED BY <1>8, <2>4, <2>5 DEF OfKind
<1> QED BY <1>12, <1>13 DEF Covers, Confirmed, N

-----------------------------------------------------------------------------
(* What a discovery has of the exposure, at each step of it.               *)

AzureIds == {i.id : i \in OfKind(Items, AzureKinds)}
AwsIds == {i.id : i \in OfKind(Items, AwsKinds)}

\* An answer as a function of the estate it is read from.
AnswerOf(s, E) == CASE s = "resources" -> OfKind(E, ResourceKinds)
                    [] s = "ingress" -> IngressGraph(E)
                    [] s = "network" -> OfKind(E, NetworkKinds)
                    [] s = "identity" -> OfKind(E, IdentityKinds)

WasRead(f, s) == \E E : Moment(E, f.steady, f.ever) /\ f.read[s] = AnswerOf(s, E)

\* Azure answered every query its graph is built from.
AzureDone(f) == "azure" \in Clouds /\ {"azure", "build"} \cap f.errors = {}

AzurePart(f) ==
    /\ AzureDone(f) => Covers(f.graph.nodes, AzureKinds, f.steady)
    /\ \A n \in f.graph.nodes :
          n.id \in AzureIds => AzureDone(f) /\ (n.exposed => n.id \in Exposed(f.ever))

AwsPart(f) ==
    ~f.silent =>
        /\ "aws" \in Clouds => Covers(f.graph.nodes, AwsKinds, f.steady)
        /\ \A n \in f.graph.nodes :
              n.id \in AwsIds => (n.exposed => n.id \in Exposed(f.ever))

OnlyOf(f, ids) == \A n \in f.graph.nodes : n = InternetNode \/ n.id \in ids

Reading(f) ==
    /\ f.graph = Empty /\ AzureDone(f)
    /\ f.at # "resources" => WasRead(f, "resources")
    /\ f.at # "graph" => f.parts = {}
    /\ \A s \in f.parts : WasRead(f, s)

HalfBuilt(f) == AzurePart(f) /\ OnlyOf(f, AzureIds)

FullyBuilt(f) == AzurePart(f) /\ AwsPart(f) /\ OnlyOf(f, AzureIds \cup AwsIds)

Sound(f) ==
    /\ f.steady \subseteq Items /\ f.ever \subseteq Items
    /\ f.at \in {"resources", "identities", "graph"} => Reading(f)
    /\ f.at = "aws" => HalfBuilt(f)
    /\ f.at \in {"rows", "graph store", "topology"} => FullyBuilt(f)
    /\ f.at = "ended" /\ f.built /\ f.errors = {} => FullyBuilt(f)

\* While a discovery goes on its history follows the estate; after it, the
\* first store says what its graph says.
ExposureInv ==
    /\ Unique(estate)
    /\ Sound(found)
    /\ found.at # "ended" => found.steady \subseteq estate /\ estate \subseteq found.ever
    /\ found.at = "ended" /\ found.built /\ found.errors = {} => Says(nodes, found.graph)

\* What there was all along shrinks, and what there was at some time grows.
LEMMA SoundStays ==
    ASSUME NEW f, Sound(f), NEW g, g.at = f.at, g.read = f.read, g.parts = f.parts,
           g.built = f.built, g.graph = f.graph, g.errors = f.errors, g.silent = f.silent,
           g.steady \subseteq f.steady, f.ever \subseteq g.ever, g.ever \subseteq Items
    PROVE  Sound(g)
<1>1. f.steady \subseteq Items /\ f.ever \subseteq Items
      /\ IsFiniteSet(f.steady) /\ IsFiniteSet(g.ever)
  BY ItemsFinite, FS_Subset DEF Sound
<1>2. \A kinds : Covers(f.graph.nodes, kinds, f.steady) => Covers(g.graph.nodes, kinds, g.steady)
  <2>1. \A kinds : OfKind(Facing(g.steady) \cup Reachable(g.steady), kinds)
                      \subseteq OfKind(Facing(f.steady) \cup Reachable(f.steady), kinds)
    BY <1>1, LitGrows DEF OfKind
  <2> QED BY <2>1 DEF Covers
<1>3. Exposed(f.ever) \subseteq Exposed(g.ever)
  BY <1>1, ExposedGrows
<1>4. AzureDone(g) <=> AzureDone(f)
  BY DEF AzureDone
<1>5. AzurePart(f) => AzurePart(g)
  BY <1>2, <1>3, <1>4 DEF AzurePart
<1>6. AwsPart(f) => AwsPart(g)
  BY <1>2, <1>3 DEF AwsPart
<1>7. \A ids : OnlyOf(f, ids) => OnlyOf(g, ids)
  BY DEF OnlyOf
<1>8. \A s : WasRead(f, s) => WasRead(g, s)
  <2>1. \A E : Moment(E, f.steady, f.ever) => Moment(E, g.steady, g.ever)
    BY DEF Moment
  <2> QED BY <2>1 DEF WasRead
<1>9. Reading(f) => Reading(g)
  BY <1>4, <1>8 DEF Reading
<1>10. g.steady \subseteq Items
  BY <1>1
<1> QED BY <1>5, <1>6, <1>7, <1>9, <1>10 DEF Sound, HalfBuilt, FullyBuilt

\* A node of AWS has the id of an item of AWS, whatever was lost.
LEMMA AwsNodesAreOfAws ==
    ASSUME NEW I, I \subseteq Items, NEW T, T \subseteq Items, NEW W, W \subseteq Items
    PROVE  \A n \in BuildAWS(I, T, W).nodes : n = InternetNode \/ n.id \in AwsIds
<1> DEFINE M == {InternetNode} \cup AwsIngressNodes(I) \cup AwsNetworkNodes(T)
                \cup AwsIdentityNodes(W)
           Es == BuildAWSIngressEdges(AwsIngressNodes(I))
                 \cup BuildAWSNetworkEdges(AwsNetworkNodes(T))
                 \cup BuildAWSIdentityEdges(AwsIdentityNodes(W), AwsNetworkNodes(T))
<1>1. BuildAWS(I, T, W) = [nodes |-> DeriveAWSInternetExposure(M, Es),
                           edges |-> DeduplicateRelationships(Es)]
  BY Zenon DEF BuildAWS
<1>2. \A m \in M : m = InternetNode \/ m.id \in AwsIds
  BY DEF AwsIngressNodes, AwsNetworkNodes, AwsIdentityNodes, OfKind, AwsKinds, AwsIds, Node
<1> HIDE DEF M, Es
<1> SUFFICES ASSUME NEW n \in DeriveAWSInternetExposure(M, Es), n # InternetNode
             PROVE  n.id \in AwsIds
  BY <1>1
<1>3. \E m \in M : \E V : n = [m EXCEPT !.exposed = @ \/ m.id \in V]
  BY Zenon DEF DeriveAWSInternetExposure
<1>4. PICK m \in M : \E V : n = [m EXCEPT !.exposed = @ \/ m.id \in V]
  BY <1>3
<1>5. n.id = m.id
  BY <1>4
<1>6. m # InternetNode
  <2> SUFFICES ASSUME m = InternetNode PROVE n = InternetNode
    OBVIOUS
  <2> QED BY <1>4 DEF InternetNode
<1> QED BY <1>2, <1>5, <1>6

LEMMA IdsApart == AzureIds \cap AwsIds = {} /\ Internet \notin AzureIds \cup AwsIds
<1>1. AzureKinds \cap AwsKinds = {}
  BY DEF AzureKinds, AzureIngressKinds, ResourceKinds, ComputeKinds, NetworkKinds,
         IdentityKinds, AwsKinds, AwsIngressKinds, AwsNetworkKinds, AwsIdentityKinds
<1>2. \A i \in Items : i.id # Internet
  BY ItemAssumption DEF Ids
<1> QED BY <1>1, <1>2, ItemAssumption DEF AzureIds, AwsIds, OfKind

\* The graph that the three answers and the resources make.
LEMMA AnswersMakeAzurePart ==
    ASSUME NEW f, f.ever \subseteq Items, AzureDone(f),
           \A s \in Sources : WasRead(f, s),
           NEW g, g.steady = f.steady, g.ever = f.ever, g.errors = f.errors,
           g.graph = Build(f.read["resources"], f.read["ingress"],
                           f.read["network"], f.read["identity"])
    PROVE  HalfBuilt(g)
<1> DEFINE R == f.read["resources"]
           G == f.read["ingress"]
           T == f.read["network"]
           W == f.read["identity"]
<1>1. PICK Er : Moment(Er, f.steady, f.ever) /\ R = OfKind(Er, ResourceKinds)
  BY DEF WasRead, AnswerOf, Sources
<1>2. PICK Eg : Moment(Eg, f.steady, f.ever) /\ G = IngressGraph(Eg)
  BY DEF WasRead, AnswerOf, Sources, GraphParts
<1>3. PICK Et : Moment(Et, f.steady, f.ever) /\ T = OfKind(Et, NetworkKinds)
  BY DEF WasRead, AnswerOf, Sources, GraphParts
<1>4. PICK Ew : Moment(Ew, f.steady, f.ever) /\ W = OfKind(Ew, IdentityKinds)
  BY DEF WasRead, AnswerOf, Sources, GraphParts
<1>5. g.graph.nodes = Build(R, G, T, W).nodes
  OBVIOUS
<1> HIDE DEF R, G, T, W
<1>6. /\ Covers(Build(R, G, T, W).nodes, AzureKinds, f.steady)
      /\ Confirmed(Build(R, G, T, W).nodes, AzureKinds, f.ever)
  BY <1>1, <1>2, <1>3, <1>4, AzureShows
<1>7. Covers(g.graph.nodes, AzureKinds, g.steady) /\ Confirmed(g.graph.nodes, AzureKinds, g.ever)
  BY <1>5, <1>6
<1>8. AzureDone(g)
  BY DEF AzureDone
<1>9. InternetNode.id \notin AzureIds
  BY IdsApart DEF InternetNode
<1>10. OnlyOf(g, AzureIds)
  BY <1>7 DEF OnlyOf, Confirmed, AzureIds
<1>11. AzurePart(g)
  BY <1>7, <1>8, <1>9 DEF AzurePart, Confirmed
<1> QED BY <1>10, <1>11 DEF HalfBuilt

\* Without an answer there is no node of Azure.
LEMMA NothingOfAzure ==
    ASSUME NEW f, f.graph = Empty, ~AzureDone(f) PROVE HalfBuilt(f)
  BY DEF HalfBuilt, AzurePart, OnlyOf, Empty

\* The graph of AWS joins that of Azure.
LEMMA AwsJoins ==
    ASSUME NEW f, HalfBuilt(f), f.ever \subseteq Items, NEW E, Moment(E, f.steady, f.ever),
           NEW lost, NEW g, g.steady = f.steady, g.ever = f.ever, g.errors = f.errors,
           g.silent = (lost # {}),
           g.graph.nodes = f.graph.nodes \cup
                              BuildAWS(OfKind(E, AwsIngressKinds \ lost),
                                       OfKind(E, AwsNetworkKinds \ lost),
                                       OfKind(E, AwsIdentityKinds \ lost)).nodes
    PROVE  FullyBuilt(g)
<1> DEFINE B == BuildAWS(OfKind(E, AwsIngressKinds \ lost), OfKind(E, AwsNetworkKinds \ lost),
                         OfKind(E, AwsIdentityKinds \ lost)).nodes
           A == f.graph.nodes
<1>1. \A n \in B : n = InternetNode \/ n.id \in AwsIds
  <2>1. E \subseteq Items
    BY DEF Moment
  <2> QED BY <2>1, AwsNodesAreOfAws DEF OfKind
<1>2. \A n \in A : n = InternetNode \/ n.id \in AzureIds
  BY DEF HalfBuilt, OnlyOf
<1>3. AzureIds \cap AwsIds = {} /\ InternetNode.id \notin AzureIds \cup AwsIds
  BY IdsApart DEF InternetNode
<1>4. ASSUME lost = {}
      PROVE  Covers(B, AwsKinds, f.steady) /\ Confirmed(B, AwsKinds, f.ever)
  <2>1. B = AwsGraph(E).nodes
    BY <1>4, Zenon DEF AwsGraph
  <2> HIDE DEF B
  <2> QED BY <2>1, AwsShows
<1>5. g.graph.nodes = A \cup B
  OBVIOUS
<1> HIDE DEF A, B
<1>6. OnlyOf(g, AzureIds \cup AwsIds)
  BY <1>1, <1>2, <1>5 DEF OnlyOf
<1>7. AzureDone(g) <=> AzureDone(f)
  BY DEF AzureDone
<1>8. AzureDone(g) => Covers(g.graph.nodes, AzureKinds, g.steady)
  BY <1>5, <1>7 DEF HalfBuilt, AzurePart, Covers, A
<1>9. \A n \in g.graph.nodes : n.id \in AzureIds => n \in A
  BY <1>1, <1>3, <1>5
<1>10. AzurePart(g)
  BY <1>7, <1>8, <1>9 DEF HalfBuilt, AzurePart, A
<1>11. AwsPart(g)
  <2> SUFFICES ASSUME lost = {} PROVE AwsPart(g)
    BY DEF AwsPart
  <2>1. Covers(g.graph.nodes, AwsKinds, g.steady)
    BY <1>4, <1>5 DEF Covers
  <2>2. \A n \in g.graph.nodes : n.id \in AwsIds => n \in B /\ n # InternetNode
    BY <1>2, <1>3, <1>5
  <2> QED BY <1>4, <2>1, <2>2 DEF AwsPart, Confirmed
<1> QED BY <1>6, <1>10, <1>11 DEF FullyBuilt

\* Without AWS there is no node of it.
LEMMA NothingOfAws ==
    ASSUME NEW f, HalfBuilt(f), "aws" \notin Clouds PROVE FullyBuilt(f)
<1>1. \A n \in f.graph.nodes : n.id \notin AwsIds
  BY IdsApart DEF HalfBuilt, OnlyOf, InternetNode
<1> QED BY <1>1 DEF HalfBuilt, FullyBuilt, AwsPart, OnlyOf

-----------------------------------------------------------------------------
(* Every step keeps it.                                                    *)

LEMMA ExposureInitially == Init => ExposureInv
<1> SUFFICES ASSUME Init PROVE ExposureInv
  OBVIOUS
<1>1. Unique(estate)
  BY DiscoveryAssumption DEF Init, Unique
<1>2. /\ found.at = "ended" /\ ~found.built
      /\ found.steady = {} /\ found.ever = {}
  BY DEF Init, NoDiscovery
<1> QED BY <1>1, <1>2 DEF ExposureInv, Sound

\* A step of a discovery that leaves its history and the estate alone.
LEMMA Onwards ==
    ASSUME ExposureInv, found.at # "ended", UNCHANGED estate,
           found'.steady = found.steady, found'.ever = found.ever, Sound(found'),
           found'.at = "ended" /\ found'.built /\ found'.errors = {}
              => Says(nodes', found'.graph)
    PROVE  ExposureInv'
<1>1. Unique(estate') /\ found'.steady \subseteq estate' /\ estate' \subseteq found'.ever
  BY DEF ExposureInv
<1> QED BY <1>1 DEF ExposureInv

\* The estate of now is one of the discovery.
LEMMA NowIsMoment ==
    ASSUME StoresInv, ExposureInv, found.at # "ended"
    PROVE  Moment(estate, found.steady, found.ever)
  BY DEF StoresInv, ExposureInv, Moment

LEMMA EstateKeepsExposure ==
    ASSUME StoresInv, ExposureInv, EstateChanges PROVE ExposureInv'
<1>1. Unique(estate') /\ estate' \subseteq Items
  <2>1. PICK i \in Volatile : LET rest == {j \in estate : j.id # i.id}
                              IN  estate' \in {rest, rest \cup {i}} \ {estate}
    BY DEF EstateChanges
  <2>2. estate' = {j \in estate : j.id # i.id} \/ estate' = {j \in estate : j.id # i.id} \cup {i}
    BY <2>1
  <2>3. i \in Items
    BY DiscoveryAssumption
  <2>4. Unique(estate')
    BY <2>2 DEF ExposureInv, Unique
  <2> QED BY <2>2, <2>3, <2>4 DEF StoresInv
<1>2. nodes' = nodes
  BY DEF EstateChanges
<1>3. CASE found.at = "ended"
  <2>1. found' = found
    BY <1>3 DEF EstateChanges
  <2> QED BY <1>1, <1>2, <1>3, <2>1 DEF ExposureInv, Says
<1>4. CASE found.at # "ended"
  <2>1. /\ found'.at = found.at /\ found'.read = found.read /\ found'.parts = found.parts
        /\ found'.built = found.built /\ found'.graph = found.graph
        /\ found'.errors = found.errors /\ found'.silent = found.silent
        /\ found'.steady = found.steady \cap estate' /\ found'.ever = found.ever \cup estate'
    BY <1>4 DEF EstateChanges, StoresInv, IsDiscovery, DiscoveryFields
  <2>2. found'.ever \subseteq Items
    BY <1>1, <2>1 DEF ExposureInv, Sound
  <2>3. Sound(found')
    BY <2>1, <2>2, SoundStays DEF ExposureInv
  <2>4. found'.steady \subseteq estate' /\ estate' \subseteq found'.ever
    BY <2>1
  <2> QED BY <1>1, <1>4, <2>1, <2>3, <2>4 DEF ExposureInv
<1> QED BY <1>3, <1>4

LEMMA StartKeepsExposure ==
    ASSUME StoresInv, ExposureInv, StartDiscovery PROVE ExposureInv'
<1>1. /\ found'.at = IF "azure" \in Clouds THEN "resources" ELSE "aws"
      /\ found'.parts = {} /\ found'.graph = Empty /\ found'.errors = {}
      /\ found'.steady = estate /\ found'.ever = estate /\ estate' = estate
  BY DEF StartDiscovery, NoDiscovery
<1>2. estate \subseteq Items /\ Unique(estate)
  BY DEF StoresInv, ExposureInv
<1>3. "azure" \in Clouds => Reading(found')
  BY <1>1 DEF Reading, AzureDone
<1>4. "azure" \notin Clouds => HalfBuilt(found')
  <2>1. "azure" \notin Clouds => ~AzureDone(found')
    BY DEF AzureDone
  <2> QED BY <1>1, <2>1, NothingOfAzure
<1>5. Sound(found')
  BY <1>1, <1>2, <1>3, <1>4 DEF Sound
<1>6. found'.at # "ended"
  BY <1>1
<1>7. Unique(estate') /\ found'.steady \subseteq estate' /\ estate' \subseteq found'.ever
  BY <1>1, <1>2
<1> QED BY <1>5, <1>6, <1>7 DEF ExposureInv

\* Azure fails: nothing of it is in the graph.
LEMMA AzureFails ==
    ASSUME StoresInv, ExposureInv, found.at \in {"resources", "graph"},
           NEW what \in {"azure", "build"}, found' = Noting(To("aws"), {what}),
           UNCHANGED <<estate, nodes>>
    PROVE  ExposureInv'
<1>1. /\ found'.at = "aws" /\ found'.errors = found.errors \cup {what}
      /\ found'.graph = found.graph /\ found'.steady = found.steady
      /\ found'.ever = found.ever
  BY DEF StoresInv, IsDiscovery, DiscoveryFields, Noting, To
<1>2. found.graph = Empty
  BY DEF ExposureInv, Sound, Reading
<1>3. ~AzureDone(found')
  BY <1>1 DEF AzureDone
<1>4. HalfBuilt(found')
  BY <1>1, <1>2, <1>3, NothingOfAzure
<1>5. Sound(found')
  BY <1>1, <1>4 DEF ExposureInv, Sound
<1> QED BY <1>1, <1>5, Onwards

LEMMA QueryKeepsExposure ==
    ASSUME StoresInv, ExposureInv, QueryResourceGraph PROVE ExposureInv'
<1>1. found.at = "resources" /\ UNCHANGED <<estate, nodes>>
  BY DEF QueryResourceGraph
<1>2. CASE found' = [To("identities") EXCEPT
                        !.read["resources"] = OfKind(estate, ResourceKinds)]
  <2>1. /\ found'.at = "identities" /\ found'.graph = found.graph
        /\ found'.errors = found.errors /\ found'.parts = found.parts
        /\ found'.steady = found.steady /\ found'.ever = found.ever
        /\ found'.read = [found.read EXCEPT !["resources"] = OfKind(estate, ResourceKinds)]
    BY <1>2 DEF StoresInv, IsDiscovery, DiscoveryFields, To
  <2>2. found'.read["resources"] = OfKind(estate, ResourceKinds)
    BY <2>1 DEF StoresInv, IsDiscovery, Sources
  <2>3. Moment(estate, found'.steady, found'.ever)
    BY <1>1, <2>1, NowIsMoment
  <2>4. WasRead(found', "resources")
    BY <2>2, <2>3 DEF WasRead, AnswerOf
  <2>5. Reading(found')
    BY <1>1, <2>1, <2>4 DEF ExposureInv, Sound, Reading, AzureDone
  <2>6. Sound(found')
    BY <2>1, <2>5 DEF ExposureInv, Sound
  <2> QED BY <1>1, <2>1, <2>6, Onwards
<1>3. CASE found' = Noting(To("aws"), {"azure"})
  BY <1>1, <1>3, AzureFails
<1> QED BY <1>2, <1>3 DEF QueryResourceGraph

LEMMA IdentitiesKeepExposure ==
    ASSUME StoresInv, ExposureInv, FetchIdentities PROVE ExposureInv'
<1>1. found.at = "identities" /\ UNCHANGED <<estate, nodes>>
  BY DEF FetchIdentities
<1>2. PICK failed \in SUBSET {"identities", "roles"} : found' = Noting(To("graph"), failed)
  BY DEF FetchIdentities
<1>3. /\ found'.at = "graph" /\ found'.graph = found.graph /\ found'.read = found.read
      /\ found'.errors = found.errors \cup failed /\ found'.parts = found.parts
      /\ found'.steady = found.steady /\ found'.ever = found.ever
  BY <1>2 DEF StoresInv, IsDiscovery, DiscoveryFields, Noting, To
<1>4. AzureDone(found') <=> AzureDone(found)
  BY <1>2, <1>3 DEF AzureDone
<1>5. \A s : WasRead(found, s) => WasRead(found', s)
  BY <1>3 DEF WasRead
<1>6. Reading(found')
  BY <1>1, <1>3, <1>4, <1>5 DEF ExposureInv, Sound, Reading
<1>7. Sound(found')
  BY <1>3, <1>6 DEF ExposureInv, Sound
<1> QED BY <1>1, <1>3, <1>7, Onwards

LEMMA PartKeepsExposure ==
    ASSUME StoresInv, ExposureInv, FetchGraphPart PROVE ExposureInv'
<1>1. found.at = "graph" /\ UNCHANGED <<estate, nodes>>
  BY DEF FetchGraphPart
<1>2. ASSUME NEW part \in GraphParts \ found.parts,
             found' = Answered([found EXCEPT !.parts = @ \cup {part},
                                             !.read[part] = Answer(part)])
      PROVE  ExposureInv'
  <2> DEFINE f == [found EXCEPT !.parts = @ \cup {part}, !.read[part] = Answer(part)]
  <2>1. /\ f.at = "graph" /\ f.graph = found.graph /\ f.errors = found.errors
        /\ f.parts = found.parts \cup {part} /\ DOMAIN f = DiscoveryFields
        /\ f.steady = found.steady /\ f.ever = found.ever
        /\ f.read = [found.read EXCEPT ![part] = Answer(part)]
    BY <1>1 DEF StoresInv, IsDiscovery, DiscoveryFields
  <2>2. f.read[part] = Answer(part) /\ \A s : s # part => f.read[s] = found.read[s]
    BY <2>1 DEF StoresInv, IsDiscovery, Sources
  <2>3. found' = Answered(f)
    BY <1>2
  <2> HIDE DEF f
  <2>4. WasRead(f, part)
    <3>1. Moment(estate, f.steady, f.ever)
      BY <1>1, <2>1, NowIsMoment
    <3>2. Answer(part) = AnswerOf(part, estate)
      BY DEF Answer, AnswerOf, GraphParts, NetworkTopology, IdentityGraph
    <3> QED BY <2>2, <3>1, <3>2 DEF WasRead
  <2>5. \A s : s # part /\ WasRead(found, s) => WasRead(f, s)
    BY <2>1, <2>2 DEF WasRead
  <2>6. Reading(found)
    BY <1>1 DEF ExposureInv, Sound
  <2>7. AzureDone(f) /\ f.graph = Empty
    BY <2>1, <2>6 DEF Reading, AzureDone
  <2>8. WasRead(f, "resources") /\ \A s \in f.parts : WasRead(f, s)
    BY <1>1, <2>1, <2>4, <2>5, <2>6 DEF Reading, GraphParts
  <2>9. CASE f.parts # GraphParts
    <3>1. found' = f
      BY <2>3, <2>9 DEF Answered
    <3>2. Reading(f)
      BY <2>1, <2>7, <2>8 DEF Reading
    <3>3. Sound(f)
      BY <2>1, <3>2 DEF ExposureInv, Sound
    <3>4. Sound(found')
      BY <3>1, <3>3
    <3> QED BY <1>1, <2>1, <3>1, <3>4, Onwards
  <2>10. CASE f.parts = GraphParts
    <3>1. /\ found'.at = "aws" /\ found'.errors = f.errors
          /\ found'.steady = f.steady /\ found'.ever = f.ever
          /\ found'.graph = Build(f.read["resources"], f.read["ingress"],
                                  f.read["network"], f.read["identity"])
      BY <2>1, <2>3, <2>10 DEF Answered, DiscoveryFields
    <3>2. \A s \in Sources : WasRead(f, s)
      BY <2>8, <2>10 DEF Sources
    <3>3. f.ever \subseteq Items
      BY <2>1 DEF ExposureInv, Sound
    <3>4. HalfBuilt(found')
      BY <2>7, <3>1, <3>2, <3>3, AnswersMakeAzurePart
    <3>5. Sound(found')
      BY <2>1, <3>1, <3>4 DEF ExposureInv, Sound
    <3> QED BY <1>1, <2>1, <3>1, <3>5, Onwards
  <2> QED BY <2>9, <2>10
<1>3. CASE found' = Noting(To("aws"), {"build"})
  BY <1>1, <1>3, AzureFails
<1> QED BY <1>2, <1>3 DEF FetchGraphPart

LEMMA AwsKeepsExposure ==
    ASSUME StoresInv, ExposureInv, DiscoverAWS PROVE ExposureInv'
<1>1. found.at = "aws" /\ UNCHANGED <<estate, nodes>>
  BY DEF DiscoverAWS
<1>2. HalfBuilt(found)
  BY <1>1 DEF ExposureInv, Sound
<1>3. ASSUME "aws" \in Clouds, NEW lost,
             found' = [Merged(To("rows"), BuildAWS(AwsIngressGraph(lost),
                                                   AwsNetworkTopology(lost),
                                                   AwsIdentityGraph(lost)))
                          EXCEPT !.silent = lost # {}]
      PROVE  ExposureInv'
  <2> DEFINE graph == BuildAWS(OfKind(estate, AwsIngressKinds \ lost),
                               OfKind(estate, AwsNetworkKinds \ lost),
                               OfKind(estate, AwsIdentityKinds \ lost))
             silent == lost # {}
             f == To("rows")
  <2>1. found' = [Merged(f, graph) EXCEPT !.silent = silent]
    BY <1>3 DEF AwsIngressGraph, AwsNetworkTopology, AwsIdentityGraph
  <2>2. /\ f.at = "rows" /\ f.graph = found.graph /\ f.errors = found.errors
        /\ f.steady = found.steady /\ f.ever = found.ever /\ DOMAIN f = DiscoveryFields
    BY DEF StoresInv, IsDiscovery, DiscoveryFields, To
  <2> HIDE DEF f, graph, silent
  <2>3. /\ Merged(f, graph).at = "rows" /\ DOMAIN Merged(f, graph) = DiscoveryFields
        /\ Merged(f, graph).errors = found.errors
        /\ Merged(f, graph).graph.nodes = found.graph.nodes \cup graph.nodes
        /\ Merged(f, graph).steady = found.steady /\ Merged(f, graph).ever = found.ever
    BY <2>2 DEF Merged, DiscoveryFields
  <2>4. /\ found'.at = "rows" /\ found'.errors = found.errors /\ found'.silent = silent
        /\ found'.graph.nodes = found.graph.nodes \cup graph.nodes
        /\ found'.steady = found.steady /\ found'.ever = found.ever
    BY <2>1, <2>3 DEF DiscoveryFields
  <2>5. Moment(estate, found.steady, found.ever) /\ found.ever \subseteq Items
    BY <1>1, NowIsMoment DEF ExposureInv, Sound
  <2>6. FullyBuilt(found')
    BY <1>2, <2>4, <2>5, AwsJoins DEF graph, silent
  <2>7. Sound(found')
    BY <2>4, <2>6 DEF ExposureInv, Sound
  <2> QED BY <1>1, <2>4, <2>7, Onwards
<1>4. ASSUME "aws" \notin Clouds, found' = To("rows") PROVE ExposureInv'
  <2>1. /\ found'.at = "rows" /\ found'.graph = found.graph /\ found'.errors = found.errors
        /\ found'.steady = found.steady /\ found'.ever = found.ever
    BY <1>4 DEF StoresInv, IsDiscovery, DiscoveryFields, To
  <2>2. HalfBuilt(found')
    BY <1>2, <2>1 DEF HalfBuilt, AzurePart, AzureDone, OnlyOf
  <2>3. FullyBuilt(found')
    BY <1>4, <2>2, NothingOfAws
  <2>4. Sound(found')
    BY <2>1, <2>3 DEF ExposureInv, Sound
  <2> QED BY <1>1, <2>1, <2>4, Onwards
<1> QED BY <1>3, <1>4, Zenon DEF DiscoverAWS

\* What is built stays as it is while it is written.
LEMMA BuiltStays ==
    ASSUME NEW f, FullyBuilt(f), NEW g, g.graph = f.graph, g.silent = f.silent,
           g.steady = f.steady, g.ever = f.ever, AzureDone(g) <=> AzureDone(f)
    PROVE  FullyBuilt(g)
  BY DEF FullyBuilt, AzurePart, AwsPart, OnlyOf

LEMMA PersistKeepsExposure ==
    ASSUME StoresInv, ExposureInv, PersistResources PROVE ExposureInv'
<1>1. found.at = "rows" /\ UNCHANGED <<estate, nodes>>
  BY DEF PersistResources
<1>2. FullyBuilt(found)
  BY <1>1 DEF ExposureInv, Sound
<1>3. PICK what \in {{}, {"rows"}} :
         /\ found'.at \in {"graph store", "ended"}
         /\ found'.at = "ended" => ~found'.built
         /\ found'.errors = found.errors \cup what /\ found'.silent = found.silent
         /\ found'.graph = found.graph
         /\ found'.steady = found.steady /\ found'.ever = found.ever
  <2>1. CASE found' = AfterRows(found)
    <3>1. /\ found'.at \in {"graph store", "ended"}
          /\ found'.at = "ended" => ~found'.built
          /\ found'.errors = found.errors \cup {} /\ found'.silent = found.silent
          /\ found'.graph = found.graph
          /\ found'.steady = found.steady /\ found'.ever = found.ever
      BY <2>1 DEF StoresInv, IsDiscovery, DiscoveryFields, AfterRows
    <3> QED BY <3>1
  <2>2. CASE found' = AfterRows(Noting(found, {"rows"}))
    <3> DEFINE f == Noting(found, {"rows"})
    <3>1. /\ f.errors = found.errors \cup {"rows"} /\ f.silent = found.silent
          /\ f.graph = found.graph /\ f.built = found.built
          /\ f.steady = found.steady /\ f.ever = found.ever /\ DOMAIN f = DiscoveryFields
      BY DEF StoresInv, IsDiscovery, DiscoveryFields, Noting
    <3> HIDE DEF f
    <3>2. /\ found'.at \in {"graph store", "ended"}
          /\ found'.at = "ended" => ~found'.built
          /\ found'.errors = f.errors /\ found'.silent = f.silent
          /\ found'.graph = f.graph
          /\ found'.steady = f.steady /\ found'.ever = f.ever
      BY <2>2, <3>1 DEF DiscoveryFields, AfterRows, f
    <3> QED BY <3>1, <3>2
  <2> QED BY <2>1, <2>2 DEF PersistResources
<1>4. AzureDone(found') <=> AzureDone(found)
  BY <1>3 DEF AzureDone
<1>5. FullyBuilt(found')
  BY <1>2, <1>3, <1>4, BuiltStays
<1>6. Sound(found')
  BY <1>3, <1>5 DEF ExposureInv, Sound
<1> QED BY <1>1, <1>3, <1>6, Onwards

\* A discovery that ends with an error promises nothing.
LEMMA EndingBadlyKeepsExposure ==
    ASSUME StoresInv, ExposureInv, found.at # "ended", UNCHANGED estate,
           found' = Ending(Noting(found, {"graph"}))
    PROVE  ExposureInv'
<1> DEFINE f == Noting(found, {"graph"})
<1>1. /\ f.errors = found.errors \cup {"graph"} /\ DOMAIN f = DiscoveryFields
      /\ f.steady = found.steady /\ f.ever = found.ever
  BY DEF StoresInv, IsDiscovery, DiscoveryFields, Noting
<1> HIDE DEF f
<1>2. /\ found'.at = "ended" /\ found'.errors # {}
      /\ found'.steady = found.steady /\ found'.ever = found.ever
  BY <1>1 DEF DiscoveryFields, Ending, f
<1>3. Sound(found')
  BY <1>2 DEF ExposureInv, Sound
<1> QED BY <1>2, <1>3, Onwards

LEMMA GraphKeepsExposure ==
    ASSUME StoresInv, ExposureInv, StoreCloudGraph PROVE ExposureInv'
<1>1. found.at = "graph store" /\ estate' = estate
  BY DEF StoreCloudGraph
<1>2. CASE found' = To("topology")
  <2>1. /\ found'.at = "topology" /\ found'.graph = found.graph
        /\ found'.errors = found.errors /\ found'.silent = found.silent
        /\ found'.steady = found.steady /\ found'.ever = found.ever
    BY <1>2 DEF StoresInv, IsDiscovery, DiscoveryFields, To
  <2>2. FullyBuilt(found')
    BY <1>1, <2>1, BuiltStays DEF ExposureInv, Sound, AzureDone
  <2>3. Sound(found')
    BY <2>1, <2>2 DEF ExposureInv, Sound
  <2> QED BY <1>1, <2>1, <2>3, Onwards
<1>3. CASE found' = Ending(Noting(found, {"graph"}))
  BY <1>1, <1>3, EndingBadlyKeepsExposure
<1> QED BY <1>2, <1>3 DEF StoreCloudGraph

LEMMA TopologyKeepsExposure ==
    ASSUME StoresInv, ExposureInv, StoreTopology PROVE ExposureInv'
<1>1. found.at = "topology" /\ UNCHANGED <<estate, nodes>> /\ Says(nodes, found.graph)
  BY DEF StoreTopology, StoresInv
<1>2. CASE found' = Ending(found)
  <2>1. /\ found'.at = "ended" /\ found'.graph = found.graph
        /\ found'.errors = found.errors /\ found'.silent = found.silent
        /\ found'.steady = found.steady /\ found'.ever = found.ever
    BY <1>2 DEF StoresInv, IsDiscovery, DiscoveryFields, Ending
  <2>2. FullyBuilt(found')
    BY <1>1, <2>1, BuiltStays DEF ExposureInv, Sound, AzureDone
  <2>3. Sound(found')
    BY <2>1, <2>2 DEF ExposureInv, Sound
  <2>4. Says(nodes', found'.graph)
    BY <1>1, <2>1 DEF Says
  <2> QED BY <1>1, <2>1, <2>3, <2>4, Onwards
<1>3. CASE found' = Ending(Noting(found, {"graph"}))
  BY <1>1, <1>3, EndingBadlyKeepsExposure
<1> QED BY <1>2, <1>3 DEF StoreTopology

LEMMA ExposureStep == StoresInv /\ ExposureInv /\ [Next]_vars => ExposureInv'
<1> SUFFICES ASSUME StoresInv, ExposureInv, [Next]_vars PROVE ExposureInv'
  OBVIOUS
<1>1. CASE UNCHANGED vars
  BY <1>1 DEF ExposureInv, vars, Says
<1> QED BY <1>1, EstateKeepsExposure, StartKeepsExposure, QueryKeepsExposure,
           IdentitiesKeepExposure, PartKeepsExposure, AwsKeepsExposure,
           PersistKeepsExposure, GraphKeepsExposure, TopologyKeepsExposure
        DEF Next

LEMMA ExposureHolds == Spec => [](StoresInv /\ ExposureInv)
  BY StoresInit, StoresStep, ExposureInitially, ExposureStep, PTL DEF Spec

LEMMA GraphShowsExposure == StoresInv /\ ExposureInv => ExposureIsReachability
<1> SUFFICES ASSUME StoresInv, ExposureInv, found.at = "ended", found.built,
                    found.errors = {}, ~found.silent
             PROVE  /\ \A i \in Exposed(found.steady) : nodes[i] = "exposed"
                    /\ {n.id : n \in {m \in found.graph.nodes \ {InternetNode} :
                                         nodes[m.id] = "exposed"}}
                           \subseteq Exposed(found.ever)
  BY DEF ExposureIsReachability
<1>1. /\ FullyBuilt(found) /\ Says(nodes, found.graph)
      /\ found.steady \subseteq Items
  BY DEF ExposureInv, Sound
<1>2. \A n \in found.graph.nodes : n.id # Internet =>
         (nodes[n.id] = "exposed" <=> \E m \in found.graph.nodes : m.id = n.id /\ m.exposed)
  BY <1>1 DEF Says
<1>3. ASSUME NEW i \in Exposed(found.steady) PROVE nodes[i] = "exposed"
  <2>1. PICK j \in Facing(found.steady) \cup Reachable(found.steady) : j.id = i
    BY <1>3 DEF Exposed
  <2>2. j \in Items /\ j.kind \in AzureKinds \cup AwsKinds /\ j.id # Internet
    <3>1. IsFiniteSet(found.steady)
      BY <1>1, ItemsFinite, FS_Subset
    <3>2. j \in found.steady
      BY <2>1, <3>1, ReachableIsClosed DEF Facing, Entrances
    <3> QED BY <1>1, <3>2, ItemAssumption DEF Ids
  <2>3. j.kind \in AzureKinds => \E n \in found.graph.nodes : n.id = j.id /\ n.exposed
    <3> HAVE j.kind \in AzureKinds
    <3>1. AzureDone(found)
      BY <2>2, DiscoveryAssumption DEF AzureDone
    <3> QED BY <1>1, <2>1, <3>1 DEF FullyBuilt, AzurePart, Covers, OfKind
  <2>4. j.kind \in AwsKinds => \E n \in found.graph.nodes : n.id = j.id /\ n.exposed
    <3> HAVE j.kind \in AwsKinds
    <3>1. "aws" \in Clouds
      BY <2>2, DiscoveryAssumption
    <3> QED BY <1>1, <2>1, <3>1 DEF FullyBuilt, AwsPart, Covers, OfKind
  <2>5. PICK n \in found.graph.nodes : n.id = j.id /\ n.exposed
    BY <2>2, <2>3, <2>4
  <2> QED BY <1>2, <2>1, <2>2, <2>5
<1>4. ASSUME NEW n \in found.graph.nodes, n # InternetNode, nodes[n.id] = "exposed"
      PROVE  n.id \in Exposed(found.ever)
  <2>1. n.id \in AzureIds \cup AwsIds
    BY <1>1, <1>4 DEF FullyBuilt, OnlyOf
  <2>2. PICK m \in found.graph.nodes : m.id = n.id /\ m.exposed
    BY <1>2, <1>4, <2>1, IdsApart
  <2>3. m.id \in Exposed(found.ever)
    BY <1>1, <2>1, <2>2 DEF FullyBuilt, AzurePart, AwsPart
  <2> QED BY <2>2, <2>3
<1> QED BY <1>3, <1>4

(* Whatever an estate holds, however it changes and whatever query fails:  *)
(* after a discovery that missed nothing, the graph flags all that the     *)
(* internet could reach all along, and of the nodes it flags each is of    *)
(* what the internet could have reached (cloud-graph-builder.ts, build and *)
(* buildAWS).                                                              *)
THEOREM ExposureIsAlwaysReachability == Spec => []ExposureIsReachability
  BY ExposureHolds, GraphShowsExposure, PTL

(* However many queries and writes fail, what stayed within reach keeps    *)
(* its flag in the graph if it is of Azure: a graph without all that the   *)
(* internet could reach all along has no node of Azure to write            *)
(* (cloud-discovery.stage.ts, discover).                                   *)
THEOREM ExposureIsNeverForgotten == Spec => ExposureIsNotForgotten
<1>1. StoresInv /\ ExposureInv /\ [Next]_vars =>
         [\A i \in {j.id : j \in OfKind(Items, AzureKinds)} :
             nodes[i] = "exposed" /\ nodes'[i] # "exposed"
                 => i \notin Exposed(found.steady)]_vars
  <2> SUFFICES ASSUME StoresInv, ExposureInv, Next,
                      NEW i \in AzureIds, nodes[i] = "exposed", nodes'[i] # "exposed",
                      i \in Exposed(found.steady)
               PROVE  FALSE
    BY DEF AzureIds
  <2>1. found.at = "graph store" /\ nodes' = Flagged(nodes, found.graph)
    BY DEF Next, EstateChanges, StartDiscovery, QueryResourceGraph, FetchIdentities,
           FetchGraphPart, DiscoverAWS, PersistResources, StoreCloudGraph, StoreTopology
  <2>2. i \in Ids
    BY DEF AzureIds, Ids, OfKind
  <2>3. /\ \E n \in found.graph.nodes : n.id = i
        /\ \A n \in found.graph.nodes : n.id = i => ~n.exposed
    BY <2>1, <2>2 DEF Flagged
  <2>4. AzurePart(found) /\ found.steady \subseteq Items
    BY <2>1 DEF ExposureInv, Sound, FullyBuilt
  <2>5. PICK j \in Facing(found.steady) \cup Reachable(found.steady) : j.id = i
    BY DEF Exposed
  <2>6. j \in Items /\ j.kind \in AzureKinds
    <3>1. IsFiniteSet(found.steady)
      BY <2>4, ItemsFinite, FS_Subset
    <3>2. j \in found.steady
      BY <2>5, <3>1, ReachableIsClosed DEF Facing, Entrances
    <3> QED BY <2>4, <2>5, <3>2, ItemAssumption DEF AzureIds, OfKind
  <2>7. AzureDone(found)
    BY <2>3, <2>4 DEF AzurePart
  <2>8. \E n \in found.graph.nodes : n.id = j.id /\ n.exposed
    BY <2>4, <2>5, <2>6, <2>7 DEF AzurePart, Covers, OfKind
  <2> QED BY <2>3, <2>5, <2>8
<1> QED BY <1>1, ExposureHolds, PTL DEF Spec, ExposureIsNotForgotten

-----------------------------------------------------------------------------
(* One service in both stores: what a scan without a failure leaves.       *)

Bare(n) == [Nothing EXCEPT !["code"] = n]

IsScan(s) ==
    /\ DOMAIN s = {"n", "at", "options", "memory", "held", "found", "did", "stale", "clean"}
    /\ s.n \in Nat /\ s.at \in Steps /\ s.options \in ScanOptions
    /\ s.memory \in Payload /\ s.held \in Payload
    /\ s.did \subseteq {"analysis", "threats"}
    /\ s.stale \in BOOLEAN /\ s.clean \in BOOLEAN
    /\ s.at # "ended" => s.n > 0

ScanTyped == row \in Payload /\ node \in Payload /\ IsScan(scan)

\* The fields a scan stamps with its number.
Stamped == Fields \ {"severity"}

\* No field has the number of a scan that did not begin yet.
StampsAreOld ==
    \A f \in Stamped :
        row[f] <= scan.n /\ scan.memory[f] <= scan.n /\ scan.held[f] <= scan.n

\* Laid over the row, a payload takes no field back.
NotBehind(p) == \A f \in Stamped : p[f] = 0 \/ p[f] >= row[f]

\* What the scan may still store.
CopiesNotBehind ==
    /\ scan.at = "rows" => \A f \in Stamped : row[f] <= scan.held[f]
    /\ scan.at = "threats" => NotBehind(scan.held)
    /\ scan.at \notin {"threat node", "reread"} /\ ~scan.stale => NotBehind(scan.memory)

AdvanceInv == ScanTyped /\ StampsAreOld /\ CopiesNotBehind

Consolidating == {"delete", "consolidate", "store rows", "store nodes",
                  "store edges", "exploit"}

\* From where the service was to be read again.
Late == Consolidating \union {"ended"}

\* Laid over the row, the copy in memory takes back at most the threats that
\* this scan stored.
AlmostNotBehind ==
    \A f \in Stamped : \/ scan.memory[f] = 0 \/ scan.memory[f] >= row[f]
                       \/ f = "threats" /\ row[f] = scan.n

\* A scan that did not read the service again still knows all it knew before
\* it stored the threats.
Remembers ==
    /\ scan.stale => scan.at \in Late
    /\ scan.at = "threats" => \A f \in Stamped :
          \/ f = "threats" /\ scan.held[f] = scan.n
          \/ f # "threats" /\ (scan.memory[f] = 0 \/ scan.memory[f] >= scan.held[f])
    /\ scan.stale \/ scan.at \in {"threat node", "reread"} => AlmostNotBehind

\* Both stores have the code, and what the scan made of it.
Enriched ==
    /\ row["code"] = scan.n /\ node["code"] = scan.n
    /\ \A f \in scan.did : row[f] = scan.n
    /\ scan.did # {} => node = row
    /\ "threats" \in scan.did => row["severity"] = 3

Begun == scan.memory = Bare(scan.n) /\ scan.did = {}

\* Where the scan is only when features were asked for.
FeatureSteps == {"extract", "catalog", "model", "threats", "threat node", "reread",
                 "exploit"}

\* By where the scan is.
FreshSoFar ==
    /\ scan.at \in {"read", "rows", "nodes", "fetch"} => Begun
    /\ scan.at = "rows" => scan.held = row
    /\ scan.at \in {"nodes", "fetch", "analyse"} => row["code"] = scan.n
    /\ scan.at \in {"fetch", "analyse"} => node = Bare(scan.n)
    /\ scan.at = "analyse" => scan.memory = row /\ scan.did = {}
    /\ scan.at = "node" =>
          /\ scan.memory = row /\ scan.did = {"analysis"}
          /\ row["code"] = scan.n /\ row["analysis"] = scan.n
    /\ scan.at \in {"extract", "catalog", "model", "threats"} =>
          Enriched /\ "threats" \notin scan.did
    /\ scan.at = "threats" =>
          scan.held = [row EXCEPT !["threats"] = scan.n, !["severity"] = 3]
    /\ scan.at = "threat node" =>
          /\ scan.held = row /\ "threats" \in scan.did
          /\ row["code"] = scan.n /\ row["severity"] = 3
          /\ \A f \in scan.did : row[f] = scan.n
    /\ scan.at \in {"reread"} \union Consolidating => Enriched
    /\ scan.at \in Consolidating /\ scan.options.features => scan.memory = row
    /\ scan.at \in FeatureSteps \/ "threats" \in scan.did => scan.options.features

\* The data stores, on their way from the features to both stores.
ComputedSoFar ==
    /\ scan.at \in {"consolidate", "store rows"} => storeRows = {}
    /\ scan.at \in {"consolidate", "store rows", "store nodes"} => storeNodes = {}
    /\ scan.at \in {"store rows", "store nodes", "store edges"} =>
          scan.found = Consolidated
    /\ scan.at \in {"store nodes", "store edges", "exploit"} => storeRows = Consolidated
    /\ scan.at \in {"store edges", "exploit"} => storeNodes = Consolidated
    /\ scan.at = "exploit" => Consolidated \subseteq storeEdges

FreshInv ==
    /\ ScanTyped
    /\ scan.clean => FreshSoFar /\ ComputedSoFar
    /\ CleanScanIsFresh /\ StoresAreComputed

-----------------------------------------------------------------------------
(* What the steps make of the scan, field by field.                        *)

Becomes(step, memory, held, stores, did, clean) ==
    /\ IsScan(scan') /\ scan'.at = step
    /\ scan'.n = scan.n /\ scan'.options = scan.options
    /\ scan'.memory = memory /\ scan'.held = held
    /\ scan'.found = stores /\ scan'.did = did /\ scan'.clean = clean
    /\ scan'.stale = scan.stale

\* The scan goes on, or goes on after a failure.
Goes(step) == Becomes(step, scan.memory, scan.held, scan.found, scan.did, scan.clean)
Slips(step) == Becomes(step, scan.memory, scan.held, scan.found, scan.did, FALSE)

\* It goes on without having read the service again.
GoesStale ==
    /\ IsScan(scan') /\ scan'.at = "delete" /\ scan'.n = scan.n
    /\ scan'.memory = scan.memory /\ scan'.held = scan.held
    /\ scan'.stale /\ ~scan'.clean

LEMMA GoResult ==
    ASSUME IsScan(scan), scan.at # "ended", NEW step \in Steps
    PROVE  /\ scan' = Go(step) => Goes(step)
           /\ scan' = Unclean(Go(step)) => Slips(step)
  BY DEF IsScan, Becomes, Goes, Slips, Go, Unclean

LEMMA HeldResult ==
    ASSUME IsScan(scan), scan.at # "ended", NEW step \in Steps, NEW p \in Payload,
           scan' = [Go(step) EXCEPT !.held = p]
    PROVE  Becomes(step, scan.memory, p, scan.found, scan.did, scan.clean)
  BY DEF IsScan, Becomes, Go

LEMMA MemoryResult ==
    ASSUME IsScan(scan), scan.at # "ended", NEW step \in Steps, NEW p \in Payload
    PROVE  /\ scan' = [Go(step) EXCEPT !.memory = p] =>
                 Becomes(step, p, scan.held, scan.found, scan.did, scan.clean)
           /\ scan' = [Unclean(Go(step)) EXCEPT !.memory = p] =>
                 Becomes(step, p, scan.held, scan.found, scan.did, FALSE)
  BY DEF IsScan, Becomes, Go, Unclean

LEMMA EnrichedResult ==
    ASSUME IsScan(scan), scan.at # "ended", NEW step \in Steps, NEW p \in Payload,
           NEW next, next = [Go(step) EXCEPT !.memory = p,
                                             !.did = @ \union {"analysis"}]
    PROVE  /\ scan' = next => Becomes(step, p, scan.held, scan.found,
                                      scan.did \union {"analysis"}, scan.clean)
           /\ scan' = Unclean(next) => Becomes(step, p, scan.held, scan.found,
                                               scan.did \union {"analysis"}, FALSE)
  BY DEF IsScan, Becomes, Go, Unclean

LEMMA DidResult ==
    ASSUME IsScan(scan), scan.at # "ended", NEW step \in Steps,
           scan' = [Go(step) EXCEPT !.did = @ \union {"threats"}]
    PROVE  Becomes(step, scan.memory, scan.held, scan.found,
                   scan.did \union {"threats"}, scan.clean)
  BY DEF IsScan, Becomes, Go

LEMMA FoundResult ==
    ASSUME IsScan(scan), scan.at # "ended", NEW step \in Steps, NEW stores,
           scan' = [Go(step) EXCEPT !.found = stores]
    PROVE  Becomes(step, scan.memory, scan.held, stores, scan.did, scan.clean)
  BY DEF IsScan, Becomes, Go

\* A deletion beside it.
LEMMA UncleanResult ==
    ASSUME IsScan(scan), scan' = Unclean(scan)
    PROVE  Slips(scan.at)
  BY DEF IsScan, Becomes, Slips, Unclean

-----------------------------------------------------------------------------
(* Payloads.                                                               *)

LEMMA NothingIsPayload == Nothing \in Payload /\ \A f \in Fields : Nothing[f] = 0
  BY DEF Nothing, Payload

LEMMA SamePayload ==
    ASSUME NEW p \in Payload, NEW q \in Payload, \A f \in Fields : p[f] = q[f]
    PROVE  p = q
  BY DEF Payload

LEMMA MergeResult ==
    ASSUME NEW p \in Payload, NEW q \in Payload
    PROVE  /\ Merge(p, q) \in Payload
           /\ \A f \in Fields : Merge(p, q)[f] = IF q[f] # 0 THEN q[f] ELSE p[f]
  BY DEF Merge, Payload

LEMMA FieldResult ==
    ASSUME NEW p \in Payload, NEW f \in Fields, NEW n \in Nat
    PROVE  /\ [p EXCEPT ![f] = n] \in Payload
           /\ [p EXCEPT ![f] = n][f] = n
           /\ \A g \in Fields \ {f} : [p EXCEPT ![f] = n][g] = p[g]
  BY DEF Payload

LEMMA BareResult ==
    ASSUME NEW n \in Nat
    PROVE  /\ Bare(n) \in Payload /\ Bare(n)["code"] = n
           /\ \A g \in Fields \ {"code"} : Bare(n)[g] = 0
  BY NothingIsPayload DEF Bare, Payload, Fields

-----------------------------------------------------------------------------
(* The steps of a scan.                                                    *)

SameService == row' = row /\ node' = node
SameStores == storeRows' = storeRows /\ storeNodes' = storeNodes /\ storeEdges' = storeEdges
SameFeatures == Consolidated' = Consolidated

\* A scan goes on to its features when they were asked for.
Fits(step) == /\ step = "extract" => scan.options.features
              /\ step = "delete" => ~scan.options.features

LEMMA FeaturesStay == ASSUME UNCHANGED catalogVars PROVE SameFeatures
  BY DEF catalogVars, SameFeatures, Consolidated

LEMMA ReadPreviousResult ==
    ASSUME ScanTyped, ReadPrevious
    PROVE  /\ scan.at = "read" /\ SameService
           /\ SameStores /\ SameFeatures /\ ScanTyped'
           /\ \/ Becomes("rows", scan.memory, row, scan.found, scan.did, scan.clean)
              \/ Slips("nodes")
<1>1. scan.at = "read" /\ SameService /\ SameStores /\ SameFeatures
  BY FeaturesStay DEF ReadPrevious, storage, SameService, SameStores
<1>2. \/ Becomes("rows", scan.memory, row, scan.found, scan.did, scan.clean)
      \/ Slips("nodes")
  BY <1>1, GoResult, HeldResult DEF ReadPrevious, ScanTyped, Steps
<1> QED BY <1>1, <1>2 DEF ScanTyped, SameService, Becomes, Slips

LEMMA StoreRowsResult ==
    ASSUME ScanTyped, StoreRows
    PROVE  /\ scan.at = "rows" /\ node' = node
           /\ SameStores /\ SameFeatures /\ ScanTyped'
           /\ \/ row' = Merge(scan.held, scan.memory) /\ Goes("nodes")
              \/ row' = row /\ Slips("nodes")
<1>1. scan.at = "rows" /\ node' = node /\ SameStores /\ SameFeatures
  BY FeaturesStay DEF StoreRows, SameStores
<1>2. \/ row' = Merge(scan.held, scan.memory) /\ Goes("nodes")
      \/ row' = row /\ Slips("nodes")
  BY <1>1, GoResult DEF StoreRows, ScanTyped, Steps
<1> QED BY <1>1, <1>2, MergeResult DEF ScanTyped, IsScan, Becomes, Goes, Slips

LEMMA StoreNodesResult ==
    ASSUME ScanTyped, StoreNodes
    PROVE  /\ scan.at = "nodes" /\ row' = row
           /\ SameStores /\ SameFeatures /\ ScanTyped'
           /\ \E step \in {"fetch", "extract", "delete"} :
                 \/ /\ node' = scan.memory /\ Goes(step)
                    /\ Fits(step)
                 \/ Slips(step)
<1>1. scan.at = "nodes" /\ row' = row /\ SameStores /\ SameFeatures
  BY FeaturesStay DEF StoreNodes, SameStores
<1> DEFINE step == IF scan.options.correlate THEN "fetch" ELSE AfterCorrelation
<1>2. /\ step \in {"fetch", "extract", "delete"} /\ step \in Steps
      /\ Fits(step)
  BY DEF AfterCorrelation, Steps, Fits
<1>3. \/ node' = scan.memory /\ scan' = Go(step)
      \/ node' = node /\ scan' = Unclean(Go(step))
  BY DEF StoreNodes
<1> HIDE DEF step
<1>4. \/ node' = scan.memory /\ Goes(step)
      \/ node' = node /\ Slips(step)
  BY <1>1, <1>2, <1>3, GoResult DEF ScanTyped
<1> QED BY <1>1, <1>2, <1>4 DEF ScanTyped, IsScan, Becomes, Goes, Slips

LEMMA FetchResult ==
    ASSUME ScanTyped, FetchDbEntities
    PROVE  /\ scan.at = "fetch" /\ SameService
           /\ SameStores /\ SameFeatures /\ ScanTyped'
           /\ \E step \in {"analyse", "extract", "delete"} :
                 \/ /\ Becomes(step, Merge(row, scan.memory), scan.held, scan.found,
                               scan.did, scan.clean)
                    /\ Fits(step)
                 \/ Slips(step)
<1>1. scan.at = "fetch" /\ SameService /\ SameStores /\ SameFeatures
  BY FeaturesStay DEF FetchDbEntities, storage, SameService, SameStores
<1> DEFINE step == IF scan.options.services THEN "analyse" ELSE AfterCorrelation
           merged == Merge(row, scan.memory)
<1>2. /\ step \in {"analyse", "extract", "delete"} /\ step \in Steps
      /\ Fits(step)
  BY DEF AfterCorrelation, Steps, Fits
<1>3. merged \in Payload
  BY MergeResult DEF ScanTyped, IsScan
<1>4. \/ scan' = [Go(step) EXCEPT !.memory = merged]
      \/ scan' = Unclean(Go(step))
  <2>1. IsScan(scan) /\ Go(step).memory = scan.memory
    BY DEF ScanTyped, IsScan, Go
  <2> QED BY <2>1 DEF FetchDbEntities
<1> HIDE DEF step, merged
<1>5. \/ Becomes(step, merged, scan.held, scan.found, scan.did, scan.clean)
      \/ Slips(step)
  BY <1>1, <1>2, <1>3, <1>4, GoResult, MemoryResult DEF ScanTyped
<1>6. ScanTyped'
  BY <1>1, <1>5 DEF ScanTyped, SameService, Becomes, Slips
<1> QED BY <1>1, <1>2, <1>5, <1>6 DEF merged

\* What the analysis makes of the copy.
Analysed == [scan.memory EXCEPT !["analysis"] = scan.n]

LEMMA AnalyseResult ==
    ASSUME ScanTyped, AnalyseService
    PROVE  /\ scan.at = "analyse" /\ node' = node
           /\ SameStores /\ SameFeatures /\ ScanTyped'
           /\ Analysed \in Payload
           /\ \/ /\ row' = Merge(row, Analysed)
                 /\ Becomes("node", Analysed, scan.held, scan.found,
                            scan.did \union {"analysis"}, scan.clean)
              \/ /\ row' = row
                 /\ Becomes("node", Analysed, scan.held, scan.found,
                            scan.did \union {"analysis"}, FALSE)
              \/ /\ row' = row
                 /\ \E step \in {"extract", "delete"} : Slips(step)
<1>1. scan.at = "analyse" /\ node' = node /\ SameStores /\ SameFeatures
  BY FeaturesStay DEF AnalyseService, SameStores
<1>2. Analysed \in Payload
  BY FieldResult DEF Analysed, ScanTyped, IsScan, Fields
<1> DEFINE next == [Go("node") EXCEPT !.memory = Analysed,
                                      !.did = @ \union {"analysis"}]
<1>3. \/ row' = Merge(row, Analysed) /\ scan' = next
      \/ row' = row /\ scan' = Unclean(next)
      \/ row' = row /\ scan' = Unclean(Go(AfterCorrelation))
  BY DEF AnalyseService, Analysed
<1>4. /\ scan' = next => Becomes("node", Analysed, scan.held, scan.found,
                                 scan.did \union {"analysis"}, scan.clean)
      /\ scan' = Unclean(next) => Becomes("node", Analysed, scan.held, scan.found,
                                          scan.did \union {"analysis"}, FALSE)
  <2>1. "node" \in Steps
    BY DEF Steps
  <2> QED BY <1>1, <1>2, <2>1, EnrichedResult DEF ScanTyped
<1>5. scan' = Unclean(Go(AfterCorrelation)) =>
          \E step \in {"extract", "delete"} : Slips(step)
  <2>1. AfterCorrelation \in {"extract", "delete"} /\ AfterCorrelation \in Steps
    BY DEF AfterCorrelation, Steps
  <2> QED BY <1>1, <2>1, GoResult DEF ScanTyped
<1> HIDE DEF next
<1>6. ScanTyped'
  BY <1>1, <1>2, <1>3, <1>4, <1>5, MergeResult DEF ScanTyped, IsScan, Becomes, Slips
<1> QED BY <1>1, <1>2, <1>3, <1>4, <1>5, <1>6

LEMMA AnalysedNodeResult ==
    ASSUME ScanTyped, StoreAnalysedNode
    PROVE  /\ scan.at = "node" /\ row' = row /\ SameStores /\ SameFeatures /\ ScanTyped'
           /\ \E step \in {"extract", "delete"} :
                 \/ /\ node' = scan.memory /\ Goes(step)
                    /\ Fits(step)
                 \/ Slips(step)
<1>1. scan.at = "node" /\ row' = row /\ SameStores /\ SameFeatures
  BY FeaturesStay DEF StoreAnalysedNode, SameStores
<1>2. /\ AfterCorrelation \in {"extract", "delete"} /\ AfterCorrelation \in Steps
      /\ Fits(AfterCorrelation)
  BY DEF AfterCorrelation, Steps, Fits
<1>3. \/ node' = scan.memory /\ Goes(AfterCorrelation)
      \/ node' = node /\ Slips(AfterCorrelation)
  BY <1>1, <1>2, GoResult DEF StoreAnalysedNode, ScanTyped
<1> QED BY <1>1, <1>2, <1>3 DEF ScanTyped, IsScan, Becomes, Goes, Slips

LEMMA ExtractFeaturesResult ==
    ASSUME ScanTyped, ExtractServiceFeatures
    PROVE  /\ scan.at = "extract" /\ SameService
           /\ SameStores /\ SameFeatures /\ ScanTyped'
           /\ \/ \E step \in {"catalog", "reread"} : Goes(step)
              \/ Slips("delete")
<1>1. scan.at = "extract" /\ SameService /\ SameStores /\ SameFeatures
  <2>1. features' = features
    BY DEF ExtractServiceFeatures, ExtractFeatures, catalogVars
  <2>2. SameFeatures
    BY <2>1 DEF SameFeatures, Consolidated
  <2> QED BY <2>2 DEF ExtractServiceFeatures, storage, SameService, SameStores
<1>2. \/ \E step \in {"catalog", "reread"} : scan' = Go(step)
      \/ scan' = Unclean(Go("delete"))
  BY DEF ExtractServiceFeatures
<1>3. \/ \E step \in {"catalog", "reread"} : Goes(step)
      \/ Slips("delete")
  <2>1. {"catalog", "reread", "delete"} \subseteq Steps
    BY DEF Steps
  <2> QED BY <1>1, <1>2, <2>1, GoResult DEF ScanTyped
<1> QED BY <1>1, <1>3 DEF ScanTyped, SameService, Becomes, Goes, Slips

\* The features may be others; the scan waits, or goes on.
LEMMA PersistFeaturesResult ==
    ASSUME ScanTyped, PersistFeatures
    PROVE  /\ scan.at = "catalog" /\ SameService /\ SameStores /\ ScanTyped'
           /\ scan' = scan \/ Goes("model")
<1>1. scan.at = "catalog" /\ SameService /\ SameStores
  BY DEF PersistFeatures, storage, SameService, SameStores
<1>2. scan' = scan \/ Goes("model")
  BY <1>1, GoResult DEF PersistFeatures, ScanTyped, Steps
<1> QED BY <1>1, <1>2 DEF ScanTyped, SameService, Becomes, Goes

\* What the threat model makes of what it is laid over.
Threatened == [ThreatBase EXCEPT !["threats"] = scan.n, !["severity"] = 3]

LEMMA ThreatenedResult ==
    ASSUME ScanTyped
    PROVE  /\ ThreatBase \in Payload /\ Threatened \in Payload
           /\ Threatened["threats"] = scan.n /\ Threatened["severity"] = 3
           /\ \A f \in Fields \ {"threats", "severity"} : Threatened[f] = ThreatBase[f]
<1>1. ThreatBase \in Payload /\ scan.n \in Nat
  BY DEF ScanTyped, IsScan, ThreatBase
<1> QED BY <1>1 DEF Threatened, Payload, Fields

LEMMA ModelThreatsResult ==
    ASSUME ScanTyped, ModelThreats
    PROVE  /\ scan.at = "model" /\ SameService
           /\ SameStores /\ SameFeatures /\ ScanTyped'
           /\ \/ Becomes("threats", scan.memory, Threatened, scan.found, scan.did, scan.clean)
              \/ Slips("reread")
<1>1. scan.at = "model" /\ SameService /\ SameStores /\ SameFeatures
  BY FeaturesStay DEF ModelThreats, storage, SameService, SameStores
<1>2. \/ scan' = [Go("threats") EXCEPT !.held = Threatened]
      \/ scan' = Unclean(Go("reread"))
  BY DEF ModelThreats, Threatened
<1>3. \/ Becomes("threats", scan.memory, Threatened, scan.found, scan.did, scan.clean)
      \/ Slips("reread")
  <2>1. {"threats", "reread"} \subseteq Steps
    BY DEF Steps
  <2> QED BY <1>1, <1>2, <2>1, ThreatenedResult, GoResult, HeldResult DEF ScanTyped
<1> QED BY <1>1, <1>3 DEF ScanTyped, SameService, Becomes, Slips

LEMMA StoreThreatsResult ==
    ASSUME ScanTyped, StoreThreats
    PROVE  /\ scan.at = "threats" /\ node' = node
           /\ SameStores /\ SameFeatures /\ ScanTyped'
           /\ \/ /\ row' = Merge(row, scan.held)
                 /\ Becomes("threat node", scan.memory, scan.held, scan.found,
                            scan.did \union {"threats"}, scan.clean)
              \/ row' = row /\ Slips("reread")
<1>1. scan.at = "threats" /\ node' = node /\ SameStores /\ SameFeatures
  BY FeaturesStay DEF StoreThreats, SameStores
<1>2. \/ /\ row' = Merge(row, scan.held)
         /\ Becomes("threat node", scan.memory, scan.held, scan.found,
                    scan.did \union {"threats"}, scan.clean)
      \/ row' = row /\ Slips("reread")
  <2>1. {"threat node", "reread"} \subseteq Steps
    BY DEF Steps
  <2>2. \/ /\ row' = Merge(row, scan.held)
           /\ scan' = [Go("threat node") EXCEPT !.did = @ \union {"threats"}]
        \/ row' = row /\ scan' = Unclean(Go("reread"))
    BY DEF StoreThreats
  <2>3. CASE scan' = [Go("threat node") EXCEPT !.did = @ \union {"threats"}]
    BY <1>1, <2>1, <2>2, <2>3, DidResult, GoResult DEF ScanTyped
  <2>4. CASE row' = row /\ scan' = Unclean(Go("reread"))
    BY <1>1, <2>1, <2>4, GoResult DEF ScanTyped
  <2> QED BY <2>2, <2>3, <2>4
<1>3. Merge(row, scan.held) \in Payload
  BY MergeResult DEF ScanTyped, IsScan
<1>4. row' \in Payload /\ node' \in Payload /\ IsScan(scan')
  BY <1>1, <1>2, <1>3 DEF ScanTyped, Becomes, Slips
<1> QED BY <1>1, <1>2, <1>4 DEF ScanTyped

LEMMA ThreatNodeResult ==
    ASSUME ScanTyped, StoreThreatNode
    PROVE  /\ scan.at = "threat node" /\ row' = row
           /\ SameStores /\ SameFeatures /\ ScanTyped'
           /\ \/ node' = scan.held /\ Goes("reread")
              \/ Slips("reread")
<1>1. scan.at = "threat node" /\ row' = row /\ SameStores /\ SameFeatures
  BY FeaturesStay DEF StoreThreatNode, SameStores
<1>2. \/ node' = scan.held /\ Goes("reread")
      \/ node' = node /\ Slips("reread")
  BY <1>1, GoResult DEF StoreThreatNode, ScanTyped, Steps
<1> QED BY <1>1, <1>2 DEF ScanTyped, IsScan, Becomes, Goes, Slips

\* What the list of the task takes.
ReadAgain == IF row = Nothing THEN scan.memory ELSE row

LEMMA RereadResult ==
    ASSUME ScanTyped, ReadServiceAgain
    PROVE  /\ scan.at = "reread" /\ SameService
           /\ SameStores /\ SameFeatures /\ ScanTyped'
           /\ \/ Becomes("delete", ReadAgain, scan.held, scan.found, scan.did, scan.clean)
              \/ GoesStale
<1>1. scan.at = "reread" /\ SameService /\ SameStores /\ SameFeatures
  BY FeaturesStay DEF ReadServiceAgain, storage, SameService, SameStores
<1>2. ReadAgain \in Payload
  BY DEF ReadAgain, ScanTyped, IsScan
<1>3. \/ scan' = [Go("delete") EXCEPT !.memory = ReadAgain]
      \/ scan' = [Unclean(Go("delete")) EXCEPT !.stale = TRUE]
  <2>1. Go("delete").memory = scan.memory
    BY DEF ScanTyped, IsScan, Go
  <2> QED BY <2>1 DEF ReadServiceAgain, ReadAgain
<1>4. \/ Becomes("delete", ReadAgain, scan.held, scan.found, scan.did, scan.clean)
      \/ GoesStale
  <2>1. "delete" \in Steps
    BY DEF Steps
  <2>2. CASE scan' = [Unclean(Go("delete")) EXCEPT !.stale = TRUE]
    <3>1. /\ DOMAIN scan' = DOMAIN scan /\ scan'.n = scan.n /\ scan'.options = scan.options
          /\ scan'.at = "delete" /\ scan'.memory = scan.memory /\ scan'.held = scan.held
          /\ scan'.did = scan.did /\ scan'.stale = TRUE /\ scan'.clean = FALSE
      BY <2>2 DEF Unclean, Go, ScanTyped, IsScan
    <3> QED BY <1>1, <2>1, <3>1 DEF GoesStale, ScanTyped, IsScan
  <2> QED BY <1>1, <1>2, <1>3, <2>1, <2>2, MemoryResult DEF ScanTyped
<1> QED BY <1>1, <1>4 DEF ScanTyped, SameService, Becomes, GoesStale

LEMMA AfterConsolidationIsStep ==
    AfterConsolidation \in {"exploit", "ended"} /\ AfterConsolidation \in Steps
  BY DEF AfterConsolidation, Steps

LEMMA DeleteStoresResult ==
    ASSUME ScanTyped, DeleteStores
    PROVE  /\ scan.at = "delete" /\ SameService /\ SameFeatures /\ ScanTyped'
           /\ \/ storeRows' = {} /\ storeNodes' = {} /\ Goes("consolidate")
              \/ \E step \in {"exploit", "ended"} : Slips(step)
<1>1. scan.at = "delete" /\ SameService /\ SameFeatures
  BY FeaturesStay DEF DeleteStores, SameService
<1>2. \/ storeRows' = {} /\ storeNodes' = {} /\ Goes("consolidate")
      \/ Slips(AfterConsolidation)
  <2>1. "consolidate" \in Steps
    BY DEF Steps
  <2> QED BY <1>1, <2>1, GoResult, AfterConsolidationIsStep
          DEF DeleteStores, DeletedNodes, ScanTyped
<1> QED BY <1>1, <1>2, AfterConsolidationIsStep
        DEF ScanTyped, SameService, Becomes, Goes, Slips

LEMMA ConsolidateResult ==
    ASSUME ScanTyped, Consolidate
    PROVE  /\ scan.at = "consolidate" /\ SameService
           /\ SameStores /\ SameFeatures /\ ScanTyped'
           /\ \/ Becomes(IF Consolidated = {} THEN AfterConsolidation ELSE "store rows",
                         scan.memory, scan.held, Consolidated, scan.did, scan.clean)
              \/ Slips(AfterConsolidation)
<1>1. scan.at = "consolidate" /\ SameService /\ SameStores /\ SameFeatures
  BY FeaturesStay DEF Consolidate, storage, SameService, SameStores
<1> DEFINE step == IF Consolidated = {} THEN AfterConsolidation ELSE "store rows"
<1>2. step \in Steps
  BY AfterConsolidationIsStep DEF Steps
<1>3. \/ scan' = [Go(step) EXCEPT !.found = Consolidated]
      \/ scan' = Unclean(Go(AfterConsolidation))
  BY DEF Consolidate
<1> HIDE DEF step
<1>4. \/ Becomes(step, scan.memory, scan.held, Consolidated, scan.did, scan.clean)
      \/ Slips(AfterConsolidation)
  BY <1>1, <1>2, <1>3, AfterConsolidationIsStep, GoResult, FoundResult DEF ScanTyped
<1>5. ScanTyped'
  BY <1>1, <1>4 DEF ScanTyped, SameService, Becomes, Slips
<1> QED BY <1>1, <1>4, <1>5 DEF step

LEMMA StoreRowsOfStoresResult ==
    ASSUME ScanTyped, StoreStoreRows
    PROVE  /\ scan.at = "store rows" /\ SameService /\ SameFeatures /\ ScanTyped'
           /\ storeNodes' = storeNodes /\ storeEdges' = storeEdges
           /\ \/ storeRows' = storeRows \union scan.found /\ Goes("store nodes")
              \/ Slips("store nodes")
<1>1. scan.at = "store rows" /\ SameService /\ SameFeatures
  BY FeaturesStay DEF StoreStoreRows, SameService
<1>2. \/ storeRows' = storeRows \union scan.found /\ Goes("store nodes")
      \/ Slips("store nodes")
  BY <1>1, GoResult DEF StoreStoreRows, ScanTyped, Steps
<1>3. storeNodes' = storeNodes /\ storeEdges' = storeEdges
  BY DEF StoreStoreRows
<1> QED BY <1>1, <1>2, <1>3 DEF ScanTyped, SameService, Becomes, Goes, Slips

LEMMA StoreNodesOfStoresResult ==
    ASSUME ScanTyped, StoreStoreNodes
    PROVE  /\ scan.at = "store nodes" /\ SameService /\ SameFeatures /\ ScanTyped'
           /\ storeRows' = storeRows /\ storeEdges' = storeEdges
           /\ \/ storeNodes' = storeNodes \union scan.found /\ Goes("store edges")
              \/ Slips("store edges")
<1>1. scan.at = "store nodes" /\ SameService /\ SameFeatures
  BY FeaturesStay DEF StoreStoreNodes, SameService
<1>2. \/ storeNodes' = storeNodes \union scan.found /\ Goes("store edges")
      \/ Slips("store edges")
  BY <1>1, GoResult DEF StoreStoreNodes, ScanTyped, Steps
<1>3. storeRows' = storeRows /\ storeEdges' = storeEdges
  BY DEF StoreStoreNodes
<1> QED BY <1>1, <1>2, <1>3 DEF ScanTyped, SameService, Becomes, Goes, Slips

LEMMA StoreEdgesOfStoresResult ==
    ASSUME ScanTyped, StoreStoreEdges
    PROVE  /\ scan.at = "store edges" /\ SameService /\ SameFeatures /\ ScanTyped'
           /\ storeRows' = storeRows /\ storeNodes' = storeNodes
           /\ \/ storeEdges' = storeEdges \union scan.found /\ Goes(AfterConsolidation)
              \/ Slips(AfterConsolidation)
<1>1. scan.at = "store edges" /\ SameService /\ SameFeatures
  BY FeaturesStay DEF StoreStoreEdges, SameService
<1>2. \/ storeEdges' = storeEdges \union scan.found /\ Goes(AfterConsolidation)
      \/ Slips(AfterConsolidation)
  BY <1>1, GoResult, AfterConsolidationIsStep DEF StoreStoreEdges, ScanTyped
<1>3. storeRows' = storeRows /\ storeNodes' = storeNodes
  BY DEF StoreStoreEdges
<1> QED BY <1>1, <1>2, <1>3 DEF ScanTyped, SameService, Becomes, Goes, Slips

\* What the analysis of exploitability makes of the copy.
Weighed(s) == [scan.memory EXCEPT !["exploit"] = scan.n, !["severity"] = s]

LEMMA WeighedResult ==
    ASSUME ScanTyped, NEW s \in Adjusted(scan.memory["severity"])
    PROVE  /\ Weighed(s) \in Payload
           /\ Weighed(s)["exploit"] = scan.n /\ Weighed(s)["severity"] = s
           /\ \A f \in Fields \ {"exploit", "severity"} : Weighed(s)[f] = scan.memory[f]
<1>1. scan.memory \in Payload /\ scan.n \in Nat
  BY DEF ScanTyped, IsScan
<1>2. s \in Nat
  <2>1. scan.memory["severity"] \in Nat
    BY <1>1 DEF Payload, Fields
  <2> QED BY <2>1 DEF Adjusted
<1> QED BY <1>1, <1>2 DEF Weighed, Payload, Fields

LEMMA ExploitabilityResult ==
    ASSUME ScanTyped, AnalyseExploitability
    PROVE  /\ scan.at = "exploit" /\ node' = node
           /\ SameStores /\ SameFeatures /\ ScanTyped'
           /\ \/ scan.memory["threats"] = 0 /\ row' = row /\ Goes("ended")
              \/ \E s \in Adjusted(scan.memory["severity"]) :
                    \/ /\ row' = Merge(row, Weighed(s))
                       /\ Becomes("ended", Weighed(s), scan.held, scan.found,
                                  scan.did, scan.clean)
                    \/ /\ row' = row
                       /\ Becomes("ended", Weighed(s), scan.held, scan.found,
                                  scan.did, FALSE)
              \/ row' = row /\ Slips("ended")
<1>1. /\ scan.at = "exploit" /\ node' = node /\ SameStores /\ SameFeatures
      /\ IsScan(scan) /\ "ended" \in Steps
  BY FeaturesStay DEF AnalyseExploitability, SameStores, ScanTyped, Steps
<1>2. CASE scan.memory["threats"] = 0
  <2>1. row' = row /\ Goes("ended")
    BY <1>1, <1>2, GoResult DEF AnalyseExploitability
  <2> QED BY <1>1, <1>2, <2>1 DEF ScanTyped, Becomes, Goes
<1>3. CASE /\ scan.memory["threats"] # 0
           /\ row' = row /\ scan' = Unclean(Go("ended"))
  <2>1. Slips("ended")
    BY <1>1, <1>3, GoResult
  <2> QED BY <1>1, <1>3, <2>1 DEF ScanTyped, Becomes, Slips
<1>4. ASSUME NEW s \in Adjusted(scan.memory["severity"]),
             \/ row' = Merge(row, Weighed(s)) /\ scan' = [Go("ended") EXCEPT !.memory = Weighed(s)]
             \/ row' = row /\ scan' = [Unclean(Go("ended")) EXCEPT !.memory = Weighed(s)]
      PROVE  /\ ScanTyped'
             /\ \/ /\ row' = Merge(row, Weighed(s))
                   /\ Becomes("ended", Weighed(s), scan.held, scan.found,
                              scan.did, scan.clean)
                \/ /\ row' = row
                   /\ Becomes("ended", Weighed(s), scan.held, scan.found,
                              scan.did, FALSE)
  <2>1. Weighed(s) \in Payload
    BY WeighedResult
  <2>2. \/ /\ row' = Merge(row, Weighed(s))
           /\ Becomes("ended", Weighed(s), scan.held, scan.found, scan.did, scan.clean)
        \/ /\ row' = row
           /\ Becomes("ended", Weighed(s), scan.held, scan.found, scan.did, FALSE)
    BY <1>1, <1>4, <2>1, MemoryResult
  <2> QED BY <1>1, <2>1, <2>2, MergeResult DEF ScanTyped, Becomes
<1> QED BY <1>1, <1>2, <1>3, <1>4 DEF AnalyseExploitability, Weighed

LEMMA StartScanResult ==
    ASSUME ScanTyped, StartScan
    PROVE  /\ scan.at = "ended" /\ SameService
           /\ SameStores /\ SameFeatures /\ ScanTyped'
           /\ scan'.at = "read" /\ scan'.n = scan.n + 1
           /\ scan'.memory = Bare(scan.n + 1) /\ scan'.held = Nothing /\ scan'.did = {}
           /\ ~scan'.stale
<1>1. scan.at = "ended" /\ SameService /\ SameStores /\ SameFeatures /\ scan.n \in Nat
  BY FeaturesStay DEF StartScan, storage, SameService, SameStores, ScanTyped, IsScan
<1>2. scan.n + 1 \in Nat /\ scan.n + 1 > 0
  BY <1>1
<1>3. PICK o \in ScanOptions :
         scan' = [n |-> scan.n + 1, at |-> "read", options |-> o,
                  memory |-> Bare(scan.n + 1), held |-> Nothing, found |-> {},
                  did |-> {}, stale |-> FALSE, clean |-> TRUE]
  BY KnowledgeAssumption DEF StartScan, Bare
<1>4. IsScan(scan')
  BY <1>2, <1>3, BareResult, NothingIsPayload DEF IsScan, Steps
<1> QED BY <1>1, <1>3, <1>4 DEF ScanTyped, SameService

LEMMA DeleteDataResult ==
    ASSUME ScanTyped, DeleteTenantData
    PROVE  ScanTyped' /\ row' = Nothing /\ node' = node /\ Slips(scan.at)
  BY UncleanResult, NothingIsPayload DEF DeleteTenantData, ScanTyped, Slips, Becomes

LEMMA DeleteGraphResult ==
    ASSUME ScanTyped, DeleteTenantGraph
    PROVE  ScanTyped' /\ row' = row /\ node' = Nothing /\ Slips(scan.at)
  BY UncleanResult, NothingIsPayload DEF DeleteTenantGraph, ScanTyped, Slips, Becomes

-----------------------------------------------------------------------------
(* No field goes back.                                                     *)

\* What is laid over the row and not behind it takes it forward.
LEMMA RowAdvances ==
    ASSUME NEW p \in Payload, NEW q \in Payload, NEW n \in Nat, row \in Payload,
           \A f \in Stamped : row[f] <= q[f], \A f \in Stamped : q[f] <= n,
           NotBehind(p), \A f \in Stamped : p[f] <= n,
           \A f \in Stamped : p[f] # 0 \/ row[f] <= q[f],
           row' = Merge(q, p)
    PROVE  \A f \in Stamped : /\ row'[f] >= row[f] /\ row'[f] <= n
                              /\ p[f] = 0 \/ p[f] >= row'[f]
<1> SUFFICES ASSUME NEW f \in Stamped
             PROVE  /\ row'[f] >= row[f] /\ row'[f] <= n
                    /\ p[f] = 0 \/ p[f] >= row'[f]
  OBVIOUS
<1>1. f \in Fields /\ p[f] \in Nat /\ q[f] \in Nat /\ row[f] \in Nat
  BY DEF Stamped, Payload
<1>2. row'[f] = IF p[f] # 0 THEN p[f] ELSE q[f]
  BY <1>1, MergeResult
<1>3. p[f] = 0 \/ p[f] >= row[f]
  BY DEF NotBehind
<1> QED BY <1>1, <1>2, <1>3

\* What holds of one number.
LEMMA NumbersAreReflexive == \A x \in Nat : x <= x /\ x >= x
  OBVIOUS

\* A step that moves the scan alone, and no copy.
LEMMA QuietStep ==
    ASSUME AdvanceInv, ScanTyped', row' = row, scan'.n = scan.n,
           scan'.memory = scan.memory, scan'.held = scan.held, scan'.stale = scan.stale,
           scan'.at \notin {"rows", "threats"},
           scan.at \notin {"threat node", "reread"} \/ scan'.at = "reread"
    PROVE  AdvanceInv' /\ \A f \in Stamped : row'[f] >= row[f]
<1>1. StampsAreOld'
  BY DEF AdvanceInv, StampsAreOld
<1>2. CopiesNotBehind'
  BY DEF AdvanceInv, CopiesNotBehind, NotBehind
<1>3. ASSUME NEW f \in Stamped PROVE row[f] >= row[f]
  <2>1. row[f] \in Nat
    BY DEF AdvanceInv, ScanTyped, Payload, Stamped
  <2> QED BY <2>1, NumbersAreReflexive
<1> QED BY <1>1, <1>2, <1>3 DEF AdvanceInv

\* The same of a step as the model writes it.
LEMMA QuietMove ==
    ASSUME AdvanceInv, ScanTyped', row' = row, NEW step, Goes(step) \/ Slips(step),
           step \notin {"rows", "threats"},
           scan.at \notin {"threat node", "reread"} \/ step = "reread"
    PROVE  AdvanceInv' /\ \A f \in Stamped : row'[f] >= row[f]
  BY QuietStep DEF Goes, Slips, Becomes

\* A step that stores a copy that is not behind.
LEMMA StoringStep ==
    ASSUME AdvanceInv, ScanTyped', NEW p \in Payload, NotBehind(p),
           \A f \in Stamped : p[f] <= scan.n, row' = Merge(row, p),
           scan'.n = scan.n, scan'.held = scan.held,
           scan'.memory = p \/ (scan'.memory = scan.memory /\ scan'.at = "threat node"),
           scan'.at \notin {"rows", "threats"}
    PROVE  AdvanceInv' /\ \A f \in Stamped : row'[f] >= row[f]
<1>1. /\ row \in Payload /\ scan.n \in Nat
      /\ \A f \in Stamped : row[f] \in Nat /\ row[f] <= scan.n
  BY DEF AdvanceInv, ScanTyped, IsScan, StampsAreOld, Stamped, Payload
<1>2. ASSUME NEW f \in Stamped PROVE row[f] <= row[f]
  <2>1. row[f] \in Nat
    BY <1>1
  <2> QED BY <2>1, NumbersAreReflexive
<1>3. \A f \in Stamped : /\ row'[f] >= row[f] /\ row'[f] <= scan.n
                         /\ p[f] = 0 \/ p[f] >= row'[f]
  BY <1>1, <1>2, RowAdvances
<1>4. \A f \in Stamped : scan.memory[f] <= scan.n /\ scan.held[f] <= scan.n
  BY DEF AdvanceInv, StampsAreOld
<1>5. StampsAreOld'
  BY <1>3, <1>4 DEF StampsAreOld
<1>6. CopiesNotBehind'
  BY <1>3 DEF CopiesNotBehind, NotBehind
<1> QED BY <1>3, <1>5, <1>6 DEF AdvanceInv

\* Every step of a scan or beside it, with what it does to the row.
LEMMA AdvanceStep ==
    ASSUME AdvanceInv, Remembers, KnowledgeNext
    PROVE  /\ AdvanceInv'
           /\ \/ row' = Nothing \/ \A f \in Stamped : row'[f] >= row[f]
              \/ \A f \in Stamped : row'[f] >= row[f] \/ Forgets(f)
<1>0. ScanTyped /\ StampsAreOld /\ CopiesNotBehind
  BY DEF AdvanceInv
<1>1. /\ row \in Payload /\ scan.n \in Nat /\ scan.memory \in Payload /\ scan.held \in Payload
      /\ \A f \in Stamped :
            row[f] \in Nat /\ scan.memory[f] \in Nat /\ scan.held[f] \in Nat
                            /\ f \in Fields
  BY <1>0 DEF ScanTyped, IsScan, Payload, Stamped
<1>2. \A f \in Stamped : row[f] >= row[f]
  BY <1>1
<1>24. scan.at \in {"rows", "fetch", "analyse", "model"} => NotBehind(scan.memory)
  BY <1>0 DEF CopiesNotBehind, Remembers, Late, Consolidating
<1>3. CASE StartScan
  <2>1. /\ row' = row /\ scan'.n = scan.n + 1 /\ scan'.at = "read"
        /\ scan'.memory = Bare(scan.n + 1) /\ scan'.held = Nothing /\ ScanTyped'
    BY <1>0, <1>3, StartScanResult DEF SameService
  <2>2. \A f \in Stamped : /\ row[f] <= scan.n + 1 /\ Nothing[f] <= scan.n + 1
                           /\ Bare(scan.n + 1)[f] <= scan.n + 1
                           /\ Bare(scan.n + 1)[f] = 0 \/ Bare(scan.n + 1)[f] >= row[f]
    <3> SUFFICES ASSUME NEW f \in Stamped
                 PROVE  /\ row[f] <= scan.n + 1 /\ Nothing[f] <= scan.n + 1
                        /\ Bare(scan.n + 1)[f] <= scan.n + 1
                        /\ Bare(scan.n + 1)[f] = 0 \/ Bare(scan.n + 1)[f] >= row[f]
      OBVIOUS
    <3>1. row[f] <= scan.n /\ f \in Fields /\ row[f] \in Nat
      BY <1>0, <1>1 DEF StampsAreOld
    <3>2. Nothing[f] = 0 /\ Bare(scan.n + 1)[f] \in {0, scan.n + 1}
      <4>1. scan.n + 1 \in Nat
        BY <1>1
      <4> QED BY <3>1, <4>1, NothingIsPayload, BareResult
    <3> QED BY <1>1, <3>1, <3>2
  <2>3. StampsAreOld' /\ CopiesNotBehind'
    BY <2>1, <2>2 DEF StampsAreOld, CopiesNotBehind, NotBehind
  <2> QED BY <1>2, <2>1, <2>3 DEF AdvanceInv
<1>4. CASE ReadPrevious
  <2>1. /\ scan.at = "read" /\ row' = row /\ ScanTyped'
        /\ \/ Becomes("rows", scan.memory, row, scan.found, scan.did, scan.clean)
           \/ Slips("nodes")
    BY <1>0, <1>4, ReadPreviousResult DEF SameService
  <2>2. CASE Becomes("rows", scan.memory, row, scan.found, scan.did, scan.clean)
    <3>1. StampsAreOld'
      BY <1>0, <2>1, <2>2 DEF StampsAreOld, Becomes
    <3>2. \A f \in Stamped : row[f] <= row[f]
      BY <1>1
    <3>3. CopiesNotBehind'
      BY <1>0, <2>1, <2>2, <3>2 DEF CopiesNotBehind, NotBehind, Becomes
    <3> QED BY <1>2, <2>1, <3>1, <3>3 DEF AdvanceInv
  <2>3. CASE Slips("nodes")
    BY <1>2, <2>1, <2>3, QuietMove
  <2> QED BY <2>1, <2>2, <2>3
<1>5. CASE StoreRows
  <2>1. /\ scan.at = "rows" /\ ScanTyped'
        /\ \/ row' = Merge(scan.held, scan.memory) /\ Goes("nodes")
           \/ row' = row /\ Slips("nodes")
    BY <1>0, <1>5, StoreRowsResult
  <2>2. CASE row' = Merge(scan.held, scan.memory) /\ Goes("nodes")
    <3>1. NotBehind(scan.memory) /\ \A f \in Stamped : row[f] <= scan.held[f]
      BY <1>0, <1>24, <2>1 DEF CopiesNotBehind
    <3>2. \A f \in Stamped : scan.held[f] <= scan.n /\ scan.memory[f] <= scan.n
      BY <1>0 DEF StampsAreOld
    <3>3. \A f \in Stamped : /\ row'[f] >= row[f] /\ row'[f] <= scan.n
                             /\ scan.memory[f] = 0 \/ scan.memory[f] >= row'[f]
      BY <1>1, <2>2, <3>1, <3>2, RowAdvances
    <3>4. StampsAreOld' /\ CopiesNotBehind'
      BY <2>2, <3>2, <3>3 DEF StampsAreOld, CopiesNotBehind, NotBehind, Goes, Becomes
    <3> QED BY <2>1, <3>3, <3>4 DEF AdvanceInv
  <2>3. CASE row' = row /\ Slips("nodes")
    BY <1>2, <2>1, <2>3, QuietMove
  <2> QED BY <2>1, <2>2, <2>3
<1>6. CASE StoreNodes
  BY <1>0, <1>2, <1>6, StoreNodesResult, QuietMove
<1>7. CASE FetchDbEntities
  <2>1. /\ scan.at = "fetch" /\ row' = row /\ ScanTyped'
        /\ \E step \in {"analyse", "extract", "delete"} :
              \/ Becomes(step, Merge(row, scan.memory), scan.held, scan.found,
                         scan.did, scan.clean)
              \/ Slips(step)
    BY <1>0, <1>7, FetchResult DEF SameService
  <2>2. PICK step \in {"analyse", "extract", "delete"} :
              \/ Becomes(step, Merge(row, scan.memory), scan.held, scan.found,
                         scan.did, scan.clean)
              \/ Slips(step)
    BY <2>1
  <2>3. CASE Becomes(step, Merge(row, scan.memory), scan.held, scan.found,
                     scan.did, scan.clean)
    <3> DEFINE merged == Merge(row, scan.memory)
    <3>1. \A f \in Stamped : merged[f] >= row[f] /\ merged[f] <= scan.n
      <4> SUFFICES ASSUME NEW f \in Stamped
                   PROVE  merged[f] >= row[f] /\ merged[f] <= scan.n
        OBVIOUS
      <4>1. merged[f] = IF scan.memory[f] # 0 THEN scan.memory[f] ELSE row[f]
        BY <1>1, MergeResult
      <4>2. scan.memory[f] = 0 \/ scan.memory[f] >= row[f]
        BY <1>24, <2>1 DEF NotBehind
      <4>3. row[f] <= scan.n /\ scan.memory[f] <= scan.n
        BY <1>0 DEF StampsAreOld
      <4> HIDE DEF merged
      <4> QED BY <1>1, <4>1, <4>2, <4>3
    <3> HIDE DEF merged
    <3>2. StampsAreOld' /\ CopiesNotBehind'
      BY <1>0, <2>1, <2>3, <3>1
         DEF StampsAreOld, CopiesNotBehind, NotBehind, Becomes, merged
    <3> QED BY <1>2, <2>1, <3>2 DEF AdvanceInv
  <2>4. CASE Slips(step)
    BY <1>2, <2>1, <2>2, <2>4, QuietMove
  <2> QED BY <2>2, <2>3, <2>4
<1>8. CASE AnalyseService
  <2>1. /\ scan.at = "analyse" /\ ScanTyped' /\ Analysed \in Payload
        /\ \/ /\ row' = Merge(row, Analysed)
              /\ Becomes("node", Analysed, scan.held, scan.found,
                         scan.did \union {"analysis"}, scan.clean)
           \/ /\ row' = row
              /\ Becomes("node", Analysed, scan.held, scan.found,
                         scan.did \union {"analysis"}, FALSE)
           \/ /\ row' = row
              /\ \E step \in {"extract", "delete"} : Slips(step)
    BY <1>0, <1>8, AnalyseResult
  <2>2. /\ Analysed["analysis"] = scan.n
        /\ \A f \in Fields \ {"analysis"} : Analysed[f] = scan.memory[f]
    BY <1>1 DEF Analysed, Payload, Fields
  <2>3. NotBehind(Analysed) /\ \A f \in Stamped : Analysed[f] <= scan.n
    <3>1. NotBehind(scan.memory)
      BY <1>24, <2>1
    <3>2. \A f \in Stamped : row[f] <= scan.n /\ scan.memory[f] <= scan.n
      BY <1>0 DEF StampsAreOld
    <3>3. ASSUME NEW f \in Stamped
          PROVE  (Analysed[f] = 0 \/ Analysed[f] >= row[f]) /\ Analysed[f] <= scan.n
      BY <1>1, <2>2, <3>1, <3>2 DEF NotBehind
    <3> QED BY <3>3 DEF NotBehind
  <2>4. CASE /\ row' = Merge(row, Analysed)
             /\ Becomes("node", Analysed, scan.held, scan.found,
                        scan.did \union {"analysis"}, scan.clean)
    BY <2>1, <2>3, <2>4, StoringStep DEF Becomes
  <2>5. CASE /\ row' = row
             /\ Becomes("node", Analysed, scan.held, scan.found,
                        scan.did \union {"analysis"}, FALSE)
    <3>1. StampsAreOld' /\ CopiesNotBehind'
      BY <1>0, <2>1, <2>3, <2>5 DEF StampsAreOld, CopiesNotBehind, NotBehind, Becomes
    <3> QED BY <1>2, <2>1, <2>5, <3>1 DEF AdvanceInv
  <2>6. CASE row' = row /\ \E step \in {"extract", "delete"} : Slips(step)
    BY <1>2, <2>1, <2>6, QuietMove
  <2> QED BY <2>1, <2>4, <2>5, <2>6
<1>9. CASE StoreAnalysedNode
  BY <1>0, <1>2, <1>9, AnalysedNodeResult, QuietMove
<1>10. CASE ExtractServiceFeatures
  BY <1>0, <1>2, <1>10, ExtractFeaturesResult, QuietMove DEF SameService
<1>11. CASE PersistFeatures
  <2>1. /\ scan.at = "catalog" /\ row' = row /\ ScanTyped' /\ (scan' = scan \/ Goes("model"))
    BY <1>0, <1>11, PersistFeaturesResult DEF SameService
  <2>2. CASE scan' = scan
    <3>1. StampsAreOld' /\ CopiesNotBehind'
      BY <1>0, <2>1, <2>2 DEF StampsAreOld, CopiesNotBehind, NotBehind
    <3> QED BY <1>2, <2>1, <3>1 DEF AdvanceInv
  <2>3. CASE Goes("model")
    BY <1>2, <2>1, <2>3, QuietMove
  <2> QED BY <2>1, <2>2, <2>3
<1>12. CASE ModelThreats
  <2>1. /\ scan.at = "model" /\ row' = row /\ ScanTyped'
        /\ \/ Becomes("threats", scan.memory, Threatened, scan.found, scan.did, scan.clean)
           \/ Slips("reread")
    BY <1>0, <1>12, ModelThreatsResult DEF SameService
  <2>2. NotBehind(ThreatBase) /\ \A f \in Stamped : ThreatBase[f] <= scan.n
    BY <1>0, <1>2, <1>24, <2>1 DEF ThreatBase, NotBehind, StampsAreOld
  <2>3. ASSUME NEW f \in Stamped
        PROVE  /\ Threatened[f] = 0 \/ Threatened[f] >= row[f]
               /\ Threatened[f] <= scan.n
    <3>1. CASE f = "threats"
      <4>1. Threatened[f] = scan.n /\ row[f] <= scan.n
        BY <1>0, <3>1, ThreatenedResult DEF StampsAreOld
      <4> QED BY <1>1, <4>1
    <3>2. CASE f # "threats"
      <4>1. Threatened[f] = ThreatBase[f]
        BY <1>0, <3>2, ThreatenedResult DEF Stamped
      <4> QED BY <2>2, <4>1 DEF NotBehind
    <3> QED BY <3>1, <3>2
  <2>4. CASE Becomes("threats", scan.memory, Threatened, scan.found, scan.did, scan.clean)
    <3>1. StampsAreOld'
      BY <1>0, <2>1, <2>3, <2>4 DEF StampsAreOld, Becomes
    <3>2. CopiesNotBehind'
      BY <1>0, <2>1, <2>3, <2>4 DEF CopiesNotBehind, NotBehind, Becomes
    <3> QED BY <1>2, <2>1, <3>1, <3>2 DEF AdvanceInv
  <2>5. CASE Slips("reread")
    BY <1>2, <2>1, <2>5, QuietMove
  <2> QED BY <2>1, <2>4, <2>5
<1>13. CASE StoreThreats
  <2>1. /\ scan.at = "threats" /\ ScanTyped'
        /\ \/ /\ row' = Merge(row, scan.held)
              /\ Becomes("threat node", scan.memory, scan.held, scan.found,
                         scan.did \union {"threats"}, scan.clean)
           \/ row' = row /\ Slips("reread")
    BY <1>0, <1>13, StoreThreatsResult
  <2>2. CASE /\ row' = Merge(row, scan.held)
             /\ Becomes("threat node", scan.memory, scan.held, scan.found,
                        scan.did \union {"threats"}, scan.clean)
    <3>1. NotBehind(scan.held) /\ \A f \in Stamped : scan.held[f] <= scan.n
      BY <1>0, <2>1 DEF CopiesNotBehind, StampsAreOld
    <3> QED BY <1>1, <2>1, <2>2, <3>1, StoringStep DEF Becomes
  <2>3. CASE row' = row /\ Slips("reread")
    BY <1>2, <2>1, <2>3, QuietMove
  <2> QED BY <2>1, <2>2, <2>3
<1>14. CASE StoreThreatNode
  BY <1>0, <1>2, <1>14, ThreatNodeResult, QuietMove
<1>15. CASE ReadServiceAgain
  <2>1. /\ scan.at = "reread" /\ row' = row /\ ScanTyped'
        /\ \/ Becomes("delete", ReadAgain, scan.held, scan.found, scan.did, scan.clean)
           \/ GoesStale
    BY <1>0, <1>15, RereadResult DEF SameService
  <2>2. \A f \in Stamped : ReadAgain[f] <= scan.n /\ ReadAgain[f] >= row[f]
    <3>1. CASE row = Nothing
      <4>1. \A f \in Stamped : ReadAgain[f] = scan.memory[f] /\ row[f] = 0
        BY <1>1, <3>1, NothingIsPayload DEF ReadAgain
      <4> QED BY <1>0, <1>1, <4>1 DEF StampsAreOld
    <3>2. CASE row # Nothing
      BY <1>0, <1>2, <3>2 DEF ReadAgain, StampsAreOld
    <3> QED BY <3>1, <3>2
  <2>3. CASE Becomes("delete", ReadAgain, scan.held, scan.found, scan.did, scan.clean)
    <3>1. StampsAreOld' /\ CopiesNotBehind'
      BY <1>0, <2>1, <2>2, <2>3 DEF StampsAreOld, CopiesNotBehind, NotBehind, Becomes
    <3> QED BY <1>2, <2>1, <3>1 DEF AdvanceInv
  <2>4. CASE GoesStale
    <3>1. StampsAreOld' /\ CopiesNotBehind'
      BY <1>0, <2>1, <2>4 DEF StampsAreOld, CopiesNotBehind, GoesStale
    <3> QED BY <1>2, <2>1, <3>1 DEF AdvanceInv
  <2> QED BY <2>1, <2>3, <2>4
<1>16. CASE DeleteStores
  BY <1>0, <1>2, <1>16, DeleteStoresResult, QuietMove DEF SameService
<1>17. CASE Consolidate
  <2> DEFINE step == IF Consolidated = {} THEN AfterConsolidation ELSE "store rows"
  <2>1. /\ scan.at = "consolidate" /\ row' = row /\ ScanTyped'
        /\ \/ Becomes(step, scan.memory, scan.held, Consolidated, scan.did, scan.clean)
           \/ Slips(AfterConsolidation)
    BY <1>0, <1>17, ConsolidateResult DEF SameService
  <2>2. step \notin {"rows", "threats"} /\ AfterConsolidation \notin {"rows", "threats"}
    BY AfterConsolidationIsStep
  <2> HIDE DEF step
  <2> QED BY <1>2, <2>1, <2>2, QuietStep DEF Slips, Becomes
<1>18. CASE StoreStoreRows
  BY <1>0, <1>2, <1>18, StoreRowsOfStoresResult, QuietMove DEF SameService
<1>19. CASE StoreStoreNodes
  BY <1>0, <1>2, <1>19, StoreNodesOfStoresResult, QuietMove DEF SameService
<1>20. CASE StoreStoreEdges
  <2>1. AfterConsolidation \notin {"rows", "threats"}
    BY AfterConsolidationIsStep
  <2> QED BY <1>0, <1>2, <1>20, <2>1, StoreEdgesOfStoresResult, QuietMove
          DEF SameService
<1>21. CASE AnalyseExploitability
  <2>1. /\ scan.at = "exploit" /\ ScanTyped'
        /\ \/ row' = row /\ Goes("ended")
           \/ \E s \in Adjusted(scan.memory["severity"]) :
                 \/ /\ row' = Merge(row, Weighed(s))
                    /\ Becomes("ended", Weighed(s), scan.held, scan.found,
                               scan.did, scan.clean)
                 \/ /\ row' = row
                    /\ Becomes("ended", Weighed(s), scan.held, scan.found,
                               scan.did, FALSE)
           \/ row' = row /\ Slips("ended")
    BY <1>0, <1>21, ExploitabilityResult
  <2>2. CASE row' = row /\ (Goes("ended") \/ Slips("ended"))
    BY <1>2, <2>1, <2>2, QuietMove
  <2>3. ASSUME NEW s \in Adjusted(scan.memory["severity"])
        PROVE  /\ Weighed(s) \in Payload /\ \A f \in Stamped : Weighed(s)[f] <= scan.n
               /\ ~scan.stale => NotBehind(Weighed(s))
               /\ scan.stale => \A f \in Stamped :
                     Weighed(s)[f] = 0 \/ Weighed(s)[f] >= row[f] \/ Forgets(f)
    <3>1. ASSUME NEW f \in Stamped
          PROVE  /\ Weighed(s)[f] <= scan.n
                 /\ \/ Weighed(s)[f] = 0 \/ Weighed(s)[f] >= row[f]
                    \/ scan.stale /\ Forgets(f)
      <4>1. row[f] <= scan.n /\ scan.memory[f] <= scan.n
            /\ (\/ scan.memory[f] = 0 \/ scan.memory[f] >= row[f]
                \/ scan.stale /\ Forgets(f))
        BY <1>0, <2>1 DEF StampsAreOld, CopiesNotBehind, NotBehind, Remembers,
                          AlmostNotBehind, Forgets
      <4>2. Weighed(s)[f] \in {scan.n, scan.memory[f]}
        BY <1>0, WeighedResult DEF Stamped
      <4> QED BY <1>1, <4>1, <4>2
    <3> QED BY <1>0, <3>1, WeighedResult DEF NotBehind
  <2>4. ASSUME NEW s \in Adjusted(scan.memory["severity"]), ~scan.stale,
               row' = Merge(row, Weighed(s)),
               Becomes("ended", Weighed(s), scan.held, scan.found, scan.did, scan.clean)
        PROVE  AdvanceInv' /\ \A f \in Stamped : row'[f] >= row[f]
    BY <2>1, <2>3, <2>4, StoringStep DEF Becomes
  <2>5. ASSUME NEW s \in Adjusted(scan.memory["severity"]), row' = row,
               Becomes("ended", Weighed(s), scan.held, scan.found, scan.did, FALSE)
        PROVE  AdvanceInv'
    <3>1. /\ ~scan.stale => NotBehind(Weighed(s))
          /\ \A f \in Stamped : Weighed(s)[f] <= scan.n
      BY <2>3
    <3>2. StampsAreOld' /\ CopiesNotBehind'
      BY <1>0, <2>5, <3>1 DEF StampsAreOld, CopiesNotBehind, NotBehind, Becomes
    <3> QED BY <2>1, <3>2 DEF AdvanceInv
  <2>6. ASSUME NEW s \in Adjusted(scan.memory["severity"]), scan.stale,
               row' = Merge(row, Weighed(s)),
               Becomes("ended", Weighed(s), scan.held, scan.found, scan.did, scan.clean)
        PROVE  AdvanceInv' /\ \A f \in Stamped : row'[f] >= row[f] \/ Forgets(f)
    <3>1. ASSUME NEW f \in Stamped
          PROVE  row'[f] <= scan.n /\ (row'[f] >= row[f] \/ Forgets(f))
      <4>1. row'[f] = IF Weighed(s)[f] # 0 THEN Weighed(s)[f] ELSE row[f]
        BY <1>1, <2>3, <2>6, MergeResult
      <4>2. /\ Weighed(s)[f] <= scan.n /\ row[f] <= scan.n
            /\ Weighed(s)[f] = 0 \/ Weighed(s)[f] >= row[f] \/ Forgets(f)
        BY <1>0, <2>3, <2>6 DEF StampsAreOld
      <4> QED BY <1>1, <4>1, <4>2
    <3>2. StampsAreOld' /\ CopiesNotBehind'
      BY <1>0, <2>3, <2>6, <3>1 DEF StampsAreOld, CopiesNotBehind, Becomes
    <3> QED BY <2>1, <3>1, <3>2 DEF AdvanceInv
  <2> QED BY <1>2, <2>1, <2>2, <2>4, <2>5, <2>6
<1>22. CASE DeleteTenantData
  <2>1. ScanTyped' /\ row' = Nothing /\ Slips(scan.at)
    BY <1>0, <1>22, DeleteDataResult
  <2>2. \A f \in Stamped : row'[f] = 0
    BY <2>1, NothingIsPayload DEF Stamped
  <2>3. StampsAreOld'
    BY <1>0, <1>1, <2>1, <2>2 DEF StampsAreOld, Slips, Becomes
  <2>4. \A f \in Stamped : /\ row'[f] <= scan.held[f] /\ row'[f] <= scan.memory[f]
    <3> SUFFICES ASSUME NEW f \in Stamped
                 PROVE  row'[f] <= scan.held[f] /\ row'[f] <= scan.memory[f]
      OBVIOUS
    <3>1. scan.held[f] \in Nat /\ scan.memory[f] \in Nat /\ row'[f] = 0
      BY <1>1, <2>2
    <3> QED BY <3>1
  <2>5. CopiesNotBehind'
    BY <2>1, <2>4 DEF CopiesNotBehind, NotBehind, Slips, Becomes
  <2> QED BY <2>1, <2>3, <2>5 DEF AdvanceInv
<1>23. CASE DeleteTenantGraph
  <2>1. ScanTyped' /\ row' = row /\ Slips(scan.at)
    BY <1>0, <1>23, DeleteGraphResult
  <2>2. StampsAreOld' /\ CopiesNotBehind'
    BY <1>0, <2>1 DEF StampsAreOld, CopiesNotBehind, NotBehind, Slips, Becomes
  <2> QED BY <1>2, <2>1, <2>2 DEF AdvanceInv
<1> QED BY <1>3, <1>4, <1>5, <1>6, <1>7, <1>8, <1>9, <1>10, <1>11, <1>12, <1>13, <1>14,
           <1>15, <1>16, <1>17, <1>18, <1>19, <1>20, <1>21, <1>22, <1>23
        DEF KnowledgeNext, ScanStep

LEMMA NothingIsOld == \A p \in Payload : \A f \in Stamped : p[f] >= Nothing[f]
<1> SUFFICES ASSUME NEW p \in Payload, NEW f \in Stamped PROVE p[f] >= Nothing[f]
  OBVIOUS
<1>1. p[f] \in Nat /\ Nothing[f] = 0
  BY NothingIsPayload DEF Payload, Stamped
<1> QED BY <1>1

LEMMA RemembersStays ==
    ASSUME AdvanceInv, Remembers, ScanTyped',
           scan'.n = scan.n, scan'.memory = scan.memory, scan'.held = scan.held,
           row' = row \/ row' = Nothing,
           scan'.stale => scan'.at \in Late,
           scan'.stale => scan.stale \/ scan.at = "reread",
           scan'.at = "threats" => scan.at = "threats",
           scan'.at \in {"threat node", "reread"} => scan.at \in {"threat node", "reread"}
    PROVE  Remembers'
<1>1. \A f \in Stamped : scan.memory[f] \in Nat /\ f \in Fields
  BY DEF AdvanceInv, ScanTyped, IsScan, Payload, Stamped
<1>2. AlmostNotBehind => AlmostNotBehind'
  <2>1. CASE row' = row
    BY <2>1 DEF AlmostNotBehind
  <2>2. CASE row' = Nothing
    <3>1. scan.memory \in Payload
      BY DEF AdvanceInv, ScanTyped, IsScan
    <3>2. \A f \in Stamped : scan.memory[f] >= row'[f]
      BY <2>2, <3>1, NothingIsOld
    <3> QED BY <3>2 DEF AlmostNotBehind
  <2> QED BY <2>1, <2>2
<1>3. scan'.stale \/ scan'.at \in {"threat node", "reread"} => AlmostNotBehind
  BY DEF Remembers
<1>4. scan'.at = "threats" => \A f \in Stamped :
          \/ f = "threats" /\ scan'.held[f] = scan'.n
          \/ f # "threats" /\ (scan'.memory[f] = 0 \/ scan'.memory[f] >= scan'.held[f])
  BY DEF Remembers
<1> QED BY <1>2, <1>3, <1>4 DEF Remembers

\* Nor does anything keep the scan from remembering.
LEMMA RemembersStep ==
    ASSUME AdvanceInv, Remembers, KnowledgeNext
    PROVE  Remembers'
<1>0. ScanTyped /\ StampsAreOld /\ CopiesNotBehind
  BY DEF AdvanceInv
<1>1. /\ row \in Payload /\ scan.n \in Nat /\ scan.memory \in Payload /\ scan.held \in Payload
      /\ \A f \in Stamped :
            row[f] \in Nat /\ scan.memory[f] \in Nat /\ scan.held[f] \in Nat
                            /\ f \in Fields
  BY <1>0 DEF ScanTyped, IsScan, Payload, Stamped
<1>2. scan.at \notin Late => ~scan.stale
  BY DEF Remembers
<1>3. scan.at \notin Late \union {"threat node", "reread"} => NotBehind(scan.memory)
  BY <1>0, <1>2 DEF CopiesNotBehind
<1>4. NotBehind(scan.memory) => AlmostNotBehind
  BY DEF NotBehind, AlmostNotBehind
<1>5. ASSUME ~scan'.stale, scan'.at \notin {"threats", "threat node", "reread"}
      PROVE  Remembers'
  BY <1>5 DEF Remembers
<1>6. ASSUME scan.at \notin Late \union {"threat node", "reread"}, row' = row, ScanTyped',
             Slips("reread") \/ Goes("reread")
      PROVE  Remembers'
  <2>1. AlmostNotBehind'
    BY <1>3, <1>4, <1>6 DEF AlmostNotBehind, Slips, Goes, Becomes
  <2> QED BY <1>2, <1>6, <2>1 DEF Remembers, Slips, Goes, Becomes
<1>7. CASE StartScan
  BY <1>0, <1>5, <1>7, StartScanResult
<1>8. CASE ReadPrevious
  BY <1>0, <1>2, <1>5, <1>8, ReadPreviousResult DEF Slips, Becomes, Late, Consolidating
<1>9. CASE StoreRows
  BY <1>0, <1>2, <1>5, <1>9, StoreRowsResult DEF Goes, Slips, Becomes, Late, Consolidating
<1>10. CASE StoreNodes
  BY <1>0, <1>2, <1>5, <1>10, StoreNodesResult DEF Goes, Slips, Becomes, Late, Consolidating
<1>11. CASE FetchDbEntities
  BY <1>0, <1>2, <1>5, <1>11, FetchResult DEF Slips, Becomes, Late, Consolidating
<1>12. CASE AnalyseService
  BY <1>0, <1>2, <1>5, <1>12, AnalyseResult DEF Slips, Becomes, Late, Consolidating
<1>13. CASE StoreAnalysedNode
  BY <1>0, <1>2, <1>5, <1>13, AnalysedNodeResult DEF Goes, Slips, Becomes, Late, Consolidating
<1>14. CASE ExtractServiceFeatures
  <2>1. /\ scan.at = "extract" /\ row' = row /\ ScanTyped'
        /\ \/ \E step \in {"catalog", "reread"} : Goes(step)
           \/ Slips("delete")
    BY <1>0, <1>14, ExtractFeaturesResult DEF SameService
  <2>2. CASE Goes("reread")
    BY <1>6, <2>1, <2>2 DEF Late, Consolidating
  <2>3. CASE Goes("catalog") \/ Slips("delete")
    BY <1>2, <1>5, <2>1, <2>3 DEF Goes, Slips, Becomes, Late, Consolidating
  <2> QED BY <2>1, <2>2, <2>3
<1>15. CASE PersistFeatures
  <2>1. /\ scan.at = "catalog" /\ (scan' = scan \/ Goes("model"))
    BY <1>0, <1>15, PersistFeaturesResult
  <2> QED BY <1>2, <1>5, <2>1 DEF Goes, Becomes, Late, Consolidating
<1>16. CASE ModelThreats
  <2>1. /\ scan.at = "model" /\ row' = row /\ ScanTyped'
        /\ \/ Becomes("threats", scan.memory, Threatened, scan.found, scan.did, scan.clean)
           \/ Slips("reread")
    BY <1>0, <1>16, ModelThreatsResult DEF SameService
  <2>2. CASE Becomes("threats", scan.memory, Threatened, scan.found, scan.did, scan.clean)
    <3>1. ASSUME NEW f \in Stamped
          PROVE  \/ f = "threats" /\ Threatened[f] = scan.n
                 \/ f # "threats" /\ (scan.memory[f] = 0 \/ scan.memory[f] >= Threatened[f])
      <4>1. CASE f = "threats"
        BY <1>0, <4>1, ThreatenedResult
      <4>2. CASE f # "threats"
        <5>1. Threatened[f] = ThreatBase[f]
          BY <1>0, <4>2, ThreatenedResult DEF Stamped
        <5>2. Threatened[f] \in {row[f], scan.memory[f]}
          BY <5>1 DEF ThreatBase
        <5>3. scan.memory[f] = 0 \/ scan.memory[f] >= row[f]
          BY <1>3, <2>1 DEF NotBehind, Late, Consolidating
        <5> QED BY <1>1, <4>2, <5>2, <5>3
      <4> QED BY <4>1, <4>2
    <3>2. ~scan'.stale /\ scan'.at = "threats" /\ scan'.n = scan.n
            /\ scan'.memory = scan.memory /\ scan'.held = Threatened
      BY <1>2, <2>1, <2>2 DEF Becomes, Late, Consolidating
    <3> QED BY <3>1, <3>2 DEF Remembers
  <2>3. CASE Slips("reread")
    BY <1>6, <2>1, <2>3 DEF Late, Consolidating
  <2> QED BY <2>1, <2>2, <2>3
<1>17. CASE StoreThreats
  <2>1. /\ scan.at = "threats" /\ ScanTyped'
        /\ \/ /\ row' = Merge(row, scan.held)
              /\ Becomes("threat node", scan.memory, scan.held, scan.found,
                         scan.did \union {"threats"}, scan.clean)
           \/ row' = row /\ Slips("reread")
    BY <1>0, <1>17, StoreThreatsResult
  <2>2. CASE /\ row' = Merge(row, scan.held)
             /\ Becomes("threat node", scan.memory, scan.held, scan.found,
                        scan.did \union {"threats"}, scan.clean)
    <3>1. ~scan'.stale /\ scan'.at = "threat node" /\ scan'.n = scan.n
            /\ scan'.memory = scan.memory
      BY <1>2, <2>1, <2>2 DEF Becomes, Late, Consolidating
    <3>2. scan.n > 0
      BY <1>0, <2>1 DEF ScanTyped, IsScan
    <3>3. ASSUME NEW f \in Stamped
          PROVE  \/ scan.memory[f] = 0 \/ scan.memory[f] >= row'[f]
                 \/ f = "threats" /\ row'[f] = scan.n
      <4>1. row'[f] = IF scan.held[f] # 0 THEN scan.held[f] ELSE row[f]
        BY <1>1, <2>2, MergeResult
      <4>2. scan.memory[f] = 0 \/ scan.memory[f] >= row[f]
        BY <1>3, <2>1 DEF NotBehind, Late, Consolidating
      <4>3. \/ f = "threats" /\ scan.held[f] = scan.n
            \/ scan.memory[f] = 0 \/ scan.memory[f] >= scan.held[f]
        BY <2>1 DEF Remembers
      <4> QED BY <1>1, <3>2, <4>1, <4>2, <4>3
    <3>4. AlmostNotBehind'
      BY <3>1, <3>3 DEF AlmostNotBehind
    <3> QED BY <3>1, <3>4 DEF Remembers
  <2>3. CASE row' = row /\ Slips("reread")
    BY <1>6, <2>1, <2>3 DEF Late, Consolidating
  <2> QED BY <2>1, <2>2, <2>3
<1>18. CASE StoreThreatNode
  BY <1>0, <1>2, <1>18, ThreatNodeResult, RemembersStays
     DEF Goes, Slips, Becomes, Late, Consolidating
<1>19. CASE ReadServiceAgain
  <2>1. /\ scan.at = "reread" /\ row' = row /\ ScanTyped'
        /\ \/ Becomes("delete", ReadAgain, scan.held, scan.found, scan.did, scan.clean)
           \/ GoesStale
    BY <1>0, <1>19, RereadResult DEF SameService
  <2>2. CASE Becomes("delete", ReadAgain, scan.held, scan.found, scan.did, scan.clean)
    BY <1>2, <1>5, <2>1, <2>2 DEF Becomes, Late, Consolidating
  <2>3. CASE GoesStale
    BY <2>1, <2>3, RemembersStays DEF GoesStale, Late, Consolidating
  <2> QED BY <2>1, <2>2, <2>3
<1>20. ASSUME row' = row, ScanTyped', scan.at \in Late,
              NEW step \in Late, Goes(step) \/ Slips(step)
       PROVE  Remembers'
  BY <1>20, RemembersStays DEF Goes, Slips, Becomes, Late, Consolidating
<1>21. CASE DeleteStores
  BY <1>0, <1>20, <1>21, DeleteStoresResult, AfterConsolidationIsStep
     DEF SameService, Late, Consolidating
<1>22. CASE Consolidate
  <2> DEFINE step == IF Consolidated = {} THEN AfterConsolidation ELSE "store rows"
  <2>1. /\ scan.at = "consolidate" /\ row' = row /\ ScanTyped'
        /\ \/ Becomes(step, scan.memory, scan.held, Consolidated, scan.did, scan.clean)
           \/ Slips(AfterConsolidation)
    BY <1>0, <1>22, ConsolidateResult DEF SameService
  <2>2. step \in Late /\ AfterConsolidation \in Late
    BY AfterConsolidationIsStep DEF Late, Consolidating
  <2> HIDE DEF step
  <2> QED BY <2>1, <2>2, RemembersStays DEF Slips, Becomes, Late, Consolidating
<1>23. CASE StoreStoreRows
  BY <1>0, <1>20, <1>23, StoreRowsOfStoresResult DEF SameService, Late, Consolidating
<1>24. CASE StoreStoreNodes
  BY <1>0, <1>20, <1>24, StoreNodesOfStoresResult DEF SameService, Late, Consolidating
<1>25. CASE StoreStoreEdges
  BY <1>0, <1>20, <1>25, StoreEdgesOfStoresResult, AfterConsolidationIsStep
     DEF SameService, Late, Consolidating
<1>26. CASE AnalyseExploitability
  <2>1. /\ scan.at = "exploit" /\ ScanTyped'
        /\ \/ row' = row /\ Goes("ended")
           \/ \E s \in Adjusted(scan.memory["severity"]) :
                 \/ /\ row' = Merge(row, Weighed(s))
                    /\ Becomes("ended", Weighed(s), scan.held, scan.found,
                               scan.did, scan.clean)
                 \/ /\ row' = row
                    /\ Becomes("ended", Weighed(s), scan.held, scan.found,
                               scan.did, FALSE)
           \/ row' = row /\ Slips("ended")
    BY <1>0, <1>26, ExploitabilityResult
  <2>2. CASE row' = row /\ (Goes("ended") \/ Slips("ended"))
    BY <1>20, <2>1, <2>2 DEF Late, Consolidating
  <2>3. ASSUME NEW s \in Adjusted(scan.memory["severity"]), NEW clean \in BOOLEAN,
               row' = Merge(row, Weighed(s)) \/ row' = row,
               Becomes("ended", Weighed(s), scan.held, scan.found, scan.did, clean)
        PROVE  Remembers'
    <3>1. scan'.at = "ended" /\ scan'.n = scan.n /\ scan'.memory = Weighed(s)
            /\ scan'.stale = scan.stale
      BY <2>3 DEF Becomes
    <3>2. CASE ~scan.stale
      BY <1>5, <3>1, <3>2
    <3>3. ASSUME scan.stale, NEW f \in Stamped
          PROVE  \/ Weighed(s)[f] = 0 \/ Weighed(s)[f] >= row'[f]
                 \/ f = "threats" /\ row'[f] = scan.n
      <4>1. /\ row[f] <= scan.n
            /\ \/ scan.memory[f] = 0 \/ scan.memory[f] >= row[f]
               \/ f = "threats" /\ row[f] = scan.n
        BY <1>0, <3>3 DEF Remembers, AlmostNotBehind, StampsAreOld
      <4>2. Weighed(s) \in Payload /\ Weighed(s)[f] \in Nat
            /\ Weighed(s)[f] = (IF f = "exploit" THEN scan.n ELSE scan.memory[f])
        BY <1>0, <1>1, WeighedResult DEF Stamped
      <4>3. CASE row' = row
        BY <1>1, <4>1, <4>2, <4>3
      <4>4. CASE row' = Merge(row, Weighed(s))
        <5>1. row'[f] = IF Weighed(s)[f] # 0 THEN Weighed(s)[f] ELSE row[f]
          BY <1>1, <4>2, <4>4, MergeResult
        <5> QED BY <1>1, <4>2, <5>1
      <4> QED BY <2>3, <4>3, <4>4
    <3>4. scan.stale => AlmostNotBehind'
      BY <3>1, <3>3 DEF AlmostNotBehind
    <3> QED BY <3>1, <3>2, <3>4 DEF Remembers, Late
  <2>4. scan.clean \in BOOLEAN
    BY <1>0 DEF ScanTyped, IsScan
  <2> QED BY <2>1, <2>2, <2>3, <2>4
<1>27. CASE DeleteTenantData
  BY <1>0, <1>27, DeleteDataResult, RemembersStays DEF Slips, Becomes, Remembers
<1>28. CASE DeleteTenantGraph
  BY <1>0, <1>28, DeleteGraphResult, RemembersStays DEF Slips, Becomes, Remembers
<1> QED BY <1>7, <1>8, <1>9, <1>10, <1>11, <1>12, <1>13, <1>14, <1>15, <1>16, <1>17,
           <1>18, <1>19, <1>21, <1>22, <1>23, <1>24, <1>25, <1>26, <1>27, <1>28
        DEF KnowledgeNext, ScanStep

LEMMA KnowledgeInitTyped ==
    ASSUME KnowledgeInit
    PROVE  ScanTyped /\ row = Nothing /\ ~scan.clean /\ AdvanceInv /\ Remembers
<1>1. /\ row = Nothing /\ node = Nothing /\ scan.n = 0 /\ scan.at = "ended" /\ ~scan.clean
      /\ scan.memory = Nothing /\ scan.held = Nothing /\ ~scan.stale /\ IsScan(scan)
  BY NothingIsPayload DEF KnowledgeInit, IsScan, Steps, NoOptions, ScanOptions
<1>2. ScanTyped
  BY <1>1, NothingIsPayload DEF ScanTyped
<1>3. \A f \in Stamped : Nothing[f] = 0
  BY NothingIsPayload DEF Stamped
<1>4. StampsAreOld /\ CopiesNotBehind
  BY <1>1, <1>3 DEF StampsAreOld, CopiesNotBehind, NotBehind
<1> QED BY <1>1, <1>2, <1>4 DEF AdvanceInv, Remembers

\* Whichever calls fail and however deletions interleave, no field of a
\* service goes back to what an earlier scan made of it.  The one thing that
\* can be lost is the threat model that a scan has just stored, by the last
\* write of the same scan, when the service could not be read again between
\* (runFeatureExtractionStage of RepositoryTaskProcessor).
THEOREM FieldsAlwaysAdvance == KnowledgeSpec => FieldsAdvance
<1>1. KnowledgeInit => AdvanceInv /\ Remembers
  BY KnowledgeInitTyped
<1>2. AdvanceInv /\ Remembers /\ [KnowledgeNext]_knowledgeVars => (AdvanceInv /\ Remembers)'
  <2>1. CASE UNCHANGED knowledgeVars
    BY <2>1 DEF knowledgeVars, storage, AdvanceInv, ScanTyped, StampsAreOld,
       CopiesNotBehind, NotBehind, Remembers, AlmostNotBehind
  <2> QED BY <2>1, AdvanceStep, RemembersStep
<1>3. AdvanceInv /\ Remembers /\ [KnowledgeNext]_knowledgeVars =>
          [row' = Nothing \/ \A f \in Fields \ {"severity"} :
                                row'[f] >= row[f] \/ Forgets(f)]_knowledgeVars
  BY AdvanceStep DEF Stamped
<1> QED BY <1>1, <1>2, <1>3, PTL DEF KnowledgeSpec, FieldsAdvance

-----------------------------------------------------------------------------
(* What a scan without a failure leaves.                                   *)

Fresh == FreshSoFar /\ ComputedSoFar /\ CleanScanIsFresh /\ StoresAreComputed

\* After a failure or a deletion nothing is promised.
LEMMA UncleanIsFresh ==
    ASSUME ScanTyped', ~scan'.clean PROVE FreshInv'
  BY DEF FreshInv, CleanScanIsFresh, StoresAreComputed

\* A step that stores nothing about data stores keeps what is computed.
LEMMA ComputedStays ==
    ASSUME ComputedSoFar, SameStores, SameFeatures, scan'.found = scan.found,
           scan'.at \notin Consolidating \/ scan'.at = "delete", scan'.at # "ended"
    PROVE  ComputedSoFar' /\ StoresAreComputed'
  BY DEF ComputedSoFar, SameStores, SameFeatures, StoresAreComputed, Consolidating

\* While data stores are consolidated the service stays as it is.
LEMMA ServiceStays ==
    ASSUME FreshSoFar, scan.at \in Consolidating, SameService,
           scan'.n = scan.n, scan'.options = scan.options, scan'.memory = scan.memory,
           scan'.did = scan.did,
           \/ scan'.at \in Consolidating \ {"exploit"}
           \/ scan'.at = "exploit" /\ scan.options.features
           \/ scan'.at = "ended" /\ ~scan.options.features
    PROVE  FreshSoFar' /\ CleanScanIsFresh'
<1>1. /\ Enriched /\ (scan.options.features => scan.memory = row)
      /\ "threats" \in scan.did => scan.options.features
  BY DEF FreshSoFar
<1>2. /\ Enriched' /\ (scan'.options.features => scan'.memory = row')
      /\ "threats" \in scan'.did => scan'.options.features
  BY <1>1 DEF Enriched, SameService
<1>3. FreshSoFar'
  BY <1>2 DEF FreshSoFar, Consolidating, FeatureSteps, Begun
<1>4. CleanScanIsFresh'
  BY <1>2 DEF CleanScanIsFresh, Enriched, Consolidating
<1> QED BY <1>3, <1>4

LEMMA AfterConsolidationFits ==
    /\ AfterConsolidation = "exploit" => scan.options.features
    /\ AfterConsolidation = "ended" => ~scan.options.features
  BY DEF AfterConsolidation

LEMMA FreshStep ==
    ASSUME FreshInv, KnowledgeNext PROVE FreshInv'
<1>0. ScanTyped /\ (scan.clean => FreshSoFar /\ ComputedSoFar)
  BY DEF FreshInv
<1>1. ASSUME ScanTyped', ~scan'.clean PROVE FreshInv'
  BY <1>1, UncleanIsFresh
<1>2. /\ row \in Payload /\ node \in Payload /\ scan.memory \in Payload
      /\ scan.held \in Payload /\ scan.n \in Nat /\ scan.clean \in BOOLEAN
      /\ scan.at # "ended" => scan.n > 0 /\ scan.n # 0
  BY <1>0 DEF ScanTyped, IsScan
<1>3. CASE StartScan
  <2>1. /\ ScanTyped' /\ SameStores /\ SameFeatures
        /\ scan'.at = "read" /\ scan'.n = scan.n + 1
        /\ scan'.memory = Bare(scan.n + 1) /\ scan'.did = {}
    BY <1>0, <1>3, StartScanResult
  <2>2. FreshSoFar' /\ ComputedSoFar' /\ CleanScanIsFresh' /\ StoresAreComputed'
    BY <2>1 DEF FreshSoFar, ComputedSoFar, Begun, Consolidating, FeatureSteps,
       CleanScanIsFresh, StoresAreComputed
  <2> QED BY <2>1, <2>2 DEF FreshInv
<1>4. CASE ReadPrevious
  <2>1. /\ scan.at = "read" /\ SameService /\ SameStores /\ SameFeatures /\ ScanTyped'
        /\ \/ Becomes("rows", scan.memory, row, scan.found, scan.did, scan.clean)
           \/ Slips("nodes")
    BY <1>0, <1>4, ReadPreviousResult
  <2>2. CASE Slips("nodes")
    BY <1>1, <2>1, <2>2 DEF Slips, Becomes
  <2>3. CASE scan.clean /\ Becomes("rows", scan.memory, row, scan.found, scan.did, scan.clean)
    <3>1. scan.memory = Bare(scan.n) /\ scan.did = {}
      BY <1>0, <2>1, <2>3 DEF FreshSoFar, Begun, FeatureSteps
    <3>2. FreshSoFar' /\ CleanScanIsFresh'
      BY <2>1, <2>3, <3>1
         DEF FreshSoFar, Begun, Consolidating, FeatureSteps, Fits, CleanScanIsFresh,
             Becomes, SameService
    <3>3. ComputedSoFar' /\ StoresAreComputed'
      BY <1>0, <2>1, <2>3, ComputedStays DEF Becomes, Consolidating
    <3> QED BY <2>1, <3>2, <3>3 DEF FreshInv
  <2> QED BY <1>1, <1>2, <2>1, <2>2, <2>3 DEF Becomes
<1>5. CASE StoreRows
  <2>1. /\ scan.at = "rows" /\ node' = node /\ SameStores /\ SameFeatures /\ ScanTyped'
        /\ \/ row' = Merge(scan.held, scan.memory) /\ Goes("nodes")
           \/ row' = row /\ Slips("nodes")
    BY <1>0, <1>5, StoreRowsResult
  <2>2. CASE Slips("nodes")
    BY <1>1, <2>1, <2>2 DEF Slips, Becomes
  <2>3. CASE scan.clean /\ row' = Merge(scan.held, scan.memory) /\ Goes("nodes")
    <3>1. scan.memory = Bare(scan.n) /\ scan.did = {}
      BY <1>0, <2>1, <2>3 DEF FreshSoFar, Begun, FeatureSteps
    <3>2. row'["code"] = scan.n
      <4>1. "code" \in Fields
        BY DEF Fields
      <4>2. Bare(scan.n)["code"] = scan.n /\ scan.n > 0
        BY <1>2, <2>1, BareResult
      <4> QED BY <1>2, <2>3, <3>1, <4>1, <4>2, MergeResult
    <3>3. FreshSoFar' /\ CleanScanIsFresh'
      BY <2>1, <2>3, <3>1, <3>2
         DEF FreshSoFar, Begun, Consolidating, FeatureSteps, Fits, CleanScanIsFresh,
             Becomes, Goes
    <3>4. ComputedSoFar' /\ StoresAreComputed'
      BY <1>0, <2>1, <2>3, ComputedStays DEF Goes, Becomes, Consolidating
    <3> QED BY <2>1, <3>3, <3>4 DEF FreshInv
  <2> QED BY <1>1, <1>2, <2>1, <2>2, <2>3 DEF Goes, Becomes
<1>6. CASE StoreNodes
  <2>1. /\ scan.at = "nodes" /\ row' = row /\ SameStores /\ SameFeatures /\ ScanTyped'
    BY <1>0, <1>6, StoreNodesResult
  <2>2. PICK step \in {"fetch", "extract", "delete"} :
           \/ /\ node' = scan.memory /\ Goes(step)
              /\ Fits(step)
           \/ Slips(step)
    BY <1>0, <1>6, StoreNodesResult
  <2>3. CASE Slips(step)
    BY <1>1, <2>1, <2>3 DEF Slips, Becomes
  <2>4. CASE /\ scan.clean /\ node' = scan.memory /\ Goes(step)
             /\ Fits(step)
    <3>1. scan.memory = Bare(scan.n) /\ scan.did = {} /\ row["code"] = scan.n
      BY <1>0, <2>1, <2>4 DEF FreshSoFar, Begun, FeatureSteps
    <3>2. node'["code"] = scan.n
      BY <1>2, <2>4, <3>1, BareResult
    <3>3. FreshSoFar' /\ CleanScanIsFresh'
      BY <2>1, <2>4, <3>1, <3>2
         DEF FreshSoFar, Begun, Consolidating, FeatureSteps, Fits, CleanScanIsFresh,
             Enriched, Becomes, Goes
    <3>4. ComputedSoFar' /\ StoresAreComputed'
      BY <1>0, <2>1, <2>4, ComputedStays DEF Goes, Becomes, Consolidating
    <3> QED BY <2>1, <3>3, <3>4 DEF FreshInv
  <2> QED BY <1>1, <1>2, <2>1, <2>2, <2>3, <2>4 DEF Goes, Becomes
<1>7. CASE FetchDbEntities
  <2> DEFINE merged == Merge(row, scan.memory)
  <2>1. /\ scan.at = "fetch" /\ SameService /\ SameStores /\ SameFeatures /\ ScanTyped'
    BY <1>0, <1>7, FetchResult
  <2>2. PICK step \in {"analyse", "extract", "delete"} :
           \/ /\ Becomes(step, merged, scan.held, scan.found, scan.did, scan.clean)
              /\ Fits(step)
           \/ Slips(step)
    BY <1>0, <1>7, FetchResult
  <2>3. CASE Slips(step)
    BY <1>1, <2>1, <2>3 DEF Slips, Becomes
  <2>4. CASE /\ scan.clean
             /\ Becomes(step, merged, scan.held, scan.found, scan.did, scan.clean)
             /\ Fits(step)
    <3>1. /\ scan.memory = Bare(scan.n) /\ scan.did = {} /\ row["code"] = scan.n
          /\ node = Bare(scan.n)
      BY <1>0, <2>1, <2>4 DEF FreshSoFar, Begun, FeatureSteps
    <3>2. merged = row /\ node["code"] = scan.n
      <4>1. ASSUME NEW f \in Fields PROVE merged[f] = row[f]
        <5>1. merged[f] = IF Bare(scan.n)[f] # 0 THEN Bare(scan.n)[f] ELSE row[f]
          BY <1>2, <3>1, MergeResult
        <5> HIDE DEF merged
        <5> QED BY <1>2, <3>1, <5>1, BareResult
      <4>2. merged \in Payload
        BY <1>2, MergeResult
      <4> HIDE DEF merged
      <4> QED BY <1>2, <3>1, <4>1, <4>2, SamePayload, BareResult
    <3> HIDE DEF merged
    <3>3. FreshSoFar' /\ CleanScanIsFresh'
      BY <2>1, <2>4, <3>1, <3>2
         DEF FreshSoFar, Begun, Consolidating, FeatureSteps, Fits, CleanScanIsFresh,
             Enriched, Becomes, SameService
    <3>4. ComputedSoFar' /\ StoresAreComputed'
      BY <1>0, <2>1, <2>4, ComputedStays DEF Becomes, Consolidating
    <3> QED BY <2>1, <3>3, <3>4 DEF FreshInv
  <2> HIDE DEF merged
  <2> QED BY <1>1, <1>2, <2>1, <2>2, <2>3, <2>4 DEF Becomes
<1>8. CASE AnalyseService
  <2>1. /\ scan.at = "analyse" /\ node' = node
        /\ SameStores /\ SameFeatures /\ ScanTyped'
        /\ Analysed \in Payload
        /\ \/ /\ row' = Merge(row, Analysed)
              /\ Becomes("node", Analysed, scan.held, scan.found,
                         scan.did \union {"analysis"}, scan.clean)
           \/ ~scan'.clean
    BY <1>0, <1>8, AnalyseResult DEF Becomes, Slips
  <2>2. CASE /\ scan.clean /\ row' = Merge(row, Analysed)
             /\ Becomes("node", Analysed, scan.held, scan.found,
                        scan.did \union {"analysis"}, scan.clean)
    <3>1. scan.memory = row /\ scan.did = {} /\ row["code"] = scan.n
      BY <1>0, <2>1, <2>2 DEF FreshSoFar, FeatureSteps
    <3>2. /\ Analysed["analysis"] = scan.n
          /\ \A f \in Fields \ {"analysis"} : Analysed[f] = row[f]
      BY <1>2, <3>1 DEF Analysed, Payload, Fields
    <3>3. row' = Analysed
      <4>1. Merge(row, Analysed) \in Payload
        BY <1>2, <2>1, MergeResult
      <4>2. ASSUME NEW f \in Fields PROVE Merge(row, Analysed)[f] = Analysed[f]
        <5>1. Merge(row, Analysed)[f] = IF Analysed[f] # 0 THEN Analysed[f] ELSE row[f]
          BY <1>2, <2>1, MergeResult
        <5>2. f = "analysis" => Analysed[f] # 0
          BY <1>2, <2>1, <3>2
        <5> QED BY <3>2, <5>1, <5>2
      <4> QED BY <2>1, <2>2, <4>1, <4>2, SamePayload
    <3>4. row'["code"] = scan.n /\ row'["analysis"] = scan.n
      BY <3>1, <3>2, <3>3 DEF Fields
    <3>5. FreshSoFar' /\ CleanScanIsFresh'
      BY <2>1, <2>2, <3>1, <3>3, <3>4
         DEF FreshSoFar, Begun, Consolidating, FeatureSteps, Fits, CleanScanIsFresh,
             Becomes
    <3>6. ComputedSoFar' /\ StoresAreComputed'
      BY <1>0, <2>1, <2>2, ComputedStays DEF Becomes, Consolidating
    <3> QED BY <2>1, <3>5, <3>6 DEF FreshInv
  <2> QED BY <1>1, <1>2, <2>1, <2>2 DEF Becomes
<1>9. CASE StoreAnalysedNode
  <2>1. /\ scan.at = "node" /\ row' = row /\ SameStores /\ SameFeatures /\ ScanTyped'
    BY <1>0, <1>9, AnalysedNodeResult
  <2>2. PICK step \in {"extract", "delete"} :
           \/ /\ node' = scan.memory /\ Goes(step)
              /\ Fits(step)
           \/ Slips(step)
    BY <1>0, <1>9, AnalysedNodeResult
  <2>3. CASE Slips(step)
    BY <1>1, <2>1, <2>3 DEF Slips, Becomes
  <2>4. CASE /\ scan.clean /\ node' = scan.memory /\ Goes(step)
             /\ Fits(step)
    <3>1. /\ scan.memory = row /\ scan.did = {"analysis"}
          /\ row["code"] = scan.n /\ row["analysis"] = scan.n
      BY <1>0, <2>1, <2>4 DEF FreshSoFar, FeatureSteps
    <3>2. Enriched'
      BY <2>1, <2>4, <3>1 DEF Enriched, Goes, Becomes
    <3>3. FreshSoFar' /\ CleanScanIsFresh'
      BY <2>1, <2>4, <3>1, <3>2
         DEF FreshSoFar, Begun, Consolidating, FeatureSteps, Fits, CleanScanIsFresh,
             Becomes, Goes
    <3>4. ComputedSoFar' /\ StoresAreComputed'
      BY <1>0, <2>1, <2>4, ComputedStays DEF Goes, Becomes, Consolidating
    <3> QED BY <2>1, <3>3, <3>4 DEF FreshInv
  <2> QED BY <1>1, <1>2, <2>1, <2>2, <2>3, <2>4 DEF Goes, Becomes
<1>10. CASE ExtractServiceFeatures
  <2>1. /\ scan.at = "extract" /\ SameService
        /\ SameStores /\ SameFeatures /\ ScanTyped'
        /\ \/ \E step \in {"catalog", "reread"} : Goes(step)
           \/ Slips("delete")
    BY <1>0, <1>10, ExtractFeaturesResult
  <2>2. CASE Slips("delete")
    BY <1>1, <2>1, <2>2 DEF Slips, Becomes
  <2>3. ASSUME scan.clean, NEW step \in {"catalog", "reread"}, Goes(step) PROVE FreshInv'
    <3>1. Enriched /\ "threats" \notin scan.did /\ scan.options.features
      BY <1>0, <2>1, <2>3 DEF FreshSoFar, FeatureSteps
    <3>2. Enriched' /\ "threats" \notin scan'.did /\ scan'.options.features
      BY <2>1, <2>3, <3>1 DEF Enriched, Goes, Becomes, SameService
    <3>3. FreshSoFar' /\ CleanScanIsFresh'
      BY <2>3, <3>2
         DEF FreshSoFar, Begun, Consolidating, FeatureSteps, Fits, CleanScanIsFresh,
             Becomes, Goes
    <3>4. ComputedSoFar' /\ StoresAreComputed'
      BY <1>0, <2>1, <2>3, ComputedStays DEF Goes, Becomes, Consolidating
    <3> QED BY <2>1, <3>3, <3>4 DEF FreshInv
  <2> QED BY <1>1, <1>2, <2>1, <2>2, <2>3 DEF Goes, Becomes
<1>11. CASE PersistFeatures
  <2>1. /\ scan.at = "catalog" /\ SameService /\ SameStores /\ ScanTyped'
        /\ scan' = scan \/ Goes("model")
    BY <1>0, <1>11, PersistFeaturesResult
  <2>2. ASSUME scan.clean PROVE FreshInv'
    <3>1. Enriched /\ "threats" \notin scan.did /\ scan.options.features
      BY <1>0, <2>1, <2>2 DEF FreshSoFar, FeatureSteps
    <3>2. /\ Enriched' /\ "threats" \notin scan'.did /\ scan'.options.features
          /\ scan'.at \in {"catalog", "model"}
      BY <2>1, <3>1 DEF Enriched, Goes, Becomes, SameService
    <3>3. FreshSoFar' /\ CleanScanIsFresh'
      BY <3>2 DEF FreshSoFar, Begun, Consolidating, FeatureSteps, Fits, CleanScanIsFresh
    <3>4. ComputedSoFar' /\ StoresAreComputed'
      BY <3>2 DEF ComputedSoFar, StoresAreComputed
    <3> QED BY <2>1, <3>3, <3>4 DEF FreshInv
  <2> QED BY <1>1, <1>2, <2>1, <2>2 DEF Goes, Becomes
<1>12. CASE ModelThreats
  <2>1. /\ scan.at = "model" /\ SameService /\ SameStores /\ SameFeatures /\ ScanTyped'
        /\ \/ Becomes("threats", scan.memory, Threatened, scan.found, scan.did, scan.clean)
           \/ Slips("reread")
    BY <1>0, <1>12, ModelThreatsResult
  <2>2. CASE Slips("reread")
    BY <1>1, <2>1, <2>2 DEF Slips, Becomes
  <2>3. CASE /\ scan.clean
             /\ Becomes("threats", scan.memory, Threatened, scan.found, scan.did, scan.clean)
    <3>1. Enriched /\ "threats" \notin scan.did /\ scan.options.features
      BY <1>0, <2>1, <2>3 DEF FreshSoFar, FeatureSteps
    <3>2. Threatened = [row EXCEPT !["threats"] = scan.n, !["severity"] = 3]
      <4>1. row # Nothing
        <5>1. row["code"] = scan.n /\ scan.n > 0
          BY <1>2, <2>1, <3>1 DEF Enriched
        <5> QED BY <1>2, <5>1, NothingIsPayload DEF Fields
      <4> QED BY <4>1 DEF Threatened, ThreatBase
    <3>3. Enriched' /\ "threats" \notin scan'.did /\ scan'.options.features
      BY <2>1, <2>3, <3>1 DEF Enriched, Becomes, SameService
    <3>4. FreshSoFar' /\ CleanScanIsFresh'
      BY <2>1, <2>3, <3>2, <3>3
         DEF FreshSoFar, Begun, Consolidating, FeatureSteps, Fits, CleanScanIsFresh,
             Becomes, SameService
    <3>5. ComputedSoFar' /\ StoresAreComputed'
      BY <1>0, <2>1, <2>3, ComputedStays DEF Becomes, Consolidating
    <3> QED BY <2>1, <3>4, <3>5 DEF FreshInv
  <2> QED BY <1>1, <1>2, <2>1, <2>2, <2>3 DEF Becomes
<1>13. CASE StoreThreats
  <2>1. /\ scan.at = "threats" /\ node' = node
        /\ SameStores /\ SameFeatures /\ ScanTyped'
        /\ \/ /\ row' = Merge(row, scan.held)
              /\ Becomes("threat node", scan.memory, scan.held, scan.found,
                         scan.did \union {"threats"}, scan.clean)
           \/ row' = row /\ Slips("reread")
    BY <1>0, <1>13, StoreThreatsResult
  <2>2. CASE Slips("reread")
    BY <1>1, <2>1, <2>2 DEF Slips, Becomes
  <2>3. CASE /\ scan.clean /\ row' = Merge(row, scan.held)
             /\ Becomes("threat node", scan.memory, scan.held, scan.found,
                        scan.did \union {"threats"}, scan.clean)
    <3>1. /\ Enriched /\ "threats" \notin scan.did /\ scan.options.features
          /\ scan.held = [row EXCEPT !["threats"] = scan.n, !["severity"] = 3]
      BY <1>0, <2>1, <2>3 DEF FreshSoFar, FeatureSteps
    <3>2. /\ scan.held["threats"] = scan.n /\ scan.held["severity"] = 3
          /\ \A f \in Fields \ {"threats", "severity"} : scan.held[f] = row[f]
      BY <1>2, <3>1 DEF Payload, Fields
    <3>3. row' = scan.held
      <4>1. Merge(row, scan.held) \in Payload
        BY <1>2, MergeResult
      <4>2. ASSUME NEW f \in Fields PROVE Merge(row, scan.held)[f] = scan.held[f]
        <5>1. Merge(row, scan.held)[f] = IF scan.held[f] # 0 THEN scan.held[f] ELSE row[f]
          BY <1>2, MergeResult
        <5>2. (f = "threats" => scan.held[f] # 0) /\ (f = "severity" => scan.held[f] # 0)
          <6>1. scan.n # 0
            BY <1>2, <2>1
          <6> QED BY <3>2, <6>1
        <5> QED BY <3>2, <5>1, <5>2
      <4> QED BY <1>2, <2>3, <4>1, <4>2, SamePayload
    <3>4. /\ row'["code"] = scan.n /\ row'["severity"] = 3
          /\ \A f \in scan.did \union {"threats"} : row'[f] = scan.n
      <4>1. scan.did \subseteq {"analysis"}
        BY <1>0, <3>1 DEF ScanTyped, IsScan
      <4>2. row["code"] = scan.n /\ \A f \in scan.did : row[f] = scan.n
        BY <3>1 DEF Enriched
      <4> QED BY <3>2, <3>3, <4>1, <4>2 DEF Fields
    <3>5. FreshSoFar' /\ CleanScanIsFresh'
      BY <2>1, <2>3, <3>1, <3>3, <3>4
         DEF FreshSoFar, Begun, Consolidating, FeatureSteps, CleanScanIsFresh, Becomes
    <3>6. ComputedSoFar' /\ StoresAreComputed'
      BY <1>0, <2>1, <2>3, ComputedStays DEF Becomes, Consolidating
    <3> QED BY <2>1, <3>5, <3>6 DEF FreshInv
  <2> QED BY <1>1, <1>2, <2>1, <2>2, <2>3 DEF Becomes
<1>14. CASE StoreThreatNode
  <2>1. /\ scan.at = "threat node" /\ row' = row
        /\ SameStores /\ SameFeatures /\ ScanTyped'
        /\ \/ node' = scan.held /\ Goes("reread")
           \/ Slips("reread")
    BY <1>0, <1>14, ThreatNodeResult
  <2>2. CASE Slips("reread")
    BY <1>1, <2>1, <2>2 DEF Slips, Becomes
  <2>3. CASE scan.clean /\ node' = scan.held /\ Goes("reread")
    <3>1. /\ scan.options.features
          /\ scan.held = row /\ row["code"] = scan.n /\ row["severity"] = 3
          /\ \A f \in scan.did : row[f] = scan.n
      BY <1>0, <2>1, <2>3 DEF FreshSoFar, FeatureSteps
    <3>2. Enriched' /\ scan'.options.features
      BY <2>1, <2>3, <3>1 DEF Enriched, Goes, Becomes
    <3>3. FreshSoFar' /\ CleanScanIsFresh'
      BY <2>3, <3>2
         DEF FreshSoFar, Begun, Consolidating, FeatureSteps, Fits, CleanScanIsFresh,
             Becomes, Goes
    <3>4. ComputedSoFar' /\ StoresAreComputed'
      BY <1>0, <2>1, <2>3, ComputedStays DEF Goes, Becomes, Consolidating
    <3> QED BY <2>1, <3>3, <3>4 DEF FreshInv
  <2> QED BY <1>1, <1>2, <2>1, <2>2, <2>3 DEF Goes, Becomes
<1>15. CASE ReadServiceAgain
  <2>1. /\ scan.at = "reread" /\ SameService /\ SameStores /\ SameFeatures /\ ScanTyped'
        /\ \/ Becomes("delete", ReadAgain, scan.held, scan.found, scan.did, scan.clean)
           \/ GoesStale
    BY <1>0, <1>15, RereadResult
  <2>2. CASE GoesStale
    BY <1>1, <2>1, <2>2 DEF GoesStale
  <2>3. CASE /\ scan.clean
             /\ Becomes("delete", ReadAgain, scan.held, scan.found, scan.did, scan.clean)
    <3>1. Enriched /\ scan.options.features
      BY <1>0, <2>1, <2>3 DEF FreshSoFar, FeatureSteps
    <3>2. ReadAgain = row
      <4>1. row # Nothing
        <5>1. row["code"] = scan.n /\ scan.n > 0
          BY <1>2, <2>1, <3>1 DEF Enriched
        <5> QED BY <1>2, <5>1, NothingIsPayload DEF Fields
      <4> QED BY <4>1 DEF ReadAgain
    <3>3. Enriched' /\ scan'.options.features
      BY <2>1, <2>3, <3>1 DEF Enriched, Becomes, SameService
    <3>4. FreshSoFar' /\ CleanScanIsFresh'
      BY <2>1, <2>3, <3>2, <3>3
         DEF FreshSoFar, Begun, Consolidating, FeatureSteps, Fits, CleanScanIsFresh,
             Becomes, SameService
    <3>5. ComputedSoFar' /\ StoresAreComputed'
      BY <1>0, <2>1, <2>3, ComputedStays DEF Becomes, Consolidating
    <3> QED BY <2>1, <3>4, <3>5 DEF FreshInv
  <2> QED BY <1>1, <1>2, <2>1, <2>2, <2>3 DEF Becomes
<1>16. CASE DeleteStores
  <2>1. /\ scan.at = "delete" /\ SameService /\ SameFeatures /\ ScanTyped'
        /\ \/ storeRows' = {} /\ storeNodes' = {} /\ Goes("consolidate")
           \/ \E step \in {"exploit", "ended"} : Slips(step)
    BY <1>0, <1>16, DeleteStoresResult
  <2>2. CASE \E step \in {"exploit", "ended"} : Slips(step)
    BY <1>1, <2>1, <2>2 DEF Slips, Becomes
  <2>3. CASE scan.clean /\ storeRows' = {} /\ storeNodes' = {} /\ Goes("consolidate")
    <3>1. FreshSoFar' /\ CleanScanIsFresh'
      BY <1>0, <2>1, <2>3, ServiceStays DEF Goes, Becomes, Consolidating
    <3>2. ComputedSoFar' /\ StoresAreComputed'
      BY <2>3 DEF ComputedSoFar, StoresAreComputed, Goes, Becomes
    <3> QED BY <2>1, <3>1, <3>2 DEF FreshInv
  <2> QED BY <1>1, <1>2, <2>1, <2>2, <2>3 DEF Goes, Becomes
<1>17. CASE Consolidate
  <2> DEFINE step == IF Consolidated = {} THEN AfterConsolidation ELSE "store rows"
  <2>1. /\ scan.at = "consolidate" /\ SameService
        /\ SameStores /\ SameFeatures /\ ScanTyped'
        /\ \/ Becomes(step, scan.memory, scan.held, Consolidated, scan.did, scan.clean)
           \/ Slips(AfterConsolidation)
    BY <1>0, <1>17, ConsolidateResult
  <2>2. \/ step = "store rows" /\ Consolidated # {}
        \/ step = AfterConsolidation /\ Consolidated = {}
    OBVIOUS
  <2> HIDE DEF step
  <2>3. CASE Slips(AfterConsolidation)
    BY <1>1, <2>1, <2>3 DEF Slips, Becomes
  <2>4. CASE /\ scan.clean
             /\ Becomes(step, scan.memory, scan.held, Consolidated, scan.did, scan.clean)
    <3>1. FreshSoFar' /\ CleanScanIsFresh'
      BY <1>0, <2>1, <2>2, <2>4, ServiceStays, AfterConsolidationIsStep,
         AfterConsolidationFits DEF Becomes, Consolidating
    <3>2. storeRows' = {} /\ storeNodes' = {} /\ Consolidated' = Consolidated
      BY <1>0, <2>1, <2>4 DEF ComputedSoFar, SameStores, SameFeatures
    <3>3. ComputedSoFar' /\ StoresAreComputed'
      BY <2>2, <2>4, <3>2, AfterConsolidationIsStep
         DEF ComputedSoFar, StoresAreComputed, Becomes
    <3> QED BY <2>1, <3>1, <3>3 DEF FreshInv
  <2> QED BY <1>1, <1>2, <2>1, <2>3, <2>4 DEF Becomes
<1>18. CASE StoreStoreRows
  <2>1. /\ scan.at = "store rows" /\ SameService /\ SameFeatures /\ ScanTyped'
        /\ storeNodes' = storeNodes /\ storeEdges' = storeEdges
        /\ \/ storeRows' = storeRows \union scan.found /\ Goes("store nodes")
           \/ Slips("store nodes")
    BY <1>0, <1>18, StoreRowsOfStoresResult
  <2>2. CASE Slips("store nodes")
    BY <1>1, <2>1, <2>2 DEF Slips, Becomes
  <2>3. CASE /\ scan.clean
             /\ storeRows' = storeRows \union scan.found /\ Goes("store nodes")
    <3>1. FreshSoFar' /\ CleanScanIsFresh'
      BY <1>0, <2>1, <2>3, ServiceStays DEF Goes, Becomes, Consolidating
    <3>2. storeRows = {} /\ storeNodes = {} /\ scan.found = Consolidated
      BY <1>0, <2>1, <2>3 DEF ComputedSoFar
    <3>3. ComputedSoFar' /\ StoresAreComputed'
      BY <2>1, <2>3, <3>2
         DEF ComputedSoFar, StoresAreComputed, Goes, Becomes, SameFeatures
    <3> QED BY <2>1, <3>1, <3>3 DEF FreshInv
  <2> QED BY <1>1, <1>2, <2>1, <2>2, <2>3 DEF Goes, Becomes
<1>19. CASE StoreStoreNodes
  <2>1. /\ scan.at = "store nodes" /\ SameService /\ SameFeatures /\ ScanTyped'
        /\ storeRows' = storeRows /\ storeEdges' = storeEdges
        /\ \/ storeNodes' = storeNodes \union scan.found /\ Goes("store edges")
           \/ Slips("store edges")
    BY <1>0, <1>19, StoreNodesOfStoresResult
  <2>2. CASE Slips("store edges")
    BY <1>1, <2>1, <2>2 DEF Slips, Becomes
  <2>3. CASE /\ scan.clean
             /\ storeNodes' = storeNodes \union scan.found /\ Goes("store edges")
    <3>1. FreshSoFar' /\ CleanScanIsFresh'
      BY <1>0, <2>1, <2>3, ServiceStays DEF Goes, Becomes, Consolidating
    <3>2. storeRows = Consolidated /\ storeNodes = {} /\ scan.found = Consolidated
      BY <1>0, <2>1, <2>3 DEF ComputedSoFar
    <3>3. ComputedSoFar' /\ StoresAreComputed'
      BY <2>1, <2>3, <3>2
         DEF ComputedSoFar, StoresAreComputed, Goes, Becomes, SameFeatures
    <3> QED BY <2>1, <3>1, <3>3 DEF FreshInv
  <2> QED BY <1>1, <1>2, <2>1, <2>2, <2>3 DEF Goes, Becomes
<1>20. CASE StoreStoreEdges
  <2>1. /\ scan.at = "store edges" /\ SameService /\ SameFeatures /\ ScanTyped'
        /\ storeRows' = storeRows /\ storeNodes' = storeNodes
        /\ \/ storeEdges' = storeEdges \union scan.found /\ Goes(AfterConsolidation)
           \/ Slips(AfterConsolidation)
    BY <1>0, <1>20, StoreEdgesOfStoresResult
  <2>2. CASE Slips(AfterConsolidation)
    BY <1>1, <2>1, <2>2 DEF Slips, Becomes
  <2>3. CASE /\ scan.clean
             /\ storeEdges' = storeEdges \union scan.found /\ Goes(AfterConsolidation)
    <3>1. FreshSoFar' /\ CleanScanIsFresh'
      BY <1>0, <2>1, <2>3, ServiceStays, AfterConsolidationIsStep, AfterConsolidationFits
         DEF Goes, Becomes, Consolidating
    <3>2. storeRows = Consolidated /\ storeNodes = Consolidated /\ scan.found = Consolidated
      BY <1>0, <2>1, <2>3 DEF ComputedSoFar
    <3>3. ComputedSoFar' /\ StoresAreComputed'
      BY <2>1, <2>3, <3>2, AfterConsolidationIsStep
         DEF ComputedSoFar, StoresAreComputed, Goes, Becomes, SameFeatures
    <3> QED BY <2>1, <3>1, <3>3 DEF FreshInv
  <2> QED BY <1>1, <1>2, <2>1, <2>2, <2>3 DEF Goes, Becomes
<1>21. CASE AnalyseExploitability
  <2>1. /\ scan.at = "exploit" /\ node' = node
        /\ SameStores /\ SameFeatures /\ ScanTyped'
        /\ \/ scan.memory["threats"] = 0 /\ row' = row /\ Goes("ended")
           \/ \E s \in Adjusted(scan.memory["severity"]) :
                 /\ row' = Merge(row, Weighed(s))
                 /\ Becomes("ended", Weighed(s), scan.held, scan.found,
                            scan.did, scan.clean)
           \/ ~scan'.clean
    BY <1>0, <1>21, ExploitabilityResult DEF Becomes, Slips
  <2>2. ASSUME scan.clean
        PROVE  /\ Enriched /\ scan.memory = row
               /\ storeRows = Consolidated /\ storeNodes = Consolidated
               /\ Consolidated \subseteq storeEdges
    BY <1>0, <2>1, <2>2 DEF FreshSoFar, FeatureSteps, Consolidating, ComputedSoFar
  <2>3. ASSUME scan.clean, scan'.at = "ended",
               scan'.did = scan.did, scan'.options = scan.options
        PROVE  FreshSoFar' /\ ComputedSoFar' /\ StoresAreComputed'
    <3>1. ComputedSoFar' /\ StoresAreComputed'
      BY <2>1, <2>2, <2>3 DEF ComputedSoFar, StoresAreComputed, SameStores, SameFeatures
    <3>2. "threats" \in scan.did => scan.options.features
      BY <1>0, <2>3 DEF FreshSoFar
    <3> QED BY <2>3, <3>1, <3>2 DEF FreshSoFar, Begun, Consolidating, FeatureSteps
  <2>4. CASE scan.clean /\ scan.memory["threats"] = 0 /\ row' = row /\ Goes("ended")
    <3>1. "threats" \notin scan.did
      BY <1>2, <2>1, <2>2, <2>4 DEF Enriched
    <3>2. CleanScanIsFresh'
      BY <2>1, <2>2, <2>4, <3>1 DEF CleanScanIsFresh, Enriched, Goes, Becomes
    <3> QED BY <2>1, <2>3, <2>4, <3>2 DEF FreshInv, Goes, Becomes
  <2>5. ASSUME scan.clean, NEW s \in Adjusted(scan.memory["severity"]),
               row' = Merge(row, Weighed(s)),
               Becomes("ended", Weighed(s), scan.held, scan.found, scan.did, scan.clean)
        PROVE  FreshInv'
    <3>1. /\ Weighed(s) \in Payload /\ Weighed(s)["exploit"] = scan.n
          /\ Weighed(s)["severity"] = s
          /\ \A f \in Fields \ {"exploit", "severity"} : Weighed(s)[f] = row[f]
      BY <1>0, <2>2, <2>5, WeighedResult
    <3>2. \A f \in Fields : row'[f] = IF Weighed(s)[f] # 0 THEN Weighed(s)[f] ELSE row[f]
      BY <1>2, <2>5, <3>1, MergeResult
    <3>3. row'["exploit"] = scan.n /\ \A f \in {"code", "analysis", "threats"} : row'[f] = row[f]
      BY <1>2, <2>1, <3>1, <3>2 DEF Fields
    <3>4. "threats" \in scan.did => row'["severity"] >= 2
      <4>1. SUFFICES ASSUME "threats" \in scan.did PROVE row'["severity"] >= 2
        OBVIOUS
      <4>2. scan.memory["severity"] = 3
        BY <2>2, <2>5, <4>1 DEF Enriched
      <4>3. s \in Int /\ s >= 2
        BY <4>2 DEF Adjusted
      <4>4. row'["severity"] = s
        BY <3>1, <3>2, <4>3 DEF Fields
      <4> QED BY <4>3, <4>4
    <3>5. CleanScanIsFresh'
      <4>1. scan.did \subseteq {"analysis", "threats"}
        BY <1>0 DEF ScanTyped, IsScan
      <4> QED BY <2>1, <2>2, <2>5, <3>3, <3>4, <4>1 DEF CleanScanIsFresh, Enriched, Becomes
    <3> QED BY <2>1, <2>3, <2>5, <3>5 DEF FreshInv, Becomes
  <2> QED BY <1>1, <1>2, <2>1, <2>4, <2>5 DEF Goes, Becomes
<1>22. CASE DeleteTenantData
  BY <1>0, <1>1, <1>22, DeleteDataResult DEF Slips, Becomes
<1>23. CASE DeleteTenantGraph
  BY <1>0, <1>1, <1>23, DeleteGraphResult DEF Slips, Becomes
<1> QED BY <1>3, <1>4, <1>5, <1>6, <1>7, <1>8, <1>9, <1>10, <1>11, <1>12, <1>13, <1>14,
           <1>15, <1>16, <1>17, <1>18, <1>19, <1>20, <1>21, <1>22, <1>23
        DEF KnowledgeNext, ScanStep

LEMMA FreshHolds == KnowledgeSpec => []FreshInv
<1>1. KnowledgeInit => FreshInv
  BY KnowledgeInitTyped DEF FreshInv, CleanScanIsFresh, StoresAreComputed
<1>2. FreshInv /\ [KnowledgeNext]_knowledgeVars => FreshInv'
  <2>1. CASE UNCHANGED knowledgeVars
    <3>1. /\ scan' = scan /\ row' = row /\ node' = node /\ features' = features
          /\ storeRows' = storeRows /\ storeNodes' = storeNodes /\ storeEdges' = storeEdges
      BY <2>1 DEF knowledgeVars, storage, catalogVars
    <3>2. Consolidated' = Consolidated
      BY <3>1 DEF Consolidated
    <3>3. ScanTyped' = ScanTyped
      BY <3>1 DEF ScanTyped, IsScan
    <3>4. FreshSoFar' = FreshSoFar
      BY <3>1 DEF FreshSoFar, Begun, Enriched
    <3>5. ComputedSoFar' = ComputedSoFar
      BY <3>1, <3>2 DEF ComputedSoFar
    <3>6. CleanScanIsFresh' = CleanScanIsFresh
      BY <3>1 DEF CleanScanIsFresh
    <3>7. StoresAreComputed' = StoresAreComputed
      BY <3>1, <3>2 DEF StoresAreComputed
    <3> QED BY <3>1, <3>3, <3>4, <3>5, <3>6, <3>7 DEF FreshInv
  <2> QED BY <2>1, FreshStep
<1> QED BY <1>1, <1>2, PTL DEF KnowledgeSpec

\* A scan in which nothing fails leaves both stores with the new code, what it
\* made of it and severities adjusted once, whatever earlier scans, failures
\* and deletions left behind (processTask, PostgresDataAdapter.storeEntities,
\* PostgresGraphAdapter.storeNodes).
THEOREM CleanScansAreFresh == KnowledgeSpec => []CleanScanIsFresh
<1>1. FreshInv => CleanScanIsFresh
  BY DEF FreshInv
<1> QED BY <1>1, FreshHolds, PTL

\* And the data stores of both stores are those its features use, whatever
\* data stores, edges and features were there (data-store-consolidator.ts).
THEOREM StoresAreAlwaysComputed == KnowledgeSpec => []StoresAreComputed
<1>1. FreshInv => StoresAreComputed
  BY DEF FreshInv
<1> QED BY <1>1, FreshHolds, PTL

-----------------------------------------------------------------------------
(* The catalog of features: what a merge has still to write is what sets   *)
(* the active rows apart from the extraction.                              *)

RowFields == {"status", "version", "content", "prev", "log"}

IsRow(r) == DOMAIN r = RowFields

PersistFields == {"at", "drafts", "old", "gone", "new", "docs", "clean"}

Deprecates(w) == w.name \in Names /\ IsRow(w.row) /\ w.row.status = "deprecated"

StoresDraft(w, d) ==
    w.name = d.name /\ IsRow(w.row) /\ w.row.status = "active" /\ w.row.content = d.content

\* Old rows end deprecated, new ones are their drafts.
Planned(p) ==
    /\ \A i \in DOMAIN p.old : i \in DOMAIN p.drafts /\ Deprecates(p.old[i])
    /\ \A w \in p.gone : Deprecates(w)
    /\ \A i \in DOMAIN p.new : i \in DOMAIN p.drafts /\ StoresDraft(p.new[i], p.drafts[i])

IsPersist(p) ==
    /\ DOMAIN p = PersistFields
    /\ p.drafts \in Extractions
    /\ p.at \in {"write", "done"} => Planned(p)
    /\ p.at = "done" => DOMAIN p.old = {} /\ p.gone = {} /\ DOMAIN p.new = {}

\* The rows still to be deprecated.
Doomed(p) == {p.old[i].name : i \in DOMAIN p.old} \union {w.name : w \in p.gone}

OneDraftOfEachKey(p) ==
    \A i, j \in DOMAIN p.drafts : Key(p.drafts[i].name) = Key(p.drafts[j].name) => i = j

\* A row that is there to stay is a draft's, and says what it says unless it is
\* about to be written.
StaysOfDraft(p, n) ==
    \E i \in DOMAIN p.drafts :
        p.drafts[i].name = n /\ (i \in DOMAIN p.new \/ features[n].content = p.drafts[i].content)

\* A draft that is not to be written has its row, and keeps it.
HasRow(p, i) ==
    /\ p.drafts[i].name \notin Doomed(p)
    /\ features[p.drafts[i].name].status = "active"
    /\ features[p.drafts[i].name].content = p.drafts[i].content

Merging(p) ==
    /\ \A n \in Active \ Doomed(p) : StaysOfDraft(p, n)
    /\ \A i \in DOMAIN p.drafts \ DOMAIN p.new : HasRow(p, i)

FeatureTable ==
    /\ features = [n \in Names |-> features[n]]
    /\ \A n \in Names : IsRow(features[n])

CatalogInv ==
    /\ FeatureTable
    /\ IsPersist(persist)
    /\ (persist.at \in {"write", "done"} /\ persist.clean /\ OneDraftOfEachKey(persist))
          => Merging(persist)

LEMMA DraftsOfExtraction ==
    ASSUME NEW drafts \in Extractions
    PROVE  /\ DOMAIN drafts \in SUBSET Nat
           /\ \A i \in DOMAIN drafts : drafts[i] \in Draft
  BY CatalogAssumption DEF Extractions, BoundedSeq, SeqOf

\* As long as there are writes for drafts, one of them is next.
LEMMA SomeEarliest ==
    ASSUME NEW drafts \in Extractions, NEW writes, DOMAIN writes \subseteq DOMAIN drafts,
           Earliest(writes) = {}
    PROVE  DOMAIN writes = {}
<1>1. DOMAIN writes \in SUBSET Nat
  BY DraftsOfExtraction
<1> QED BY <1>1, LeastOf DEF Earliest

LEMMA CatalogInitially == KnowledgeInit => CatalogInv
<1> SUFFICES ASSUME KnowledgeInit PROVE CatalogInv
  OBVIOUS
<1>1. features = [n \in Names |-> NoFeature] /\ persist = Idle
  BY DEF KnowledgeInit, CatalogInit
<1>2. <<>> \in Extractions
  <2>1. <<>> \in [1..0 -> Draft]
    OBVIOUS
  <2> QED BY <2>1, CatalogAssumption DEF Extractions, BoundedSeq, SeqOf
<1>3. IsPersist(persist) /\ persist.at = "idle"
  BY <1>1, <1>2 DEF IsPersist, Idle, PersistFields
<1>4. FeatureTable
  BY <1>1 DEF FeatureTable, NoFeature, IsRow, RowFields
<1> QED BY <1>3, <1>4 DEF CatalogInv

\* Another extraction.
LEMMA ExtractionKeeps == CatalogInv /\ ExtractFeatures => CatalogInv'
<1> SUFFICES ASSUME CatalogInv, ExtractFeatures PROVE CatalogInv'
  OBVIOUS
<1>1. PICK drafts \in Extractions :
        persist' = [Idle EXCEPT !.at = IF drafts = <<>> THEN "idle" ELSE "load",
                                !.drafts = drafts]
  BY DEF ExtractFeatures
<1>2. features' = features
  BY DEF ExtractFeatures
<1>3. IsPersist(persist') /\ persist'.at \in {"idle", "load"}
  BY <1>1 DEF Idle, IsPersist, PersistFields
<1>4. FeatureTable'
  BY <1>2 DEF CatalogInv, FeatureTable
<1> QED BY <1>3, <1>4 DEF CatalogInv

\* A plan made from all active rows.
LEMMA PlanResult ==
    ASSUME FeatureTable, NEW drafts \in Extractions, NEW loaded \in SUBSET Names,
           NEW first \in Matches(loaded)
    PROVE  LET plan == Plan(drafts, loaded, first) IN
           /\ \A i \in DOMAIN plan.old : i \in DOMAIN drafts /\ Deprecates(plan.old[i])
           /\ \A w \in plan.gone : Deprecates(w)
           /\ \A i \in DOMAIN plan.new : i \in DOMAIN drafts
                                         /\ StoresDraft(plan.new[i], drafts[i])
           /\ \A n \in loaded \ Doomed(plan) :
                 \E i \in DOMAIN drafts : drafts[i].name = n
                                          /\ features[n].content = drafts[i].content
           /\ (\A i, j \in DOMAIN drafts : Key(drafts[i].name) = Key(drafts[j].name) => i = j)
                 => \A i \in DOMAIN drafts \ DOMAIN plan.new :
                       /\ drafts[i].name \in loaded \ Doomed(plan)
                       /\ features[drafts[i].name].content = drafts[i].content
<1> DEFINE Matched(d) == Key(d.name) \in DOMAIN first
           Match(d) == first[Key(d.name)]
           matched == {i \in DOMAIN drafts : Matched(drafts[i])}
           unchanged == {i \in matched : Same(drafts[i], Match(drafts[i]))}
           old == [i \in matched \ unchanged |-> Deprecate(Match(drafts[i]))]
           gone == {Deprecate(n) : n \in loaded \ {Match(drafts[i]) : i \in matched}}
           new == [i \in DOMAIN drafts \ unchanged |->
                      IF i \in matched THEN NewVersion(drafts[i], Match(drafts[i]))
                      ELSE NewFeature(drafts[i])]
           plan == [old |-> old, gone |-> gone, new |-> new]
<1>1. Plan(drafts, loaded, first) = plan
  BY Zenon DEF Plan
<1>2. \A i \in matched : /\ Match(drafts[i]) \in loaded
                         /\ Key(Match(drafts[i])) = Key(drafts[i].name)
  BY DEF Matches
<1>3. \A i \in unchanged : /\ i \in matched
                           /\ drafts[i].name = Match(drafts[i])
                           /\ features[drafts[i].name].content = drafts[i].content
  BY DEF Same
<1>4. \A n \in Names : Deprecates(Deprecate(n)) /\ Deprecate(n).name = n
  BY DEF FeatureTable, Deprecates, Deprecate, IsRow, RowFields
<1>5. \A i \in DOMAIN new : i \in DOMAIN drafts /\ StoresDraft(new[i], drafts[i])
  BY DEF NewVersion, NewFeature, StoresDraft, IsRow, RowFields
<1>6. /\ DOMAIN old = matched \ unchanged /\ matched \in SUBSET DOMAIN drafts
      /\ \A i \in DOMAIN old : old[i] = Deprecate(Match(drafts[i]))
  OBVIOUS
<1>7. /\ \A w \in gone : \E n \in loaded \ {Match(drafts[i]) : i \in matched} : w = Deprecate(n)
      /\ \A n \in loaded \ {Match(drafts[i]) : i \in matched} : Deprecate(n) \in gone
  OBVIOUS
<1>8. DOMAIN drafts \ DOMAIN new = unchanged
  OBVIOUS
<1> HIDE DEF matched, unchanged, Matched, Match, old, gone, new
<1>9. \A n : n \in Doomed(plan)
              <=> \/ \E i \in DOMAIN old : n = old[i].name
                  \/ \E w \in gone : n = w.name
  BY DEF Doomed
<1>10. ASSUME NEW n \in loaded \ Doomed(plan)
       PROVE  \E i \in DOMAIN drafts : drafts[i].name = n
                                        /\ features[n].content = drafts[i].content
  <2>1. n \in {Match(drafts[i]) : i \in matched}
    <3>1. Deprecate(n) \notin gone
      BY <1>4, <1>9
    <3> QED BY <1>7, <3>1
  <2>2. PICK i \in matched : n = Match(drafts[i])
    BY <2>1
  <2>3. i \notin DOMAIN old
    BY <1>2, <1>4, <1>6, <1>9, <2>2
  <2> QED BY <1>3, <1>6, <2>2, <2>3
<1>11. ASSUME \A i, j \in DOMAIN drafts : Key(drafts[i].name) = Key(drafts[j].name) => i = j,
              NEW i \in unchanged
       PROVE  drafts[i].name \in loaded \ Doomed(plan)
  <2>1. /\ i \in matched /\ drafts[i].name = Match(drafts[i]) /\ Match(drafts[i]) \in loaded
    BY <1>2, <1>3
  <2>2. ASSUME NEW j \in DOMAIN old PROVE drafts[i].name # old[j].name
    <3>1. j \in matched /\ j # i /\ old[j].name = Match(drafts[j])
      BY <1>2, <1>4, <1>6
    <3>2. Key(drafts[j].name) # Key(drafts[i].name)
      BY <1>6, <1>11, <2>1, <3>1
    <3> QED BY <1>2, <2>1, <3>1, <3>2
  <2>3. ASSUME NEW w \in gone PROVE drafts[i].name # w.name
    BY <1>4, <1>7, <2>1
  <2> QED BY <1>9, <2>1, <2>2, <2>3
<1>12. plan.old = old /\ plan.gone = gone /\ plan.new = new
  OBVIOUS
<1> HIDE DEF plan
<1> QED
  <2>1. \A i \in DOMAIN plan.old : i \in DOMAIN drafts /\ Deprecates(plan.old[i])
    BY <1>2, <1>4, <1>6, <1>12
  <2>2. \A w \in plan.gone : Deprecates(w)
    BY <1>4, <1>7, <1>12
  <2> QED BY <1>1, <1>3, <1>5, <1>8, <1>10, <1>11, <1>12, <2>1, <2>2

\* The plan is made of what the list was read to be.
LEMMA PlanKeeps == CatalogInv /\ LoadAndPlan => CatalogInv'
<1> SUFFICES ASSUME CatalogInv, LoadAndPlan PROVE CatalogInv'
  OBVIOUS
<1>1. PICK loaded \in Loaded : \E first \in Matches(loaded) :
        LET plan == Plan(persist.drafts, loaded, first)
        IN persist' = [persist EXCEPT
            !.at = "write", !.old = plan.old, !.gone = plan.gone,
            !.new = plan.new, !.docs = {plan.new[i].name : i \in DOMAIN plan.new},
            !.clean = (loaded = Active)]
  BY Zenon DEF LoadAndPlan
<1>2. PICK first \in Matches(loaded) :
        LET plan == Plan(persist.drafts, loaded, first)
        IN persist' = [persist EXCEPT
            !.at = "write", !.old = plan.old, !.gone = plan.gone,
            !.new = plan.new, !.docs = {plan.new[i].name : i \in DOMAIN plan.new},
            !.clean = (loaded = Active)]
  BY <1>1, Zenon
<1> DEFINE plan == Plan(persist.drafts, loaded, first)
<1>3. features' = features
  BY DEF LoadAndPlan
<1>4. loaded \in SUBSET Names
  BY DEF Loaded, Active
<1>5. /\ persist.drafts \in Extractions /\ DOMAIN persist = PersistFields /\ FeatureTable
  BY DEF CatalogInv, IsPersist
<1>6. /\ \A i \in DOMAIN plan.old : i \in DOMAIN persist.drafts /\ Deprecates(plan.old[i])
      /\ \A w \in plan.gone : Deprecates(w)
      /\ \A i \in DOMAIN plan.new : i \in DOMAIN persist.drafts
                                    /\ StoresDraft(plan.new[i], persist.drafts[i])
      /\ \A n \in loaded \ Doomed(plan) :
             \E i \in DOMAIN persist.drafts :
                 persist.drafts[i].name = n /\ features[n].content = persist.drafts[i].content
      /\ OneDraftOfEachKey(persist)
            => \A i \in DOMAIN persist.drafts \ DOMAIN plan.new :
                  /\ persist.drafts[i].name \in loaded \ Doomed(plan)
                  /\ features[persist.drafts[i].name].content = persist.drafts[i].content
  BY <1>4, <1>5, PlanResult DEF OneDraftOfEachKey
<1>7. /\ DOMAIN persist' = PersistFields /\ persist'.at = "write"
      /\ persist'.drafts = persist.drafts /\ persist'.old = plan.old
      /\ persist'.gone = plan.gone /\ persist'.new = plan.new
      /\ persist'.clean = (loaded = Active)
  <2> DEFINE was == persist
             made == [was EXCEPT !.at = "write", !.old = plan.old, !.gone = plan.gone,
                          !.new = plan.new,
                          !.docs = {plan.new[i].name : i \in DOMAIN plan.new},
                          !.clean = (loaded = Active)]
  <2>1. persist' = made
    BY <1>2
  <2>2. DOMAIN was = PersistFields /\ was.drafts = persist.drafts
    BY <1>5
  <2> HIDE DEF plan, was
  <2>3. /\ DOMAIN made = PersistFields /\ made.at = "write"
        /\ made.drafts = was.drafts
        /\ made.old = plan.old /\ made.gone = plan.gone /\ made.new = plan.new
        /\ made.clean = (loaded = Active)
    BY <2>2 DEF PersistFields
  <2> QED BY <2>1, <2>2, <2>3
<1> HIDE DEF plan
<1>8. IsPersist(persist')
  BY <1>5, <1>6, <1>7 DEF IsPersist, Planned
<1>9. ASSUME persist'.clean, OneDraftOfEachKey(persist') PROVE Merging(persist)'
  <2>1. loaded = Active /\ OneDraftOfEachKey(persist)
    BY <1>7, <1>9 DEF OneDraftOfEachKey
  <2>2. Active' = Active /\ Doomed(persist') = Doomed(plan)
    BY <1>3, <1>7 DEF Active, Doomed
  <2> QED BY <1>3, <1>6, <1>7, <2>1, <2>2 DEF Merging, StaysOfDraft, HasRow, Active
<1>10. FeatureTable'
  BY <1>3, <1>5 DEF FeatureTable
<1> QED BY <1>8, <1>9, <1>10 DEF CatalogInv

\* A function agrees with another wherever it is defined.
Part(f, g) == \A x \in DOMAIN f : x \in DOMAIN g /\ f[x] = g[x]

LEMMA RestrictionIsPart ==
    ASSUME NEW f, NEW x PROVE Part(f, f) /\ Part(Restrict(f, DOMAIN f \ {x}), f)
  BY DEF Part, Restrict

\* With fewer writes left a plan is one still.
LEMMA FewerWrites ==
    ASSUME NEW p, NEW q, Planned(p), q.drafts = p.drafts,
           Part(q.old, p.old), q.gone \subseteq p.gone, Part(q.new, p.new)
    PROVE  Planned(q)
  BY DEF Planned, Part

\* A row is deprecated.
LEMMA DeprecationKeeps ==
    ASSUME CatalogInv, persist.at = "write",
           NEW w, Deprecates(w), w.name \in Doomed(persist),
           features' = [features EXCEPT ![w.name] = w.row],
           DOMAIN persist' = PersistFields, persist'.at = "write",
           persist'.drafts = persist.drafts, persist'.new = persist.new,
           persist'.clean = persist.clean,
           Part(persist'.old, persist.old), persist'.gone \subseteq persist.gone,
           Doomed(persist) \subseteq Doomed(persist') \union {w.name}
    PROVE  CatalogInv'
<1> DEFINE n == w.name
<1>1. /\ FeatureTable /\ IsPersist(persist) /\ Planned(persist)
      /\ n \in Names /\ w.row.status = "deprecated" /\ IsRow(w.row)
  BY DEF CatalogInv, IsPersist, Deprecates
<1>2. Part(persist'.new, persist.new)
  BY DEF Part
<1>3. Planned(persist')
  BY <1>1, <1>2, FewerWrites
<1>4. IsPersist(persist')
  BY <1>1, <1>3 DEF IsPersist
<1>5. /\ features' = [m \in Names |-> features'[m]]
      /\ \A m \in Names : features'[m] = IF m = n THEN w.row ELSE features[m]
  BY <1>1 DEF FeatureTable
<1>6. FeatureTable'
  BY <1>1, <1>5 DEF FeatureTable
<1>7. Doomed(persist') \subseteq Doomed(persist)
  BY DEF Doomed, Part
<1>8. ASSUME persist.clean, OneDraftOfEachKey(persist) PROVE Merging(persist)'
  <2>1. Merging(persist)
    BY <1>8 DEF CatalogInv
  <2>2. Active' = Active \ {n}
    BY <1>1, <1>5 DEF Active
  <2>3. ASSUME NEW m \in Active' \ Doomed(persist') PROVE StaysOfDraft(persist, m)'
    <3>1. m # n /\ m \in Names /\ m \in Active \ Doomed(persist)
      BY <2>2, <2>3 DEF Active
    <3>2. StaysOfDraft(persist, m) /\ features'[m] = features[m]
      BY <1>5, <2>1, <3>1 DEF Merging
    <3> QED BY <3>2 DEF StaysOfDraft
  <2>4. ASSUME NEW i \in DOMAIN persist'.drafts \ DOMAIN persist'.new
        PROVE  HasRow(persist, i)'
    <3>1. HasRow(persist, i)
      BY <2>1, <2>4 DEF Merging
    <3>2. persist.drafts[i].name \in Names /\ persist.drafts[i].name # n
      BY <1>1, <2>4, <3>1, DraftsOfExtraction DEF HasRow, IsPersist, Draft
    <3>3. features'[persist.drafts[i].name] = features[persist.drafts[i].name]
      BY <1>5, <3>2
    <3> QED BY <1>7, <3>1, <3>3 DEF HasRow
  <2> QED BY <2>3, <2>4 DEF Merging
<1>9. OneDraftOfEachKey(persist') => OneDraftOfEachKey(persist)
  BY DEF OneDraftOfEachKey
<1> QED BY <1>4, <1>6, <1>8, <1>9 DEF CatalogInv

\* What is left of the plan when one write is taken.
LEMMA LeftOfPlan ==
    ASSUME DOMAIN persist = PersistFields, persist.at = "write",
           persist.drafts \in Extractions, Planned(persist), NEW next \in NextWrites
    PROVE  /\ DOMAIN next.left = PersistFields /\ next.left.at = "write"
           /\ next.left.drafts = persist.drafts /\ next.left.clean = persist.clean
           /\ Part(next.left.old, persist.old) /\ next.left.gone \subseteq persist.gone
           /\ Part(next.left.new, persist.new)
           /\ \/ /\ next.write.name \in Doomed(persist)
                 /\ \/ \E i \in DOMAIN persist.old : next.write = persist.old[i]
                    \/ next.write \in persist.gone
                 /\ next.left.new = persist.new
                 /\ Doomed(persist) \subseteq Doomed(next.left) \union {next.write.name}
              \/ /\ DOMAIN persist.old = {} /\ persist.gone = {}
                 /\ next.left.old = persist.old /\ next.left.gone = persist.gone
                 /\ \E i \in DOMAIN persist.new :
                       /\ next.write = persist.new[i]
                       /\ next.left.new = Restrict(persist.new, DOMAIN persist.new \ {i})
<1>1. CASE next \in OldWrites
  <2>1. PICK i \in DOMAIN persist.old :
           next = [write |-> persist.old[i],
                   left |-> [persist EXCEPT !.old = Restrict(@, DOMAIN @ \ {i})]]
    BY <1>1 DEF OldWrites, Earliest
  <2>2. /\ DOMAIN next.left = PersistFields /\ next.left.at = "write"
        /\ next.left.drafts = persist.drafts /\ next.left.clean = persist.clean
        /\ next.left.old = Restrict(persist.old, DOMAIN persist.old \ {i})
        /\ next.left.gone = persist.gone /\ next.left.new = persist.new
        /\ next.write = persist.old[i]
    BY <2>1 DEF PersistFields
  <2>3. \A j \in DOMAIN persist.old \ {i} :
           j \in DOMAIN next.left.old /\ next.left.old[j] = persist.old[j]
    BY <2>2 DEF Restrict
  <2>4. /\ Doomed(persist) \subseteq Doomed(next.left) \union {next.write.name}
        /\ next.write.name \in Doomed(persist)
    BY <2>2, <2>3 DEF Doomed
  <2> QED BY <2>2, <2>4, RestrictionIsPart
<1>2. CASE next \in GoneWrites
  <2>1. PICK w \in persist.gone :
           next = [write |-> w, left |-> [persist EXCEPT !.gone = @ \ {w}]]
    BY <1>2 DEF GoneWrites
  <2>2. /\ DOMAIN next.left = PersistFields /\ next.left.at = "write"
        /\ next.left.drafts = persist.drafts /\ next.left.clean = persist.clean
        /\ next.left.old = persist.old /\ next.left.new = persist.new
        /\ next.left.gone = persist.gone \ {w} /\ next.write = w
    BY <2>1 DEF PersistFields
  <2>3. /\ Doomed(persist) \subseteq Doomed(next.left) \union {next.write.name}
        /\ next.write.name \in Doomed(persist)
    BY <2>2 DEF Doomed
  <2> QED BY <2>1, <2>2, <2>3, RestrictionIsPart
<1>3. CASE next \in NewWrites /\ OldWrites = {} /\ GoneWrites = {}
  <2>1. PICK i \in DOMAIN persist.new :
           next = [write |-> persist.new[i],
                   left |-> [persist EXCEPT !.new = Restrict(@, DOMAIN @ \ {i})]]
    BY <1>3 DEF NewWrites, Earliest
  <2>2. /\ DOMAIN next.left = PersistFields /\ next.left.at = "write"
        /\ next.left.drafts = persist.drafts /\ next.left.clean = persist.clean
        /\ next.left.old = persist.old /\ next.left.gone = persist.gone
        /\ next.left.new = Restrict(persist.new, DOMAIN persist.new \ {i})
        /\ next.write = persist.new[i]
    BY <2>1 DEF PersistFields
  <2>3. persist.gone = {}
    BY <1>3 DEF GoneWrites
  <2>4. Earliest(persist.old) = {}
    BY <1>3 DEF OldWrites
  <2>5. DOMAIN persist.old = {}
    BY <2>4, SomeEarliest DEF Planned
  <2> QED BY <2>2, <2>3, <2>5, RestrictionIsPart
<1> QED BY <1>1, <1>2, <1>3 DEF NextWrites

\* A draft is stored, once nothing is left to deprecate.
LEMMA NewWriteKeeps ==
    ASSUME CatalogInv, persist.at = "write", NEW i \in DOMAIN persist.new,
           features' = [features EXCEPT ![persist.new[i].name] = persist.new[i].row],
           DOMAIN persist.old = {}, persist.gone = {},
           DOMAIN persist' = PersistFields, persist'.at = "write",
           persist'.drafts = persist.drafts, persist'.old = persist.old,
           persist'.gone = persist.gone, persist'.clean = persist.clean,
           persist'.new = Restrict(persist.new, DOMAIN persist.new \ {i})
    PROVE  CatalogInv'
<1> DEFINE n == persist.drafts[i].name
           stored == persist.new[i].row
<1>1. /\ FeatureTable /\ IsPersist(persist) /\ Planned(persist)
      /\ i \in DOMAIN persist.drafts /\ persist.new[i].name = n
      /\ stored.status = "active" /\ stored.content = persist.drafts[i].content
      /\ IsRow(stored)
  BY DEF CatalogInv, IsPersist, Planned, StoresDraft
<1>2. DOMAIN persist'.new = DOMAIN persist.new \ {i}
  BY DEF Restrict
<1>3. Part(persist'.old, persist.old) /\ Part(persist'.new, persist.new)
  BY RestrictionIsPart
<1>4. Doomed(persist') = Doomed(persist)
  BY DEF Doomed
<1>5. IsPersist(persist')
  <2>1. Planned(persist')
    BY <1>1, <1>3, FewerWrites
  <2> QED BY <1>1, <2>1 DEF IsPersist
<1>6. \A j \in DOMAIN persist.drafts : persist.drafts[j].name \in Names
  BY <1>1, DraftsOfExtraction DEF IsPersist, Draft
<1>7. /\ features' = [m \in Names |-> features'[m]]
      /\ \A m \in Names : features'[m] = IF m = n THEN stored ELSE features[m]
  BY <1>6, <1>1 DEF FeatureTable
<1>8. FeatureTable'
  BY <1>1, <1>7 DEF FeatureTable
<1>9. ASSUME persist.clean, OneDraftOfEachKey(persist) PROVE Merging(persist)'
  <2>1. Merging(persist)
    BY <1>9 DEF CatalogInv
  <2>2. Active' = Active \union {n}
    BY <1>6, <1>1, <1>7 DEF Active
  <2>3. ASSUME NEW m \in Active' \ Doomed(persist') PROVE StaysOfDraft(persist, m)'
    <3>1. CASE m = n
      BY <1>6, <1>1, <1>2, <1>7, <3>1 DEF StaysOfDraft
    <3>2. CASE m # n
      <4>1. m \in Names /\ m \in Active \ Doomed(persist)
        BY <1>4, <2>2, <2>3, <3>2 DEF Active
      <4>2. features'[m] = features[m]
        BY <1>7, <3>2, <4>1
      <4>3. PICK j \in DOMAIN persist.drafts :
               /\ persist.drafts[j].name = m
               /\ j \in DOMAIN persist.new \/ features[m].content = persist.drafts[j].content
        BY <2>1, <4>1 DEF Merging, StaysOfDraft
      <4>4. j # i
        BY <3>2, <4>3
      <4> QED BY <1>2, <1>3, <4>2, <4>3, <4>4 DEF StaysOfDraft
    <3> QED BY <3>1, <3>2
  <2>4. ASSUME NEW j \in DOMAIN persist'.drafts \ DOMAIN persist'.new
        PROVE  HasRow(persist, j)'
    <3>1. CASE j = i
      BY <1>6, <1>1, <1>7, <1>4, <3>1 DEF HasRow, Doomed
    <3>2. CASE j # i
      <4>1. j \in DOMAIN persist.drafts \ DOMAIN persist.new
        BY <1>2, <1>3, <2>4, <3>2
      <4>2. HasRow(persist, j)
        BY <2>1, <4>1 DEF Merging
      <4>3. persist.drafts[j].name # n
        BY <1>1, <1>9, <3>2, <4>1 DEF OneDraftOfEachKey
      <4> QED BY <1>6, <1>7, <1>4, <4>1, <4>2, <4>3 DEF HasRow
    <3> QED BY <3>1, <3>2
  <2> QED BY <2>3, <2>4 DEF Merging
<1>10. OneDraftOfEachKey(persist') => OneDraftOfEachKey(persist)
  BY <1>2 DEF OneDraftOfEachKey
<1> QED BY <1>2, <1>5, <1>8, <1>9, <1>10 DEF CatalogInv

LEMMA WriteKeeps == CatalogInv /\ WriteFeature => CatalogInv'
<1> SUFFICES ASSUME CatalogInv, WriteFeature PROVE CatalogInv'
  OBVIOUS
<1>1. /\ FeatureTable /\ DOMAIN persist = PersistFields /\ persist.at = "write"
      /\ persist.drafts \in Extractions /\ Planned(persist)
  BY DEF WriteFeature, CatalogInv, IsPersist
<1>2. PICK next \in NextWrites :
        \/ /\ features' = [features EXCEPT ![next.write.name] = next.write.row]
           /\ persist' = next.left
        \/ features' = features /\ persist' = [next.left EXCEPT !.clean = FALSE]
  BY DEF WriteFeature
<1>3. /\ DOMAIN next.left = PersistFields /\ next.left.at = "write"
      /\ next.left.drafts = persist.drafts /\ next.left.clean = persist.clean
      /\ Part(next.left.old, persist.old) /\ next.left.gone \subseteq persist.gone
      /\ Part(next.left.new, persist.new)
  BY <1>1, LeftOfPlan
\* A write that is lost: nothing more is promised of this merge.
<1>4. CASE features' = features /\ persist' = [next.left EXCEPT !.clean = FALSE]
  <2>1. /\ DOMAIN persist' = PersistFields /\ persist'.at = "write"
        /\ persist'.drafts = persist.drafts /\ ~persist'.clean
        /\ Part(persist'.old, persist.old) /\ persist'.gone \subseteq persist.gone
        /\ Part(persist'.new, persist.new)
    BY <1>3, <1>4 DEF PersistFields
  <2>2. Planned(persist')
    BY <1>1, <2>1, FewerWrites
  <2>3. FeatureTable'
    BY <1>1, <1>4 DEF FeatureTable
  <2> QED BY <1>1, <2>1, <2>2, <2>3 DEF CatalogInv, IsPersist
<1>5. CASE /\ features' = [features EXCEPT ![next.write.name] = next.write.row]
           /\ persist' = next.left
  <2>1. CASE /\ next.write.name \in Doomed(persist)
             /\ \/ \E i \in DOMAIN persist.old : next.write = persist.old[i]
                \/ next.write \in persist.gone
             /\ next.left.new = persist.new
             /\ Doomed(persist) \subseteq Doomed(next.left) \union {next.write.name}
    <3>1. Deprecates(next.write)
      BY <1>1, <2>1 DEF Planned
    <3> QED BY <1>1, <1>3, <1>5, <2>1, <3>1, DeprecationKeeps
  <2>2. ASSUME NEW i \in DOMAIN persist.new, next.write = persist.new[i],
               next.left.new = Restrict(persist.new, DOMAIN persist.new \ {i}),
               DOMAIN persist.old = {}, persist.gone = {},
               next.left.old = persist.old, next.left.gone = persist.gone
        PROVE  CatalogInv'
    BY <1>1, <1>3, <1>5, <2>2, NewWriteKeeps
  <2> QED BY <1>1, <2>1, <2>2, LeftOfPlan
<1> QED BY <1>2, <1>4, <1>5

\* The merge ends when nothing is left to write.
LEMMA IndexKeeps == CatalogInv /\ IndexFeatures => CatalogInv'
<1> SUFFICES ASSUME CatalogInv, IndexFeatures PROVE CatalogInv'
  OBVIOUS
<1>1. /\ persist.at = "write" /\ NextWrites = {}
      /\ features' = features /\ persist' = [persist EXCEPT !.at = "done"]
  BY DEF IndexFeatures
<1>2. /\ FeatureTable /\ DOMAIN persist = PersistFields
      /\ persist.drafts \in Extractions /\ Planned(persist)
  BY <1>1 DEF CatalogInv, IsPersist
<1>3. OldWrites = {} /\ GoneWrites = {} /\ NewWrites = {}
  BY <1>1 DEF NextWrites
<1>4. DOMAIN persist.old = {} /\ persist.gone = {}
  BY <1>2, <1>3, SomeEarliest DEF OldWrites, GoneWrites, Planned
<1>5. DOMAIN persist.new = {}
  BY <1>2, <1>3, SomeEarliest DEF NewWrites, Planned
<1>6. /\ DOMAIN persist' = PersistFields /\ persist'.at = "done"
      /\ persist'.drafts = persist.drafts /\ persist'.clean = persist.clean
      /\ persist'.old = persist.old /\ persist'.gone = persist.gone
      /\ persist'.new = persist.new
  BY <1>1, <1>2 DEF PersistFields
<1>7. IsPersist(persist')
  BY <1>2, <1>4, <1>5, <1>6 DEF IsPersist, Planned
<1>8. FeatureTable'
  BY <1>1, <1>2 DEF FeatureTable
<1>9. ASSUME persist'.clean, OneDraftOfEachKey(persist') PROVE Merging(persist)'
  <2>1. Merging(persist)
    BY <1>1, <1>6, <1>9 DEF CatalogInv, OneDraftOfEachKey
  <2>2. Doomed(persist') = Doomed(persist)
    BY <1>6 DEF Doomed
  <2> QED BY <1>1, <1>6, <2>1, <2>2 DEF Merging, StaysOfDraft, HasRow, Active
<1> QED BY <1>7, <1>8, <1>9 DEF CatalogInv

\* All assets are deleted, at any moment.
LEMMA DeletionKeeps == CatalogInv /\ DeleteTenantData => CatalogInv'
<1> SUFFICES ASSUME CatalogInv, DeleteTenantData PROVE CatalogInv'
  OBVIOUS
<1>1. /\ features' = [n \in Names |-> NoFeature]
      /\ persist' = [persist EXCEPT !.clean = FALSE]
  BY DEF DeleteTenantData
<1>2. IsPersist(persist') /\ ~persist'.clean
  BY <1>1 DEF CatalogInv, IsPersist, Planned, PersistFields
<1>3. FeatureTable'
  BY <1>1 DEF FeatureTable, NoFeature, IsRow, RowFields
<1> QED BY <1>2, <1>3 DEF CatalogInv

LEMMA CatalogStays ==
    ASSUME CatalogInv, features' = features, persist' = persist PROVE CatalogInv'
<1>1. FeatureTable'
  BY DEF CatalogInv, FeatureTable
<1>2. Merging(persist) => Merging(persist)'
  BY DEF Merging, StaysOfDraft, HasRow, Active, Doomed
<1> QED BY <1>1, <1>2 DEF CatalogInv

LEMMA CatalogStep == CatalogInv /\ [KnowledgeNext]_knowledgeVars => CatalogInv'
<1> SUFFICES ASSUME CatalogInv, [KnowledgeNext]_knowledgeVars PROVE CatalogInv'
  OBVIOUS
<1> USE DEF catalogVars
<1>1. CASE ExtractServiceFeatures
  BY <1>1, ExtractionKeeps, CatalogStays DEF ExtractServiceFeatures
<1>2. CASE PersistFeatures
  BY <1>2, PlanKeeps, WriteKeeps, IndexKeeps DEF PersistFeatures, PersistStep
<1>3. CASE DeleteTenantData
  BY <1>3, DeletionKeeps
<1>4. CASE DeleteTenantGraph
  BY <1>4, CatalogStays DEF DeleteTenantGraph
<1>5. CASE UNCHANGED knowledgeVars
  BY <1>5, CatalogStays DEF knowledgeVars
<1>6. CASE StartScan \/ ReadPrevious \/ StoreRows \/ StoreNodes
           \/ FetchDbEntities \/ AnalyseService \/ StoreAnalysedNode
  BY <1>6, CatalogStays
     DEF StartScan, ReadPrevious, StoreRows, StoreNodes,
         FetchDbEntities, AnalyseService, StoreAnalysedNode
<1>7. CASE ModelThreats \/ StoreThreats \/ StoreThreatNode \/ ReadServiceAgain
           \/ DeleteStores \/ Consolidate
  BY <1>7, CatalogStays
     DEF ModelThreats, StoreThreats, StoreThreatNode, ReadServiceAgain,
         DeleteStores, Consolidate
<1>8. CASE StoreStoreRows \/ StoreStoreNodes \/ StoreStoreEdges \/ AnalyseExploitability
  BY <1>8, CatalogStays
     DEF StoreStoreRows, StoreStoreNodes, StoreStoreEdges, AnalyseExploitability
<1> QED BY <1>1, <1>2, <1>3, <1>4, <1>5, <1>6, <1>7, <1>8 DEF KnowledgeNext, ScanStep

\* When the merge is done its extraction is what is active.
LEMMA DoneIsExtraction == CatalogInv => CatalogIsExtraction
<1> SUFFICES ASSUME CatalogInv, persist.at = "done", persist.clean, OneDraftOfEachKey(persist)
             PROVE  {[name |-> n, content |-> features[n].content] : n \in Active}
                       = {persist.drafts[i] : i \in DOMAIN persist.drafts}
  BY DEF CatalogIsExtraction, OneDraftOfEachKey
<1>1. /\ Merging(persist) /\ Doomed(persist) = {} /\ DOMAIN persist.new = {}
      /\ persist.drafts \in Extractions
  BY DEF CatalogInv, IsPersist, Doomed
<1>2. \A i \in DOMAIN persist.drafts :
         persist.drafts[i] = [name |-> persist.drafts[i].name,
                              content |-> persist.drafts[i].content]
  BY <1>1, DraftsOfExtraction DEF Draft
<1>3. \A n \in Active : \E i \in DOMAIN persist.drafts :
         persist.drafts[i].name = n /\ persist.drafts[i].content = features[n].content
  BY <1>1 DEF Merging, StaysOfDraft
<1>4. \A i \in DOMAIN persist.drafts :
         /\ persist.drafts[i].name \in Active
         /\ features[persist.drafts[i].name].content = persist.drafts[i].content
  BY <1>1, DraftsOfExtraction DEF Merging, HasRow, Active, Draft
<1>5. ASSUME NEW n \in Active
      PROVE  [name |-> n, content |-> features[n].content]
                \in {persist.drafts[i] : i \in DOMAIN persist.drafts}
  BY <1>2, <1>3
<1>6. ASSUME NEW i \in DOMAIN persist.drafts
      PROVE  persist.drafts[i]
                \in {[name |-> n, content |-> features[n].content] : n \in Active}
  <2>1. persist.drafts[i] = [name |-> persist.drafts[i].name,
                             content |-> features[persist.drafts[i].name].content]
    BY <1>2, <1>4
  <2> QED BY <1>4, <2>1
<1> QED BY <1>5, <1>6

\* A merge that saw every active row and lost no write leaves exactly the
\* features just extracted active, whatever earlier scans and deletions left
\* behind, for every spelling of their names
\* (BusinessFeatureExtractor.persistFeatures).
THEOREM CatalogIsAlwaysExtraction == KnowledgeSpec => []CatalogIsExtraction
<1> QED BY CatalogInitially, CatalogStep, DoneIsExtraction, PTL DEF KnowledgeSpec
=============================================================================
