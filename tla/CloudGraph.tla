----------------------------- MODULE CloudGraph -----------------------------
(***************************************************************************)
(* CloudGraphBuilder: what was read of an Azure and an AWS estate becomes  *)
(* a graph of nodes and typed edges, and the nodes that traffic from the   *)
(* internet can reach are flagged.                                         *)
(*                                                                         *)
(* An item is one thing the cloud has: a resource, a rule, an assignment.  *)
(* Its refs are the ids it names (its parent, its subnet, the host of an   *)
(* origin, ...), which the builder joins on; open says of a kind that can  *)
(* face the internet that it does: a firewall that allows by default, an   *)
(* API management outside a private network, a security group that admits  *)
(* 0.0.0.0/0, an internet-facing load balancer.                            *)
(***************************************************************************)
EXTENDS Naturals, FiniteSets

CONSTANT Items   \* everything the estate may ever hold

Internet == "internet"

\* What each of the four families of calls answers with, a kind for each call.
AzureIngressKinds ==
    {"FrontDoorProfile", "FrontDoorEndpoint", "FrontDoorRoute",
     "FrontDoorOriginGroup", "FrontDoorOrigin", "TrafficManagerProfile",
     "TrafficManagerEndpoint", "APIManagementService", "APIMApi",
     "APIMBackend", "AppGateway"}

\* The resources whose graph node has the id of their cloud_resource entity.
ComputeKinds == {"ContainerApp", "StorageAccount", "WebApp"}
ResourceKinds ==
    ComputeKinds \cup {"VirtualMachine", "VirtualNetwork", "Subnet"}

\* A storage account is read again for its firewall rules.
NetworkKinds == {"NetworkSecurityGroup", "PrivateEndpoint", "VNetPeering",
                 "ServiceEndpoint", "StorageAccount"}
IdentityKinds == {"ManagedIdentity", "RoleAssignment"}

AwsIngressKinds ==
    {"CloudFrontDistribution", "ALB", "ALBListener", "ALBTargetGroup",
     "APIGatewayRestApi", "APIGatewayV2Api", "WAFWebACL", "RegionalWebACL"}
AwsNetworkKinds == {"VPC", "AWSSubnet", "SecurityGroup", "VPCEndpoint",
                    "VPCPeering", "NATGateway"}
AwsIdentityKinds == {"IAMRole", "IAMInstanceProfile", "EC2Instance",
                     "LambdaFunction", "ECSService"}

AzureKinds == AzureIngressKinds \cup ResourceKinds \cup NetworkKinds
              \cup IdentityKinds
AwsKinds == AwsIngressKinds \cup AwsNetworkKinds \cup AwsIdentityKinds

Ids == {i.id : i \in Items}

ASSUME ItemAssumption ==
    /\ Items \subseteq [id : Ids, kind : AzureKinds \cup AwsKinds,
                        refs : SUBSET Ids, open : BOOLEAN]
    /\ IsFiniteSet(Items) /\ Internet \notin Ids
    /\ \A i, j \in Items : i.id = j.id => i.kind = j.kind

OfKind(S, kinds) == {x \in S : x.kind \in kinds}

Node(i, exposed) == [id |-> i.id, kind |-> i.kind, refs |-> i.refs,
                     open |-> i.open, exposed |-> exposed]

InternetNode == [id |-> Internet, kind |-> "InternetNode", refs |-> {},
                 open |-> TRUE, exposed |-> TRUE]

-----------------------------------------------------------------------------
(* Edges.                                                                  *)

\* about is the metadata that tells two edges of the same ends apart.
Rel(type, source, target) ==
    [type |-> type, source |-> source, target |-> target, about |-> "none"]

\* Edges from what names something to what it names, and the other way.
PointsTo(type, S, T) ==
    {Rel(type, p[1].id, p[2].id) : p \in {q \in S \X T : q[2].id \in q[1].refs}}

Holds(type, S, T) ==
    {Rel(type, p[1].id, p[2].id) : p \in {q \in S \X T : q[1].id \in q[2].refs}}

Named(id, kinds) == \E i \in Items : i.id = id /\ i.kind \in kinds

\* One edge of each type and pair of ends is kept.  The builder gives all
\* edges of one key the same confidence, so the first of them wins, and which
\* is first is up to the cloud's answer.
DeduplicateRelationships(edges) ==
    {e \in edges : e = CHOOSE f \in edges :
                          /\ f.type = e.type /\ f.source = e.source
                          /\ f.target = e.target}

-----------------------------------------------------------------------------
(* Azure: nodes.                                                           *)

\* Some nodes are flagged from the start.
IngressNodes(batch) ==
    {Node(i, \/ i.kind \in {"FrontDoorProfile", "FrontDoorEndpoint",
                            "TrafficManagerProfile", "AppGateway"}
             \/ i.kind = "APIManagementService" /\ i.open) : i \in batch}

BuildComputeNodes(batch) ==
    {Node(i, FALSE) : i \in OfKind(batch, ComputeKinds)}

NetworkNodes(resources, topology) ==
    {Node(i, FALSE) : i \in
        OfKind(resources, {"VirtualNetwork", "Subnet"})
        \cup OfKind(topology, {"NetworkSecurityGroup", "PrivateEndpoint"})}

IdentityNodes(batch) == {Node(i, FALSE) : i \in OfKind(batch, {"ManagedIdentity"})}

-----------------------------------------------------------------------------
(* Azure: edges.                                                           *)

BuildIngressEdges(nodes) ==
    LET K(kind) == OfKind(nodes, {kind})
        Public == {n \in K("APIManagementService") : n.open}
    IN  {Rel("ROUTES_TO", Internet, n.id) :
            n \in K("FrontDoorProfile") \cup K("TrafficManagerProfile")
                  \cup Public}
        \cup Holds("HAS_ENDPOINT", K("FrontDoorProfile"), K("FrontDoorEndpoint"))
        \cup Holds("HAS_ROUTE", K("FrontDoorEndpoint"), K("FrontDoorRoute"))
        \cup Holds("HAS_ORIGIN_GROUP", K("FrontDoorProfile"),
                   K("FrontDoorOriginGroup"))
        \cup Holds("HAS_ORIGIN", K("FrontDoorOriginGroup"), K("FrontDoorOrigin"))
        \cup PointsTo("ROUTES_TO", K("FrontDoorRoute"),
                      K("FrontDoorOriginGroup"))
        \cup Holds("ROUTES_TO", K("TrafficManagerProfile"),
                   K("TrafficManagerEndpoint"))
        \cup Holds("EXPOSES_API", K("APIManagementService"), K("APIMApi"))
        \cup {Rel("HAS_BACKEND", p[1].id, p[2].id) : p \in
                {q \in K("APIMApi") \X K("APIMBackend") :
                    \E s \in K("APIManagementService") :
                        s.id \in q[1].refs \cap q[2].refs}}

\* Mutation: only the origins of a front door are resolved.
OriginsOnly(ingress, compute) ==
    PointsTo("RESOLVES_TO", OfKind(ingress, {"FrontDoorOrigin"}), compute)

\* By host name, which is a ref here.
BuildOriginBackendEdges(ingress, compute) ==
    PointsTo("RESOLVES_TO",
             OfKind(ingress, {"FrontDoorOrigin", "APIMBackend"}), compute)

BuildNetworkEdges(nodes, topology) ==
    LET Vnets == OfKind(nodes, {"VirtualNetwork"})
        Subnets == OfKind(nodes, {"Subnet"})
    IN  Holds("CONTAINS", Vnets, Subnets)
        \cup PointsTo("PROTECTED_BY", Subnets,
                      OfKind(nodes, {"NetworkSecurityGroup"}))
        \cup {[Rel("HAS_SERVICE_ENDPOINT", p[1].id, p[1].id) EXCEPT
                   !.about = p[2].id] :
                 p \in {q \in Subnets \X OfKind(topology, {"ServiceEndpoint"}) :
                            q[1].id \in q[2].refs}}
        \cup {Rel("PEERED_WITH", p[1].id, p[2].id) : p \in
                {q \in Vnets \X Vnets : q[1] # q[2]
                    /\ \E c \in OfKind(topology, {"VNetPeering"}) :
                           c.open /\ {q[1].id, q[2].id} \subseteq c.refs}}

\* The resource of a private endpoint may have no node: the edge is kept.
BuildPrivateEndpointEdges(nodes) ==
    LET Endpoints == OfKind(nodes, {"PrivateEndpoint"})
    IN  PointsTo("DEPLOYED_IN", Endpoints, OfKind(nodes, {"Subnet"}))
        \cup UNION {{Rel("HAS_PRIVATE_ENDPOINT", p[2], p[1].id),
                     Rel("CONNECTS_TO", p[1].id, p[2])} :
                    p \in {q \in Endpoints \X Ids : q[2] \in q[1].refs
                                  /\ Named(q[2], ComputeKinds)}}

BuildFirewallEdges(nodes, topology) ==
    LET Rules == OfKind(topology, {"StorageAccount"})
    IN  {Rel("HAS_FIREWALL_RULE", f.id, "rule") : f \in Rules}
        \cup PointsTo("ACCESSIBLE_FROM", Rules, OfKind(nodes, {"Subnet"}))

\* A resource whose firewall lets everyone in is flagged, if it has a node.
FirewallExposed(nodes, topology) ==
    {IF \E f \in OfKind(topology, {"StorageAccount"}) : f.id = n.id /\ f.open
     THEN [n EXCEPT !.exposed = TRUE] ELSE n : n \in nodes}

\* Only the identity of a resource itself is tied to it; roles of principals
\* that are no managed identity are left out.
BuildIdentityEdges(identities, batch) ==
    {Rel("ASSIGNED_IDENTITY", p[2], p[1].id) :
        p \in {q \in identities \X Ids : q[2] \in q[1].refs}}
    \cup {[Rel("HAS_ROLE", t[1].id, t[3]) EXCEPT !.about = t[2].id] : t \in
            {u \in identities \X OfKind(batch, {"RoleAssignment"}) \X Ids :
                /\ {u[1].id, u[3]} \subseteq u[2].refs
                /\ ~Named(u[3], {"ManagedIdentity"})}}

BuildComputeSubnetEdges(resources, nodes) ==
    PointsTo("DEPLOYED_IN", OfKind(resources, {"VirtualMachine", "WebApp"}),
             OfKind(nodes, {"Subnet"}))

-----------------------------------------------------------------------------
(* Exposure.                                                               *)

\* What a breadth-first search from a set of ids visits.
Visited(edges, from) ==
    LET Grown(S) == S \cup {e.target : e \in {f \in edges : f.source \in S}}
        rings[n \in 0..Cardinality(edges)] ==
            IF n = 0 THEN from ELSE Grown(rings[n - 1])
    IN  rings[Cardinality(edges)]

AzureTravels ==
    {"ROUTES_TO", "HAS_ENDPOINT", "HAS_ROUTE", "HAS_ORIGIN_GROUP",
     "HAS_ORIGIN", "EXPOSES_API", "HAS_BACKEND", "RESOLVES_TO",
     "DEPLOYED_IN", "HAS_PRIVATE_ENDPOINT"}

AwsTravels == {"ROUTES_TO", "DISTRIBUTES_TO", "HAS_LISTENER", "FORWARDS_TO",
               "RESOLVES_TO", "DEPLOYED_IN", "HAS_BACKEND"}

Travelled(edges, types) == {e \in edges : e.type \in types}

\* From the internet alone: what is flagged already does not lead on.
DeriveInternetExposure(nodes, edges) ==
    LET reached == Visited(Travelled(edges, AzureTravels), {Internet})
    IN  {[n EXCEPT !.exposed = \/ @
                               \/ n.id \in reached
                               \/ n.kind = "NetworkSecurityGroup" /\ n.open] :
            n \in nodes}

\* build(); rules and roles that were not read are not in their batches.
Build(resources, ingress, topology, identities) ==
    LET compute == BuildComputeNodes(resources)
        entry == IngressNodes(ingress)
        network == NetworkNodes(resources, topology)
        who == IdentityNodes(identities)
        known == {InternetNode} \cup entry \cup compute \cup network
        edges == BuildIngressEdges(entry)
                 \cup BuildOriginBackendEdges(entry, compute)
                 \cup BuildNetworkEdges(network, topology)
                 \cup BuildPrivateEndpointEdges(network)
                 \cup BuildFirewallEdges(known, topology)
                 \cup BuildIdentityEdges(who, identities)
                 \cup BuildComputeSubnetEdges(resources, network)
    IN  [nodes |-> DeriveInternetExposure(
                       FirewallExposed(known, topology) \cup who, edges),
         edges |-> DeduplicateRelationships(edges)]

-----------------------------------------------------------------------------
(* AWS.                                                                    *)

\* Everything read has a node; nothing is flagged yet.
AwsIngressNodes(batch) == {Node(i, FALSE) : i \in OfKind(batch, AwsIngressKinds)}
AwsNetworkNodes(batch) == {Node(i, FALSE) : i \in OfKind(batch, AwsNetworkKinds)}
AwsIdentityNodes(batch) ==
    {Node(i, FALSE) : i \in OfKind(batch, AwsIdentityKinds)}

BuildAWSIngressEdges(nodes) ==
    LET K(kind) == OfKind(nodes, {kind})
        Shares(a, t) == \E r \in a.refs \cap t.refs : Named(r, {"VPC"})
    IN  {Rel("ROUTES_TO", Internet, n.id) :
            n \in K("CloudFrontDistribution") \cup K("APIGatewayV2Api")
                  \cup {m \in K("ALB") \cup K("APIGatewayRestApi") : m.open}}
        \cup PointsTo("PROTECTED_BY", K("CloudFrontDistribution"),
                      K("WAFWebACL"))
        \cup PointsTo("DISTRIBUTES_TO", K("CloudFrontDistribution"), K("ALB"))
        \cup Holds("HAS_LISTENER", K("ALB"), K("ALBListener"))
        \cup {Rel("PROTECTED_BY", p[1].id, p[2].id) :
                p \in K("ALB") \X K("RegionalWebACL")}
        \cup {Rel("FORWARDS_TO", p[1].id, p[2].id) : p \in
                {q \in K("ALBListener") \X K("ALBTargetGroup") :
                    \E a \in K("ALB") : a.id \in q[1].refs /\ Shares(a, q[2])}}

BuildAWSNetworkEdges(nodes) ==
    LET K(kind) == OfKind(nodes, {kind})
        Deployed == K("VPCEndpoint") \cup K("NATGateway")
    IN  Holds("CONTAINS", K("VPC"),
              K("AWSSubnet") \cup K("SecurityGroup") \cup K("NATGateway"))
        \cup {Rel("PEERED_WITH", p[1].id, p[2].id) : p \in
                {q \in K("VPC") \X K("VPC") : q[1] # q[2]
                    /\ \E c \in K("VPCPeering") :
                           {q[1].id, q[2].id} \subseteq c.refs}}
        \cup Holds("HAS_VPC_ENDPOINT", K("VPC"), K("VPCEndpoint"))
        \cup {Rel("CONNECTS_TO", e.id, "service") : e \in K("VPCEndpoint")}
        \cup PointsTo("DEPLOYED_IN", Deployed, K("AWSSubnet"))

BuildAWSIdentityEdges(who, network) ==
    LET K(kind) == OfKind(who, {kind})
        Workloads == K("EC2Instance") \cup K("LambdaFunction") \cup K("ECSService")
    IN  PointsTo("HAS_ROLE", K("IAMInstanceProfile"), K("IAMRole"))
        \cup PointsTo("ASSIGNED_IDENTITY", K("EC2Instance"),
                      K("IAMInstanceProfile"))
        \cup PointsTo("ASSUMES_ROLE", K("LambdaFunction"), K("IAMRole"))
        \cup PointsTo("DEPLOYED_IN", Workloads, OfKind(network, {"AWSSubnet"}))
        \cup PointsTo("PROTECTED_BY", Workloads,
                      OfKind(network, {"SecurityGroup"}))

\* Whatever is flagged here leads on.
DeriveAWSInternetExposure(nodes, edges) ==
    LET facing == {n.id : n \in {m \in nodes :
                      \/ m.exposed
                      \/ m.kind \in {"CloudFrontDistribution",
                                     "APIGatewayV2Api"}
                      \/ m.open /\ m.kind \in {"ALB", "APIGatewayRestApi",
                                               "AWSSubnet", "SecurityGroup"}}}
        reached == Visited(Travelled(edges, AwsTravels), facing)
    IN  {[n EXCEPT !.exposed = @ \/ n.id \in reached] : n \in nodes}

BuildAWS(ingress, topology, identities) ==
    LET entry == AwsIngressNodes(ingress)
        network == AwsNetworkNodes(topology)
        who == AwsIdentityNodes(identities)
        edges == BuildAWSIngressEdges(entry)
                 \cup BuildAWSNetworkEdges(network)
                 \cup BuildAWSIdentityEdges(who, network)
    IN  [nodes |-> DeriveAWSInternetExposure(
                       {InternetNode} \cup entry \cup network \cup who, edges),
         edges |-> DeduplicateRelationships(edges)]
=============================================================================
