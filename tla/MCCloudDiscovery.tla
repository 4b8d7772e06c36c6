--------------------------- MODULE MCCloudDiscovery -------------------------
(* A small estate of Azure and AWS with a way in of each kind: a front door, *)
(* an API management, a traffic manager, open firewalls, a distribution.     *)
EXTENDS CloudDiscovery

Item(id, kind, refs) == [id |-> id, kind |-> kind, refs |-> refs, open |-> FALSE]
Opened(item) == [item EXCEPT !.open = TRUE]

Route == Item("route", "FrontDoorRoute", {"endpoint", "group"})
Origin == Item("origin", "FrontDoorOrigin", {"group", "app"})
Backend == Item("backend", "APIMBackend", {"apim", "job"})
Store == Item("store", "StorageAccount", {"subnet"})
Rules == Item("nsg", "NetworkSecurityGroup", {})
Balancer == Item("alb", "ALB", {"vpc"})

AzureItems ==
    {Item("door", "FrontDoorProfile", {}),
     Item("endpoint", "FrontDoorEndpoint", {"door"}),
     Route, Origin, Item("group", "FrontDoorOriginGroup", {"door"}),
     Item("app", "WebApp", {"subnet"}),
     Item("net", "VirtualNetwork", {}),
     Item("subnet", "Subnet", {"net", "nsg"}), Rules, Store,
     Item("private", "PrivateEndpoint", {"subnet", "store"}),
     Opened(Item("apim", "APIManagementService", {})),
     Item("api", "APIMApi", {"apim"}), Backend,
     Item("job", "ContainerApp", {}),
     Item("traffic", "TrafficManagerProfile", {}),
     Item("target", "TrafficManagerEndpoint", {"traffic"}),
     Item("identity", "ManagedIdentity", {"app"}),
     Item("reader", "RoleAssignment", {"identity", "store"}),
     Item("writer", "RoleAssignment", {"identity", "store"})}

AwsItems ==
    {Item("cdn", "CloudFrontDistribution", {"alb"}), Balancer,
     Item("listener", "ALBListener", {"alb"}),
     Item("group of targets", "ALBTargetGroup", {"vpc"}),
     Item("vpc", "VPC", {}), Item("aws subnet", "AWSSubnet", {"vpc"}),
     Opened(Item("sg", "SecurityGroup", {"vpc"})),
     Item("role", "IAMRole", {}),
     Item("profile", "IAMInstanceProfile", {"role"}),
     Item("vm", "EC2Instance", {"aws subnet", "sg", "profile"})}

SmallEstate == AzureItems \cup AwsItems
Changing == {Origin, Opened(Rules)}
AllItems == SmallEstate \cup Changing
BothClouds == {"azure", "aws"}
Listeners == {"ALBListener"}
=============================================================================
