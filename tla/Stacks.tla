------------------------------- MODULE Stacks -------------------------------
(***************************************************************************)
(* What bin/app.ts and the constructs of lib/ ask CloudFormation to make:  *)
(* six stacks, the resources of each, what a resource's template entry     *)
(* refers to, and which settings it is written from.                       *)
(*                                                                         *)
(* A resource stands for the template entries that are made together, its  *)
(* log groups and service roles included.  A request is one call of the    *)
(* command line: the CDK context and the directories of the two images.    *)
(***************************************************************************)
EXTENDS Config

CONSTANTS
    Requests,      \* the names of the requests
    Context,       \* [request -> [object : context.agent, flat : agent.<key>]]
    Source,        \* [request -> [Image -> the content of its directory]]
    Sources        \* the contents there are

Stack == {"Waf", "Network", "Build", "Data", "Agent", "App"}

Image == {"agent", "proxy"}

(* bin/app.ts reads the context once and hands the same settings to all. *)
Valid(q) == Accepts(Merged(Context[q]))
Setting == [q \in {r \in Requests : Valid(r)} |-> Resolved(Merged(Context[q]))]

(* What Config calls a number or a numeral has an integer for its value.    *)
ASSUME IntegerValues ==
    \A q \in Requests, k \in FlatKeys :
        \A raw \in {Context[q].object[k], Context[q].flat[k]} :
            raw.t \in {"number", "numeral"} => raw.v \in Int

(* The names of the stacks come from the instance's name, and the account   *)
(* and region are those of the credentials: other names are another        *)
(* deployment.                                                              *)
ASSUME OneDeployment ==
    /\ \A q \in Requests, i \in Image : Source[q][i] \in Sources
    /\ \A p, q \in DOMAIN Setting :
          /\ Setting[p].instanceName = Setting[q].instanceName
          /\ Setting[p].region = Setting[q].region

-----------------------------------------------------------------------------
(* The constructs: every resource with the resources its entry refers to or *)
(* explicitly depends on.                                                   *)

(* Two parts of one map from resources to what they need. *)
Both(f, g) ==
    [r \in DOMAIN f \cup DOMAIN g |-> IF r \in DOMAIN f THEN f[r] ELSE g[r]]

WafNeeds == [webAcl |-> {}]

VpcNeeds ==
    [vpc       |-> {},
     igw       |-> {"vpc"},
     groups    |-> {"vpc"},
     s3Egress  |-> {"groups"},
     endpoints |-> {"vpc", "groups"}]

(* One repository, project and trigger for each image. *)
Repo    == [agent |-> "agentRepo",    proxy |-> "proxyRepo"]
Project == [agent |-> "agentProject", proxy |-> "proxyProject"]
Trigger == [agent |-> "agentTrigger", proxy |-> "proxyTrigger"]

ImageNeeds(i) ==
    [r \in {Repo[i], Project[i], Trigger[i]} |->
        IF r = Project[i] THEN {Repo[i]} ELSE IF r = Trigger[i] THEN {Project[i]} ELSE {}]

BuildNeeds == Both(ImageNeeds("agent"), ImageNeeds("proxy"))

(* The roles are made without their policies: the index names the roles as  *)
(* its principals, and the policies name the collection of the index.       *)
RoleNeeds ==
    [agentRole   |-> {},
     proxyRole   |-> {},
     agentGrants |-> {"agentRole", "index", "agentRepo"},
     proxyGrants |-> {"proxyRole", "index", "bucket"}]

OpenSearchNeeds ==
    [provisioner |-> {"bucket", "vpc", "groups", "endpoints"},
     index       |-> {"provisioner", "endpoints", "agentRole", "proxyRole"}]

DataNeeds == Both([bucket |-> {}], Both(RoleNeeds, OpenSearchNeeds))

AgentCoreNeeds ==
    [runtime      |-> {"agentRepo", "agentRole", "vpc", "groups", "index"},
     liveEndpoint |-> {"runtime"},
     policy       |-> {"runtime", "vpc"}]

AlbNeeds == [alb |-> {"vpc", "groups"}, listener |-> {"alb"}]

AuthNeeds == [auth |-> {}, demoUser |-> {"auth"}]

(* A service that registers with a target group waits for its listener. *)
ProxyNeeds ==
    [cluster |-> {"vpc"},
     taskDef |-> {"proxyRole", "proxyRepo", "runtime", "auth", "bucket", "index"},
     service |-> {"cluster", "taskDef", "groups", "listener"}]

CloudFrontNeeds == [distribution |-> {"alb", "webAcl"}]

(* Mutant: the lookup does not wait for the distribution. *)
IngressNeedsAtOnce == [lookup |-> {"vpc"}, ingress |-> {"lookup", "groups"}]

(* The rule that lets the VPC origin in stands by itself: as a part of the  *)
(* group it would need the lookup, the distribution and the load balancer   *)
(* that the group comes before.                                             *)
IngressNeeds == [lookup |-> {"distribution", "vpc"}, ingress |-> {"lookup", "groups"}]

AppNeeds == Both(Both(AlbNeeds, AuthNeeds),
                 Both(ProxyNeeds, Both(CloudFrontNeeds, IngressNeeds)))

Needs == Both(Both(WafNeeds, VpcNeeds),
              Both(BuildNeeds, Both(DataNeeds, Both(AgentCoreNeeds, AppNeeds))))

Resource == DOMAIN Needs

Members ==
    [Waf   |-> DOMAIN WafNeeds,  Network |-> DOMAIN VpcNeeds,
     Build |-> DOMAIN BuildNeeds, Data   |-> DOMAIN DataNeeds,
     Agent |-> DOMAIN AgentCoreNeeds, App |-> DOMAIN AppNeeds]

StackOf == [r \in Resource |-> CHOOSE s \in Stack : r \in Members[s]]

-----------------------------------------------------------------------------
(* The order of the stacks: addDependency in bin/app.ts, and the outputs of *)
(* other stacks that a stack refers to.                                     *)
Explicit ==
    [Waf |-> {}, Network |-> {}, Build |-> {},
     Data  |-> {"Network", "Build"},
     Agent |-> {"Data", "Build"},
     App   |-> {"Waf", "Agent", "Data", "Build"}]

Imports == [s \in Stack |->
    {StackOf[n] : n \in UNION {Needs[r] : r \in Members[s]}} \ {s}]

StackDeps == [s \in Stack |-> Explicit[s] \cup Imports[s]]

-----------------------------------------------------------------------------
(* Mutant: the setting's own word for the processor is handed to Docker. *)
PlatformVerbatim(i, q) == IF i = "agent" THEN "arm64" ELSE Setting[q].cpuArchitecture

(* The platform an image is built for: build-stack.ts. *)
Platform(i, q) ==
    IF i = "agent" \/ Setting[q].cpuArchitecture = "ARM64" THEN "arm64" ELSE "amd64"

(* resolvePriceClass: a name it does not know is the cheapest class. *)
PriceClass(q) ==
    IF Setting[q].priceClass \in {"PriceClass_200", "PriceClass_All"}
    THEN Setting[q].priceClass ELSE "PriceClass_100"

(* Do two requests disagree about one of these settings? *)
Disagree(keys, p, q) == \E k \in keys : Setting[p][k] # Setting[q][k]

(* Mutant: the trigger's properties do not hold the tag. *)
ImageDiffersUntagged(i, r, p, q) ==
    r = Project[i] /\ (Source[p][i] # Source[q][i] \/ Platform(i, p) # Platform(i, q))

(* The entries of one image: the tag is the hash of its directory, so the   *)
(* trigger runs again when the directory changes, and only then.            *)
ImageDiffers(i, r, p, q) ==
    \/ r = Project[i] /\ (Source[p][i] # Source[q][i] \/ Platform(i, p) # Platform(i, q))
    \/ r = Trigger[i] /\ Source[p][i] # Source[q][i]

DataDiffers(r, p, q) ==
    \/ r = "provisioner" /\ Disagree({"collectionName", "openSearchIndex",
                                      "bedrockEmbedModelId"}, p, q)
    \/ r = "index"       /\ Disagree({"collectionName", "openSearchIndex"}, p, q)
    \/ r = "agentGrants" /\ Disagree({"bedrockModelId", "bedrockEmbedModelId"}, p, q)
    \/ r = "proxyGrants" /\ Disagree({"agentRuntimeName", "bedrockEmbedModelId"}, p, q)

RuntimeDiffers(p, q) ==
    \/ Source[p]["agent"] # Source[q]["agent"]
    \/ Disagree({"agentRuntimeName", "bedrockModelId", "bedrockEmbedModelId",
                 "openSearchIndex", "ragTopK", "openSearchTimeout"}, p, q)

TaskDiffers(p, q) ==
    \/ Source[p]["proxy"] # Source[q]["proxy"]
    \/ Disagree({"cpuArchitecture", "agentRuntimeName", "openSearchIndex",
                 "bedrockEmbedModelId"}, p, q)

DistributionDiffers(p, q) ==
    \/ PriceClass(p) # PriceClass(q)
    \/ Disagree({"albOriginProtocol", "originDomainName", "domainName",
                 "certificateArn", "cloudFrontAccessLogs"}, p, q)

AppDiffers(r, p, q) ==
    \/ r = "alb"      /\ Disagree({"deregistrationDelaySeconds"}, p, q)
    \/ r = "listener" /\ Disagree({"albOriginProtocol", "originCertificateArn"}, p, q)
    \/ r = "cluster"  /\ Disagree({"containerInsights"}, p, q)
    \/ r = "taskDef"  /\ TaskDiffers(p, q)
    \/ r = "service"  /\ (TaskDiffers(p, q) \/ Disagree({"desiredCount"}, p, q))
    \/ r = "distribution" /\ DistributionDiffers(p, q)
    \/ r = "ingress"  /\ Disagree({"albOriginProtocol"}, p, q)

(* Is resource r of request q written otherwise than that of request p? *)
Differs(r, p, q) ==
    \/ r = "vpc" /\ Disagree({"availabilityZones"}, p, q)
    \/ \E i \in Image : ImageDiffers(i, r, p, q)
    \/ DataDiffers(r, p, q)
    \/ r = "runtime" /\ RuntimeDiffers(p, q)
    \/ r = "policy"  /\ Disagree({"agentRuntimeName"}, p, q)
    \/ AppDiffers(r, p, q)
=============================================================================
