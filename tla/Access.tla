------------------------------- MODULE Access -------------------------------
(***************************************************************************)
(* Who reaches what in a deployment: a viewer's request through the web    *)
(* ACL, the behaviours of the distribution, the VPC origin and the load    *)
(* balancer to the proxy, and the calls of the proxy, the agent and the    *)
(* provisioner through the endpoints of the VPC under the grants of their  *)
(* roles.  q, d, l and g below are requests: the ones the proxy or agent,  *)
(* the distribution, the listener and the ingress rule were written from.  *)
(***************************************************************************)
EXTENDS Stacks

(* A viewer's request: its path, scheme, whether it asks for the upgrade to *)
(* WebSocket, the managed rules that find something in it, and whether its  *)
(* address is beyond the limit of 100 requests in five minutes.             *)
Viewer(path, scheme, upgrade, finds) ==
    [path |-> path, scheme |-> scheme, upgrade |-> upgrade, finds |-> finds,
     flood |-> FALSE]

(* What a browser sends in a session: the page, also over plain HTTP, the   *)
(* login, an upload of more than 8 KB, and the handshake, in which a rule   *)
(* of the common set finds fault.                                           *)
SessionRequests ==
    {Viewer("/", "https", FALSE, {}), Viewer("/", "http", FALSE, {}),
     Viewer("/auth/login", "https", FALSE, {}),
     Viewer("/api/upload", "https", FALSE, {<<"Common", "SizeRestrictions_BODY">>}),
     Viewer("/ws/", "https", TRUE, {<<"Common", "NoUserAgent_HEADER">>})}

-----------------------------------------------------------------------------
(* The web ACL: the rules in the order of their priorities; the first one   *)
(* that decides ends the evaluation, and the default is to allow.           *)
CountedRules == {<<"Common", "SizeRestrictions_BODY">>}

Blocks(group, v) == \E f \in v.finds \ CountedRules : f[1] = group

WafRules(v) ==
    <<[hit |-> v.upgrade,            action |-> "allow"],
      [hit |-> Blocks("Common", v),  action |-> "block"],
      [hit |-> Blocks("SQLi", v),    action |-> "block"],
      [hit |-> v.flood,              action |-> "block"]>>

WafVerdict(v) ==
    LET hits == {k \in DOMAIN WafRules(v) : WafRules(v)[k].hit}
    IN  IF hits = {} THEN "allow"
        ELSE WafRules(v)[CHOOSE k \in hits : \A j \in hits : k <= j].action

(* The behaviours of the distribution: /ws/* and /api/* refuse plain HTTP,  *)
(* everything else sends it to HTTPS.                                       *)
ViewerPolicy(path) ==
    IF path \in {"/ws/", "/api/upload"} THEN "https-only" ELSE "redirect-to-https"

Served(v) ==
    /\ WafVerdict(v) = "allow"
    /\ v.scheme = "https" \/ ViewerPolicy(v.path) = "redirect-to-https"

-----------------------------------------------------------------------------
(* The hop from the distribution to the proxy. *)
OriginPort(d) == IF Setting[d].albOriginProtocol = "HTTPS" THEN 443 ELSE 80

(* The name the origin is asked by, and the certificate of the listener that *)
(* has to carry it: both come together, or the listener speaks plain HTTP.  *)
OriginName(d) ==
    IF Setting[d].albOriginProtocol = "HTTPS" THEN Setting[d].originDomainName ELSE {}

ListenerPort(l) == IF Setting[l].albOriginProtocol = "HTTPS" THEN 443 ELSE 80

ListenerCertificate(l) ==
    IF Setting[l].albOriginProtocol = "HTTPS" THEN Setting[l].originCertificateArn ELSE {}

(* Mutant: the rule is for port 80 whatever the protocol. *)
IngressPort80(g) == 80

IngressPort(g) == IF Setting[g].albOriginProtocol = "HTTPS" THEN 443 ELSE 80

TargetPort == 8080         \* alb-construct.ts

ContainerPort == 8080      \* proxy-construct.ts

HopOpen(d, l, g) ==
    /\ OriginPort(d) = ListenerPort(l) /\ ListenerPort(l) = IngressPort(g)
    /\ OriginName(d) # {} <=> ListenerCertificate(l) # {}
    /\ TargetPort = ContainerPort

-----------------------------------------------------------------------------
(* Out of the isolated subnets there is nothing but the interface endpoints *)
(* and the S3 gateway; the task group may reach the former by their group   *)
(* and the latter by its prefix list.                                       *)
InterfaceEndpoints ==
    {"ecr.api", "ecr.dkr", "logs", "bedrock-runtime", "cognito-idp",
     "bedrock-agentcore", "aoss", "aoss-data"}

GatewayEndpoints == {"s3"}

(* bedrock-arns.ts: a region prefix names an inference profile, which needs *)
(* itself and the bare model in every region it may send the call to.  What *)
(* has no known prefix is a bare model to it, geo "none".                   *)
KnownGeos ==
    [us     |-> {"us-east-1", "us-east-2", "us-west-2"},
     eu     |-> {"eu-west-1", "eu-west-3", "eu-central-1", "eu-north-1"},
     apac   |-> {"ap-northeast-1", "ap-northeast-2", "ap-south-1",
                 "ap-southeast-1", "ap-southeast-2"},
     global |-> {"us-east-1", "us-east-2", "us-west-2", "eu-west-1",
                 "eu-central-1", "ap-northeast-1"}]

ASSUME ModelIds ==
    \A q \in DOMAIN Setting :
        /\ Setting[q].bedrockModelId.geo \in DOMAIN KnownGeos \cup {"none"}
        /\ Setting[q].bedrockEmbedModelId.geo \in DOMAIN KnownGeos \cup {"none"}

Bare(id) == [id EXCEPT !.geo = "none"]

ModelArns(id) ==
    IF id.geo \in DOMAIN KnownGeos
    THEN {<<"inference-profile", id>>} \cup
         {<<"foundation-model", r, Bare(id)>> : r \in KnownGeos[id.geo]}
    ELSE {<<"foundation-model", "here", id>>}

Grants(by, actions, resources) ==
    {[by |-> by, action |-> a, on |-> r] : a \in actions, r \in resources}

(* The policies of the agent's execution role and the proxy's task role:    *)
(* data-stack.ts.  The collection's own policy names the same roles.        *)
AgentGrants(q) ==
    Grants("agent", {"InvokeModel", "InvokeModelWithResponseStream"},
           ModelArns(Setting[q].bedrockModelId)
             \cup ModelArns(Setting[q].bedrockEmbedModelId))
    \cup Grants("agent", {"APIAccessAll"}, {"collection"})
    \cup Grants("agent", {"Pull"}, {"agentImage"})

ProxyGrants(q) ==
    Grants("proxy", {"InvokeAgentRuntime"}, {<<"runtime", Setting[q].agentRuntimeName>>})
    \cup Grants("proxy", {"APIAccessAll"}, {"collection"})
    \cup Grants("proxy", {"InvokeModel"}, ModelArns(Setting[q].bedrockEmbedModelId))
    \cup Grants("proxy", {"GetObject", "PutObject", "DeleteObject"},
                {"uploads/*", "extracted/*"})
    \cup Grants("proxy", {"Encrypt", "Decrypt"}, {"uploadsKey"})

(* opensearch-construct.ts; the embeddings model as a bare model, whatever  *)
(* its prefix.                                                              *)
ControlPlaneActions ==
    {"CreateCollectionGroup", "UpdateCollectionGroup", "DeleteCollectionGroup",
     "BatchGetCollectionGroup", "ListCollectionGroups",
     "AddCollectionToCollectionGroup",
     "CreateCollection", "DeleteCollection", "BatchGetCollection", "ListCollections",
     "CreateSecurityPolicy", "UpdateSecurityPolicy", "GetSecurityPolicy",
     "DeleteSecurityPolicy", "ListSecurityPolicies",
     "CreateAccessPolicy", "UpdateAccessPolicy", "GetAccessPolicy",
     "DeleteAccessPolicy", "ListAccessPolicies"}

ProvisionerGrants(q) ==
    Grants("provisioner", ControlPlaneActions, {"aoss"})
    \cup Grants("provisioner", {"APIAccessAll"}, {"collection"})
    \cup Grants("provisioner", {"InvokeModel"},
                {<<"foundation-model", "here", Setting[q].bedrockEmbedModelId>>})
    \cup Grants("provisioner", {"PutObject"}, {"sops/*"})

DataAccessPrincipals == {"provisioner", "agent", "proxy"}

-----------------------------------------------------------------------------
(* What the programs call: the endpoint, the action and its resource.  A    *)
(* model call needs the profile and every ARN the call may be sent to.      *)
Call(by, via, action, on) == [by |-> by, via |-> via, action |-> action, on |-> on]

ModelCalls(by, action, id) ==
    {Call(by, "bedrock-runtime", action, on) : on \in
        IF id.geo = "none" THEN {<<"foundation-model", "here", id>>}
        ELSE {<<"inference-profile", id>>} \cup
             {<<"foundation-model", r, Bare(id)>> : r \in KnownGeos[id.geo]}}

ProxyCalls(q) ==
    {Call("proxy", "bedrock-agentcore", "InvokeAgentRuntime",
          <<"runtime", Setting[q].agentRuntimeName>>),
     Call("proxy", "s3", "PutObject", "uploads/*"),
     Call("proxy", "s3", "PutObject", "extracted/*"),
     Call("proxy", "s3", "GetObject", "extracted/*"),
     Call("proxy", "s3", "Encrypt", "uploadsKey"),
     Call("proxy", "aoss-data", "APIAccessAll", "collection")}
    \cup ModelCalls("proxy", "InvokeModel", Setting[q].bedrockEmbedModelId)

AgentCalls(q) ==
    {Call("agent", "ecr.api", "Pull", "agentImage"),
     Call("agent", "aoss-data", "APIAccessAll", "collection")}
    \cup ModelCalls("agent", "InvokeModelWithResponseStream", Setting[q].bedrockModelId)
    \cup ModelCalls("agent", "InvokeModel", Setting[q].bedrockEmbedModelId)

(* Of the control plane: what the ensure functions and the teardown call,   *)
(* and the action that putting a collection into a group takes.             *)
ControlPlaneUsed ==
    {"CreateCollectionGroup", "AddCollectionToCollectionGroup",
     "ListCollectionGroups", "DeleteCollectionGroup",
     "CreateCollection", "BatchGetCollection", "DeleteCollection",
     "CreateSecurityPolicy", "GetSecurityPolicy", "UpdateSecurityPolicy",
     "DeleteSecurityPolicy",
     "CreateAccessPolicy", "GetAccessPolicy", "UpdateAccessPolicy",
     "DeleteAccessPolicy"}

ProvisionerCalls(q) ==
    {Call("provisioner", "aoss", action, "aoss") : action \in ControlPlaneUsed}
    \cup {Call("provisioner", "aoss-data", "APIAccessAll", "collection"),
          Call("provisioner", "s3", "PutObject", "sops/*")}
    \cup ModelCalls("provisioner", "InvokeModel", Setting[q].bedrockEmbedModelId)

(* The login and the keys of the pool, and the pull of the proxy's image    *)
(* with its layers and logs, go without a grant of these roles.             *)
PlainCalls == {"cognito-idp", "ecr.api", "ecr.dkr", "s3", "logs"}

Permitted(c, grants) ==
    /\ c.via \in InterfaceEndpoints \cup GatewayEndpoints
    /\ [by |-> c.by, action |-> c.action, on |-> c.on] \in grants
    /\ c.on = "collection" => c.by \in DataAccessPrincipals
=============================================================================
