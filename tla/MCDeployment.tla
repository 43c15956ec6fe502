---------------------------- MODULE MCDeployment ----------------------------
(***************************************************************************)
(* Instance of Deployment for TLC: the context object of cdk.json and four *)
(* requests on top of it.  "base" takes it as it is, "next" has new images *)
(* and, with the flat keys of the command line, another chat model, five   *)
(* tasks and TLS to the load balancer, "arm" only another processor, and   *)
(* "half" asks for TLS without a certificate, which is refused.            *)
(***************************************************************************)
EXTENDS DeploymentInv

T(v) == [t |-> "text", v |-> v]
N(n) == [t |-> "number", v |-> n]
Null == [t |-> "null"]

Plain0 == [k \in FlatKeys |-> Undefined]

CdkJson == [Plain0 EXCEPT
    !["bedrockModelId"] = T([geo |-> "us", base |-> "claude-sonnet"]),
    !["bedrockEmbedModelId"] = T([geo |-> "none", base |-> "titan-embed"]),
    !["openSearchIndex"] = T("agent-knowledge"),
    !["ragTopK"] = N(5), !["cpuArchitecture"] = T("X86_64"),
    !["desiredCount"] = N(2), !["deregistrationDelaySeconds"] = N(300),
    !["priceClass"] = T("PriceClass_100"),
    !["domainName"] = Null, !["certificateArn"] = Null,
    !["albOriginProtocol"] = T("http"),
    !["containerInsights"] = [t |-> "boolean", v |-> FALSE],
    !["cloudFrontAccessLogs"] = [t |-> "boolean", v |-> FALSE],
    !["instanceName"] = T("demo")]

Tls == [Plain0 EXCEPT
    !["bedrockModelId"] = T([geo |-> "eu", base |-> "claude-sonnet"]),
    !["albOriginProtocol"] = T("HTTPS"), !["desiredCount"] = N(5),
    !["originDomainName"] = T("origin.example.com"),
    !["originCertificateArn"] = [t |-> "padded", v |-> "arn:cert"]]

Arm == [Plain0 EXCEPT !["cpuArchitecture"] = T("ARM64"),
                      !["availabilityZones"] = [t |-> "csv", v |-> <<"a", "b">>]]

Half == [Plain0 EXCEPT !["albOriginProtocol"] = T("HTTPS")]

Contexts ==
    [base |-> [object |-> CdkJson, flat |-> Plain0],
     next |-> [object |-> CdkJson, flat |-> Tls],
     arm  |-> [object |-> CdkJson, flat |-> Arm],
     half |-> [object |-> CdkJson, flat |-> Half]]

Directories ==
    [base |-> [agent |-> "v1", proxy |-> "v1"], next |-> [agent |-> "v1", proxy |-> "v2"],
     arm  |-> [agent |-> "v1", proxy |-> "v1"], half |-> [agent |-> "v1", proxy |-> "v1"]]

(* The toolkit takes the stacks in reach in the order of their names. *)
ByName == [Agent |-> 1, App |-> 2, Build |-> 3, Data |-> 4, Network |-> 5, Waf |-> 6]

Here == T("us-east-1")
=============================================================================
