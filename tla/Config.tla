------------------------------- MODULE Config -------------------------------
(***************************************************************************)
(* lib/config.ts: how the CDK context becomes the configuration of a       *)
(* deployment, or an error before anything is deployed.                    *)
(*                                                                         *)
(* A context value is a record whose field t says what JavaScript finds:   *)
(* "undefined", "null", "boolean", "number" (an integer), "fraction" (any  *)
(* other number), "text" (a string that is not blank), "padded" (the same  *)
(* with white space around it, v the trimmed string), "numeral" (a string  *)
(* that Number() reads as an integer), "blank", "list" (an array of        *)
(* strings) and "csv" (a string with commas, v its trimmed parts).  The    *)
(* patterns of the names are the sets of the names they accept; a model id *)
(* is the record of its region prefix and its base name, see Access.  An   *)
(* optional result, a string or null in the code, is a set with at most    *)
(* one element.                                                            *)
(***************************************************************************)
EXTENDS Integers, Sequences, FiniteSets

CONSTANTS
    Regions,         \* the strings AWS_REGION_PATTERN accepts
    InstanceNames,   \* the strings INSTANCE_NAME_PATTERN accepts
    RuntimeNames,    \* the strings AGENT_RUNTIME_NAME_PATTERN accepts
    EnvRegion        \* CDK_DEFAULT_REGION, as a context value

Undefined == [t |-> "undefined"]

FlatKeys ==
    {"region", "bedrockModelId", "bedrockEmbedModelId", "openSearchIndex",
     "ragTopK", "openSearchTimeout", "cpuArchitecture", "desiredCount",
     "deregistrationDelaySeconds", "priceClass", "domainName",
     "certificateArn", "albOriginProtocol", "originDomainName",
     "originCertificateArn", "containerInsights", "cloudFrontAccessLogs",
     "availabilityZones", "instanceName", "agentRuntimeName"}

(* AGENT_CONFIG_DEFAULTS. *)
Defaults ==
    [bedrockModelId |-> [geo |-> "us", base |-> "claude-sonnet"],
     bedrockEmbedModelId |-> [geo |-> "none", base |-> "titan-embed"],
     openSearchIndex |-> "agent-knowledge", ragTopK |-> 5,
     openSearchTimeout |-> 30, cpuArchitecture |-> "X86_64",
     desiredCount |-> 2, deregistrationDelaySeconds |-> 300,
     priceClass |-> "PriceClass_100", containerInsights |-> FALSE,
     cloudFrontAccessLogs |-> FALSE, albOriginProtocol |-> "HTTP",
     instanceName |-> "demo", availabilityZones |-> <<>>]

-----------------------------------------------------------------------------
(* optionalString, toInteger, toBoolean.  A numeral is a string too, but   *)
(* no rule that takes strings accepts one; the words true and false stand   *)
(* for all their capitalisations.                                           *)
OptionalString(raw) == IF raw.t \in {"text", "padded"} THEN {raw.v} ELSE {}

ToInteger(raw) == IF raw.t \in {"number", "numeral"} THEN {raw.v} ELSE {}

ToBoolean(raw, fallback) ==
    IF raw.t = "boolean" THEN raw.v
    ELSE IF "true" \in OptionalString(raw) THEN TRUE
    ELSE IF "false" \in OptionalString(raw) THEN FALSE
    ELSE fallback

(* x ?? d, for an optional x. *)
OrElse(x, d) == IF x = {} THEN d ELSE CHOOSE v \in x : TRUE

(* Mutant: the object of cdk.json wins. *)
MergedTheOtherWay(context) ==
    [k \in FlatKeys |-> IF context.object[k].t = "undefined"
                        THEN context.flat[k] ELSE context.object[k]]

(* The flat keys agent.<key> of the command line, on top of the object.     *)
Merged(context) ==
    [k \in FlatKeys |-> IF context.flat[k].t = "undefined"
                        THEN context.object[k] ELSE context.flat[k]]

-----------------------------------------------------------------------------
(* The rules of resolveConfig: each is one throw. *)
Region(raw) == IF OptionalString(raw["region"]) # {}
               THEN OptionalString(raw["region"]) ELSE OptionalString(EnvRegion)

RegionOK(raw) == Region(raw) \subseteq Regions

CpuArchitecture(raw) ==
    IF raw["cpuArchitecture"].t \in {"undefined", "null"}
    THEN [t |-> "text", v |-> Defaults.cpuArchitecture]
    ELSE raw["cpuArchitecture"]

(* The value is compared as it is, not trimmed. *)
CpuOK(raw) ==
    /\ CpuArchitecture(raw).t = "text"
    /\ CpuArchitecture(raw).v \in {"X86_64", "ARM64"}

(* An integer key is defaulted only when it is undefined: null is an error. *)
IntOf(raw, k) == IF raw[k].t = "undefined" THEN {Defaults[k]} ELSE ToInteger(raw[k])

IntegersOK(raw) ==
    /\ \E n \in IntOf(raw, "desiredCount") : n >= 2
    /\ \E n \in IntOf(raw, "ragTopK") : n \in 1..5
    /\ \E n \in IntOf(raw, "openSearchTimeout") : n \in 1..120
    /\ \E n \in IntOf(raw, "deregistrationDelaySeconds") : n >= 0

NonEmpty(zones) == SelectSeq(zones, LAMBDA z : z # "")

Zones(raw) ==
    IF raw["availabilityZones"].t \in {"list", "csv"}
    THEN NonEmpty(raw["availabilityZones"].v)
    ELSE IF OptionalString(raw["availabilityZones"]) # {}
    THEN <<raw["availabilityZones"].v>>
    ELSE Defaults.availabilityZones

ZonesOK(raw) == Len(Zones(raw)) # 1

(* deriveCollectionName and deriveAgentRuntimeName keep an accepted name    *)
(* within the limits of the services (18 + 10 and 18 + 26 characters), so   *)
(* only an explicit runtime name can be refused here.                       *)
InstanceName(raw) == OrElse(OptionalString(raw["instanceName"]), Defaults.instanceName)

CollectionName(name) == <<"agent-rag", name>>

RuntimeName(raw) ==
    OrElse(OptionalString(raw["agentRuntimeName"]),
           <<"private_realtime_ai_agent", InstanceName(raw)>>)

NamesOK(raw) ==
    /\ InstanceName(raw) \in InstanceNames
    /\ OptionalString(raw["agentRuntimeName"]) \subseteq RuntimeNames

DomainOK(raw) ==
    (OptionalString(raw["domainName"]) = {}) <=> (OptionalString(raw["certificateArn"]) = {})

UpperCase(given) ==
    IF given \in {"http", "HTTP"} THEN "HTTP"
    ELSE IF given \in {"https", "HTTPS"} THEN "HTTPS"
    ELSE given

OriginProtocol(raw) ==
    UpperCase(OrElse(OptionalString(raw["albOriginProtocol"]), Defaults.albOriginProtocol))

OriginOK(raw) ==
    LET extras == {OptionalString(raw["originDomainName"]),
                   OptionalString(raw["originCertificateArn"])}
    IN  \/ OriginProtocol(raw) = "HTTP"  /\ extras = {{}}
        \/ OriginProtocol(raw) = "HTTPS" /\ {} \notin extras

Accepts(raw) ==
    /\ RegionOK(raw) /\ CpuOK(raw) /\ IntegersOK(raw) /\ ZonesOK(raw)
    /\ NamesOK(raw) /\ DomainOK(raw) /\ OriginOK(raw)

-----------------------------------------------------------------------------
Text(raw, k) == OrElse(OptionalString(raw[k]), Defaults[k])
Integer(raw, k) == OrElse(IntOf(raw, k), Defaults[k])

Resolved(raw) ==
    [region               |-> Region(raw),
     bedrockModelId       |-> Text(raw, "bedrockModelId"),
     bedrockEmbedModelId  |-> Text(raw, "bedrockEmbedModelId"),
     openSearchIndex      |-> Text(raw, "openSearchIndex"),
     ragTopK              |-> Integer(raw, "ragTopK"),
     openSearchTimeout    |-> Integer(raw, "openSearchTimeout"),
     cpuArchitecture      |-> CpuArchitecture(raw).v,
     desiredCount         |-> Integer(raw, "desiredCount"),
     deregistrationDelaySeconds |-> Integer(raw, "deregistrationDelaySeconds"),
     priceClass           |-> Text(raw, "priceClass"),
     domainName           |-> OptionalString(raw["domainName"]),
     certificateArn       |-> OptionalString(raw["certificateArn"]),
     albOriginProtocol    |-> OriginProtocol(raw),
     originDomainName     |-> OptionalString(raw["originDomainName"]),
     originCertificateArn |-> OptionalString(raw["originCertificateArn"]),
     containerInsights    |-> ToBoolean(raw["containerInsights"], Defaults.containerInsights),
     cloudFrontAccessLogs |-> ToBoolean(raw["cloudFrontAccessLogs"],
                                        Defaults.cloudFrontAccessLogs),
     availabilityZones    |-> Zones(raw),
     instanceName         |-> InstanceName(raw),
     collectionName       |-> CollectionName(InstanceName(raw)),
     agentRuntimeName     |-> RuntimeName(raw)]
=============================================================================
