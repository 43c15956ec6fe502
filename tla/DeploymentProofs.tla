-------------------------- MODULE DeploymentProofs --------------------------
(***************************************************************************)
(* Proofs about Deployment, for every set of requests, every bound and     *)
(* every way the builds may fail: its types, that whatever stands stands   *)
(* on what it needs, that an image that is named can be pulled, with the   *)
(* step simulation that makes Deployment implement ImageContract, that the *)
(* demo user can log in, that half of the tasks answer through every       *)
(* update, that a command that says it deployed has deployed what was      *)
(* asked, and that requests and calls get where they are meant to.         *)
(***************************************************************************)
EXTENDS DeploymentInv, TLAPS

-----------------------------------------------------------------------------
(* The resources of each stack. *)

LEMMA BothAt ==
    ASSUME NEW f, NEW g
    PROVE  /\ DOMAIN Both(f, g) = DOMAIN f \cup DOMAIN g
           /\ \A r \in DOMAIN f : Both(f, g)[r] = f[r]
           /\ \A r \in DOMAIN g \ DOMAIN f : Both(f, g)[r] = g[r]
  BY DEF Both

LEMMA VpcMembers ==
    DOMAIN VpcNeeds = {"vpc", "igw", "groups", "s3Egress", "endpoints"}
  BY DEF VpcNeeds

LEMMA AgentCoreMembers ==
    DOMAIN AgentCoreNeeds = {"runtime", "liveEndpoint", "policy"}
  BY DEF AgentCoreNeeds

LEMMA BuildMembers ==
    /\ DOMAIN BuildNeeds = {"agentRepo", "agentProject", "agentTrigger",
                            "proxyRepo", "proxyProject", "proxyTrigger"}
    /\ BuildNeeds["agentTrigger"] = {"agentProject"}
    /\ BuildNeeds["proxyTrigger"] = {"proxyProject"}
    /\ BuildNeeds["agentProject"] = {"agentRepo"}
    /\ BuildNeeds["proxyProject"] = {"proxyRepo"}
<1>1. DOMAIN ImageNeeds("agent") = {"agentRepo", "agentProject", "agentTrigger"}
  BY DEF ImageNeeds, Repo, Project, Trigger
<1>2. DOMAIN ImageNeeds("proxy") = {"proxyRepo", "proxyProject", "proxyTrigger"}
  BY DEF ImageNeeds, Repo, Project, Trigger
<1> QED
  BY <1>1, <1>2 DEF BuildNeeds, Both, ImageNeeds, Repo, Project, Trigger

LEMMA DataMembers ==
    /\ DOMAIN DataNeeds = {"bucket", "agentRole", "proxyRole", "agentGrants",
                           "proxyGrants", "provisioner", "index"}
    /\ DataNeeds["index"] = {"provisioner", "endpoints", "agentRole", "proxyRole"}
    /\ DataNeeds["agentGrants"] = {"agentRole", "index", "agentRepo"}
<1>1. DOMAIN Both(RoleNeeds, OpenSearchNeeds) =
        {"agentRole", "proxyRole", "agentGrants", "proxyGrants", "provisioner", "index"}
  BY DEF Both, RoleNeeds, OpenSearchNeeds
<1>2. DOMAIN DataNeeds = {"bucket", "agentRole", "proxyRole", "agentGrants",
                          "proxyGrants", "provisioner", "index"}
  BY <1>1 DEF DataNeeds, Both
<1> QED
  BY <1>2 DEF DataNeeds, Both, RoleNeeds, OpenSearchNeeds

LEMMA AppMembers ==
    /\ DOMAIN AppNeeds = {"alb", "listener", "auth", "demoUser", "cluster", "taskDef",
                          "service", "distribution", "lookup", "ingress"}
    /\ AppNeeds["alb"] = {"vpc", "groups"}
    /\ AppNeeds["demoUser"] = {"auth"}
    /\ AppNeeds["taskDef"] = {"proxyRole", "proxyRepo", "runtime", "auth", "bucket", "index"}
    /\ AppNeeds["service"] = {"cluster", "taskDef", "groups", "listener"}
    /\ AppNeeds["distribution"] = {"alb", "webAcl"}
    /\ AppNeeds["lookup"] = {"distribution", "vpc"}
    /\ AppNeeds["ingress"] = {"lookup", "groups"}
<1> DEFINE F == Both(AlbNeeds, AuthNeeds)
           G == Both(CloudFrontNeeds, IngressNeeds)
           H == Both(ProxyNeeds, G)
<1>1. /\ DOMAIN F = {"alb", "listener", "auth", "demoUser"}
      /\ F["alb"] = {"vpc", "groups"} /\ F["demoUser"] = {"auth"}
  BY DEF Both, AlbNeeds, AuthNeeds
<1>2. /\ DOMAIN G = {"distribution", "lookup", "ingress"}
      /\ G["distribution"] = {"alb", "webAcl"}
      /\ G["lookup"] = {"distribution", "vpc"} /\ G["ingress"] = {"lookup", "groups"}
  BY DEF Both, CloudFrontNeeds, IngressNeeds
<1>3. DOMAIN ProxyNeeds = {"cluster", "taskDef", "service"}
  BY DEF ProxyNeeds
<1>4. /\ DOMAIN H = DOMAIN ProxyNeeds \cup DOMAIN G
      /\ \A r \in DOMAIN ProxyNeeds : H[r] = ProxyNeeds[r]
      /\ \A r \in DOMAIN G \ DOMAIN ProxyNeeds : H[r] = G[r]
  BY BothAt
<1>5. /\ DOMAIN AppNeeds = DOMAIN F \cup DOMAIN H
      /\ \A r \in DOMAIN F : AppNeeds[r] = F[r]
      /\ \A r \in DOMAIN H \ DOMAIN F : AppNeeds[r] = H[r]
  BY BothAt DEF AppNeeds
<1> HIDE DEF F, G, H
<1>6. DOMAIN H = {"cluster", "taskDef", "service", "distribution", "lookup", "ingress"}
  BY <1>2, <1>3, <1>4
<1>7. /\ AppNeeds["taskDef"] = ProxyNeeds["taskDef"]
      /\ AppNeeds["service"] = ProxyNeeds["service"]
  BY <1>1, <1>3, <1>4, <1>5, <1>6
<1>8. /\ AppNeeds["distribution"] = G["distribution"]
      /\ AppNeeds["lookup"] = G["lookup"] /\ AppNeeds["ingress"] = G["ingress"]
  BY <1>1, <1>2, <1>3, <1>4, <1>5, <1>6
<1>9. /\ ProxyNeeds["taskDef"] = {"proxyRole", "proxyRepo", "runtime", "auth", "bucket",
                                  "index"}
      /\ ProxyNeeds["service"] = {"cluster", "taskDef", "groups", "listener"}
  BY DEF ProxyNeeds
<1> QED
  BY <1>1, <1>2, <1>5, <1>6, <1>7, <1>8, <1>9

(* No resource is in two stacks, and what a part of Needs says of its       *)
(* resources Needs says too.                                                *)
LEMMA NeedsAt ==
    /\ \A r \in DOMAIN VpcNeeds : Needs[r] = VpcNeeds[r]
    /\ \A r \in DOMAIN BuildNeeds : Needs[r] = BuildNeeds[r]
    /\ \A r \in DOMAIN DataNeeds : Needs[r] = DataNeeds[r]
    /\ \A r \in DOMAIN AgentCoreNeeds : Needs[r] = AgentCoreNeeds[r]
    /\ \A r \in DOMAIN AppNeeds : Needs[r] = AppNeeds[r]
    /\ Resource = DOMAIN WafNeeds \cup DOMAIN VpcNeeds \cup DOMAIN BuildNeeds
                    \cup DOMAIN DataNeeds \cup DOMAIN AgentCoreNeeds \cup DOMAIN AppNeeds
<1> DEFINE F == Both(WafNeeds, VpcNeeds)
           G == Both(AgentCoreNeeds, AppNeeds)
           H == Both(DataNeeds, G)
           K == Both(BuildNeeds, H)
<1>1. /\ DOMAIN F = DOMAIN WafNeeds \cup DOMAIN VpcNeeds
      /\ \A r \in DOMAIN VpcNeeds \ DOMAIN WafNeeds : F[r] = VpcNeeds[r]
  BY BothAt
<1>2. /\ DOMAIN G = DOMAIN AgentCoreNeeds \cup DOMAIN AppNeeds
      /\ \A r \in DOMAIN AgentCoreNeeds : G[r] = AgentCoreNeeds[r]
      /\ \A r \in DOMAIN AppNeeds \ DOMAIN AgentCoreNeeds : G[r] = AppNeeds[r]
  BY BothAt
<1>3. /\ DOMAIN H = DOMAIN DataNeeds \cup DOMAIN G
      /\ \A r \in DOMAIN DataNeeds : H[r] = DataNeeds[r]
      /\ \A r \in DOMAIN G \ DOMAIN DataNeeds : H[r] = G[r]
  BY BothAt
<1>4. /\ DOMAIN K = DOMAIN BuildNeeds \cup DOMAIN H
      /\ \A r \in DOMAIN BuildNeeds : K[r] = BuildNeeds[r]
      /\ \A r \in DOMAIN H \ DOMAIN BuildNeeds : K[r] = H[r]
  BY BothAt
<1>5. /\ Resource = DOMAIN F \cup DOMAIN K
      /\ \A r \in DOMAIN F : Needs[r] = F[r]
      /\ \A r \in DOMAIN K \ DOMAIN F : Needs[r] = K[r]
  BY BothAt DEF Needs, Resource
<1>6. DOMAIN WafNeeds = {"webAcl"}
  BY DEF WafNeeds
<1> HIDE DEF F, G, H, K
<1>7. /\ Resource = DOMAIN WafNeeds \cup DOMAIN VpcNeeds \cup DOMAIN BuildNeeds
                    \cup DOMAIN DataNeeds \cup DOMAIN AgentCoreNeeds \cup DOMAIN AppNeeds
  BY <1>1, <1>2, <1>3, <1>4, <1>5
<1>8. \A r \in DOMAIN VpcNeeds : Needs[r] = VpcNeeds[r]
  BY <1>1, <1>5, <1>6, VpcMembers
<1>9. \A r \in DOMAIN BuildNeeds : Needs[r] = BuildNeeds[r]
  BY <1>1, <1>4, <1>5, <1>6, VpcMembers, BuildMembers
<1>10. \A r \in DOMAIN DataNeeds : Needs[r] = DataNeeds[r]
  BY <1>1, <1>3, <1>4, <1>5, <1>6, VpcMembers, BuildMembers, DataMembers
<1>11. \A r \in DOMAIN AgentCoreNeeds : Needs[r] = AgentCoreNeeds[r]
  BY <1>1, <1>2, <1>3, <1>4, <1>5, <1>6, VpcMembers, BuildMembers, DataMembers,
     AgentCoreMembers
<1>12. \A r \in DOMAIN AppNeeds : Needs[r] = AppNeeds[r]
  BY <1>1, <1>2, <1>3, <1>4, <1>5, <1>6, VpcMembers, BuildMembers, DataMembers,
     AgentCoreMembers, AppMembers
<1> QED
  BY <1>7, <1>8, <1>9, <1>10, <1>11, <1>12

LEMMA MembersAt ==
    /\ Members["Waf"] = {"webAcl"} /\ Members["Network"] = DOMAIN VpcNeeds
    /\ Members["Build"] = DOMAIN BuildNeeds /\ Members["Data"] = DOMAIN DataNeeds
    /\ Members["Agent"] = DOMAIN AgentCoreNeeds /\ Members["App"] = DOMAIN AppNeeds
  BY DEF Members, WafNeeds

LEMMA OneStack ==
    \A s, t \in Stack : \A r \in Members[s] \cap Members[t] : s = t
  BY MembersAt, VpcMembers, BuildMembers, DataMembers, AgentCoreMembers, AppMembers DEF Stack

LEMMA MembersResource == \A s \in Stack : Members[s] \subseteq Resource
  BY MembersAt, NeedsAt DEF Stack, WafNeeds

LEMMA MembersCover == \A r \in Resource : \E s \in Stack : r \in Members[s]
  BY MembersAt, NeedsAt DEF Stack, WafNeeds

LEMMA BothWithin ==
    ASSUME NEW f, NEW g, NEW R,
           \A r \in DOMAIN f : f[r] \subseteq R, \A r \in DOMAIN g : g[r] \subseteq R
    PROVE  \A r \in DOMAIN Both(f, g) : Both(f, g)[r] \subseteq R
  BY DEF Both

(* What a resource needs is a resource. *)
LEMMA NeedsWithin == \A r \in Resource : Needs[r] \subseteq Resource
<1> DEFINE Within(f) == \A r \in DOMAIN f : f[r] \subseteq Resource
<1>1. \A f, g : Within(f) /\ Within(g) => Within(Both(f, g))
  BY BothWithin
<1>2. {"webAcl"} \cup {"vpc", "igw", "groups", "s3Egress", "endpoints"}
        \cup {"agentRepo", "agentProject", "agentTrigger",
              "proxyRepo", "proxyProject", "proxyTrigger"}
        \cup {"bucket", "agentRole", "proxyRole", "agentGrants", "proxyGrants",
              "provisioner", "index"}
        \cup {"runtime", "liveEndpoint", "policy"}
        \cup {"alb", "listener", "auth", "demoUser", "cluster", "taskDef", "service",
              "distribution", "lookup", "ingress"} = Resource
  BY NeedsAt, VpcMembers, BuildMembers, DataMembers, AgentCoreMembers, AppMembers DEF WafNeeds
<1>3. Within(WafNeeds)
  BY <1>2 DEF WafNeeds
<1>4. Within(VpcNeeds)
  BY <1>2 DEF VpcNeeds
<1>5. Within(BuildNeeds)
  <2>1. Within(ImageNeeds("agent"))
    BY <1>2 DEF ImageNeeds, Repo, Project, Trigger
  <2>2. Within(ImageNeeds("proxy"))
    BY <1>2 DEF ImageNeeds, Repo, Project, Trigger
  <2> QED
    BY <1>1, <2>1, <2>2 DEF BuildNeeds
<1>6. Within(DataNeeds)
  <2>1. Within([bucket |-> {}])
    BY <1>2
  <2>2. Within(RoleNeeds)
    BY <1>2 DEF RoleNeeds
  <2>3. Within(OpenSearchNeeds)
    BY <1>2 DEF OpenSearchNeeds
  <2> HIDE DEF Within
  <2> QED
    BY <1>1, <2>1, <2>2, <2>3 DEF DataNeeds
<1>7. Within(AgentCoreNeeds)
  BY <1>2 DEF AgentCoreNeeds
<1>8. Within(AppNeeds)
  <2>1. Within(AlbNeeds)
    BY <1>2 DEF AlbNeeds
  <2>2. Within(AuthNeeds)
    BY <1>2 DEF AuthNeeds
  <2>3. Within(ProxyNeeds)
    BY <1>2 DEF ProxyNeeds
  <2>4. Within(CloudFrontNeeds)
    BY <1>2 DEF CloudFrontNeeds
  <2>5. Within(IngressNeeds)
    BY <1>2 DEF IngressNeeds
  <2> HIDE DEF Within
  <2> QED
    BY <1>1, <2>1, <2>2, <2>3, <2>4, <2>5 DEF AppNeeds
<1>9. Within(Needs)
  <2> HIDE DEF Within
  <2> QED
    BY <1>1, <1>3, <1>4, <1>5, <1>6, <1>7, <1>8 DEF Needs
<1> QED
  BY <1>9 DEF Resource

(* A stack imports from another when a resource of it needs one of there. *)
LEMMA ImportsFrom ==
    ASSUME NEW s \in Stack, NEW t \in Stack, s # t,
           NEW r \in Members[s], NEW n \in Members[t], n \in Needs[r]
    PROVE  t \in Imports[s]
<1>1. n \in Resource
  BY MembersResource
<1>2. StackOf[n] = t
  BY <1>1, OneStack DEF StackOf
<1>3. n \in UNION {Needs[x] : x \in Members[s]}
  OBVIOUS
<1> QED
  BY <1>2, <1>3 DEF Imports

LEMMA ImportsStack == \A s \in Stack : Imports[s] \subseteq Stack
<1>1. ASSUME NEW s \in Stack, NEW r \in Members[s], NEW n \in Needs[r]
      PROVE  n \in Resource
  BY NeedsWithin, MembersResource
<1>2. ASSUME NEW n \in Resource
      PROVE  StackOf[n] \in Stack
  BY MembersCover DEF StackOf
<1> QED
  BY <1>1, <1>2 DEF Imports

LEMMA ImportsAre ==
    /\ \A s \in Stack : Imports[s] \subseteq StackDeps[s] /\ s \notin Imports[s]
    /\ {"Network", "Build"} \subseteq Imports["Data"]
    /\ {"Network", "Build", "Data"} \subseteq Imports["Agent"]
    /\ {"Waf", "Network", "Build", "Data", "Agent"} \subseteq Imports["App"]
<1>1. \A s \in Stack : Imports[s] \subseteq StackDeps[s] /\ s \notin Imports[s]
  BY DEF StackDeps, Imports
<1>2. {"Waf", "Network", "Build", "Data", "Agent", "App"} = Stack
  BY DEF Stack
<1>3. "Network" \in Imports["Data"] /\ "Build" \in Imports["Data"]
  <2>1. "endpoints" \in Needs["index"] /\ "agentRepo" \in Needs["agentGrants"]
    BY DataMembers, NeedsAt
  <2>2. "index" \in Members["Data"] /\ "agentGrants" \in Members["Data"]
    BY MembersAt, DataMembers
  <2>3. "endpoints" \in Members["Network"] /\ "agentRepo" \in Members["Build"]
    BY MembersAt, VpcMembers, BuildMembers
  <2> QED
    BY <1>2, <2>1, <2>2, <2>3, ImportsFrom
<1>4. "Network" \in Imports["Agent"] /\ "Build" \in Imports["Agent"]
      /\ "Data" \in Imports["Agent"]
  <2>1. {"agentRepo", "agentRole", "vpc"} \subseteq Needs["runtime"]
    BY AgentCoreMembers, NeedsAt DEF AgentCoreNeeds
  <2>2. "runtime" \in Members["Agent"]
    BY MembersAt, AgentCoreMembers
  <2>3. "vpc" \in Members["Network"] /\ "agentRepo" \in Members["Build"]
        /\ "agentRole" \in Members["Data"]
    BY MembersAt, VpcMembers, BuildMembers, DataMembers
  <2> QED
    BY <1>2, <2>1, <2>2, <2>3, ImportsFrom
<1>5. "Network" \in Imports["App"] /\ "Build" \in Imports["App"]
      /\ "Data" \in Imports["App"] /\ "Agent" \in Imports["App"] /\ "Waf" \in Imports["App"]
  <2>1. /\ {"proxyRepo", "proxyRole", "runtime"} \subseteq Needs["taskDef"]
        /\ "vpc" \in Needs["alb"] /\ "webAcl" \in Needs["distribution"]
    BY AppMembers, NeedsAt
  <2>2. {"taskDef", "alb", "distribution"} \subseteq Members["App"]
    BY MembersAt, AppMembers
  <2>3. "vpc" \in Members["Network"] /\ "proxyRepo" \in Members["Build"]
        /\ "proxyRole" \in Members["Data"] /\ "runtime" \in Members["Agent"]
        /\ "webAcl" \in Members["Waf"]
    BY MembersAt, VpcMembers, BuildMembers, DataMembers, AgentCoreMembers
  <2> QED
    BY <1>2, <2>1, <2>2, <2>3, ImportsFrom
<1> QED
  BY <1>1, <1>3, <1>4, <1>5

(* The resources with a life of their own, and where they are. *)
LEMMA Places ==
    /\ \A i \in Image : /\ {Repo[i], Project[i], Trigger[i]} \subseteq Members["Build"]
                        /\ Repo[i] \in Needs[Project[i]] /\ Project[i] \in Needs[Trigger[i]]
                        /\ Trigger[i] \notin Plain /\ Project[i] # Trigger[i]
                        /\ Repo[i] \notin {Project[i], Trigger[i]}
    /\ \A i, j \in Image : /\ i # j => Trigger[i] # Trigger[j] /\ Repo[i] # Repo[j]
                           /\ Repo[i] # Project[j] /\ Repo[i] # Trigger[j]
                           /\ Project[i] # Trigger[j]
    /\ "runtime" \in Members["Agent"]
    /\ {"taskDef", "service", "auth", "demoUser"} \subseteq Members["App"]
    /\ "auth" \in Needs["demoUser"] /\ "taskDef" \in Needs["service"]
<1>1. /\ \A i \in Image : {Repo[i], Project[i], Trigger[i]} \subseteq Members["Build"]
      /\ \A i \in Image : Repo[i] \in Needs[Project[i]] /\ Project[i] \in Needs[Trigger[i]]
  BY MembersAt, BuildMembers, NeedsAt DEF Image, Repo, Project, Trigger
<1>2. /\ \A i \in Image : Trigger[i] \notin Plain /\ Project[i] # Trigger[i]
                          /\ Repo[i] \notin {Project[i], Trigger[i]}
      /\ \A i, j \in Image : /\ i # j => Trigger[i] # Trigger[j] /\ Repo[i] # Repo[j]
                             /\ Repo[i] # Project[j] /\ Repo[i] # Trigger[j]
                             /\ Project[i] # Trigger[j]
  BY DEF Image, Repo, Project, Trigger, Plain
<1>3. "runtime" \in Members["Agent"]
  BY MembersAt, AgentCoreMembers
<1>4. {"taskDef", "service", "auth", "demoUser"} \subseteq Members["App"]
  BY MembersAt, AppMembers
<1>5. "auth" \in Needs["demoUser"] /\ "taskDef" \in Needs["service"]
  BY AppMembers, NeedsAt
<1> QED
  BY <1>1, <1>2, <1>3, <1>4, <1>5

-----------------------------------------------------------------------------
(* The requests and their images. *)

LEMMA RequestsAre ==
    /\ Accepted \subseteq Requests /\ NoRequest \notin Accepted
    /\ \A q \in Accepted, i \in Image : Source[q][i] \in Sources
    /\ \A q \in Requests : Valid(q) => q \in Accepted
  BY ConstantsAssumption, OneDeployment DEF Accepted, Setting

(* Unless its entry differs, the trigger or the project of two requests     *)
(* stands for the same tag.                                                 *)
LEMMA SameTag ==
    ASSUME NEW i \in Image, NEW p, NEW q, NEW r \in {Trigger[i], Project[i]},
           ~Differs(r, p, q)
    PROVE  Source[p][i] = Source[q][i]
  BY Places DEF Differs, ImageDiffers

LEMMA PlatformIs ==
    ASSUME NEW i, NEW q
    PROVE  Platform(i, q) \in {"arm64", "amd64"}
  BY DEF Platform

-----------------------------------------------------------------------------
(* Types. *)

LEMMA InitType == Init => TypeOK
  BY ConstantsAssumption DEF Init, TypeOK, Phases

LEMMA TargetIs ==
    ASSUME TypeOK, NEW s \in Stack
    PROVE  Target(s) \in Accepted \cup {NoRequest}
  BY DEF TypeOK, Target

LEMMA WaitedIs ==
    ASSUME TypeOK, NEW i \in Image, run[i] # NoBuild
    PROVE  /\ run[i] \in Waited
           /\ run[i].tag \in Sources /\ run[i].platform \in {"arm64", "amd64"}
  BY DEF TypeOK, Waited

LEMMA AbandonedIs ==
    ASSUME TypeOK, NEW i \in Image
    PROVE  Abandoned(i) \subseteq Build
  BY WaitedIs DEF Abandoned, Build

LEMMA LeaveBuildsType ==
    ASSUME TypeOK, NEW s, LeaveBuilds(s)
    PROVE  late' \in [Image -> SUBSET Build] /\ run' \in [Image -> Waited \cup {NoBuild}]
  BY AbandonedIs DEF TypeOK, LeaveBuilds

LEMMA TurnServiceType ==
    ASSUME TypeOK, NEW s, TurnService(s)
    PROVE  roll' \in Accepted \cup {NoRequest} /\ tasks' \in [kept : Nat, fresh : Nat]
<1>1. "service" \in Resource
  BY Places, MembersResource DEF Stack
<1> QED
  BY <1>1 DEF TypeOK, TurnService

LEMMA FailingType ==
    ASSUME TypeOK, NEW s \in Stack, Failing(s), faults' \in 0..MaxFaults
    PROVE  TypeOK'
<1> DEFINE phase == IF stack[s].phase = "creating" THEN "deleting"
                    ELSE IF stack[s].phase = "updating" THEN "restoring" ELSE "stuck"
<1>1. stack' \in [Stack -> [phase : Phases, plan : Accepted \cup {NoRequest},
                            was : Accepted \cup {NoRequest}]]
  <2>1. phase \in Phases
    BY DEF Phases
  <2>2. stack' = [stack EXCEPT ![s] = [stack[s] EXCEPT !.phase = phase]]
    BY DEF Failing
  <2> HIDE DEF phase
  <2> QED
    BY <2>1, <2>2 DEF TypeOK
<1>2. late' \in [Image -> SUBSET Build] /\ run' \in [Image -> Waited \cup {NoBuild}]
  BY LeaveBuildsType DEF Failing
<1>3. roll' \in Accepted \cup {NoRequest} /\ tasks' \in [kept : Nat, fresh : Nat]
  BY TurnServiceType DEF Failing
<1> QED
  BY <1>1, <1>2, <1>3 DEF TypeOK, Failing

LEMMA WriteType ==
    ASSUME TypeOK, NEW r \in Resource, NEW q \in Accepted \cup {NoRequest}, Write(r, q)
    PROVE  made' \in [Resource -> Accepted \cup {NoRequest}]
  BY DEF TypeOK, Write

LEMMA PushedType ==
    ASSUME TypeOK, NEW i \in Image, NEW b, b.tag \in Sources,
           b.platform \in {"arm64", "amd64"}
    PROVE  Pushed(i, b) \in [Image -> [Sources -> {"arm64", "amd64", "none"}]]
  BY DEF TypeOK, Pushed

LEMMA TypeNext ==
    ASSUME TypeOK, Next
    PROVE  TypeOK'
<1> USE DEF vars, world
<1>0. /\ \A i \in Image : /\ Trigger[i] \in Members["Build"] /\ Trigger[i] \in Resource
                          /\ Project[i] \in Resource
                          /\ Project[i] \in Needs[Trigger[i]]
      /\ "service" \in Resource /\ "demoUser" \in Resource
      /\ "Build" \in Stack /\ "App" \in Stack
  BY Places, MembersResource DEF Stack
<1>1. ASSUME NEW q \in Requests, Deploy(q)
      PROVE  TypeOK'
  <2>1. commands' \in 0..MaxCommands
    BY <1>1, ConstantsAssumption DEF Deploy, TypeOK
  <2>2. cli' \in [mode : {"idle", "deploy", "destroy"}, ask : Accepted \cup {NoRequest},
                  todo : SUBSET Stack, at : Stack \cup {NoStack},
                  said : {"nothing", "deployed", "destroyed", "failed", "refused",
                          "interrupted"}]
    <3>1. cli \in [mode : {"idle", "deploy", "destroy"}, ask : Accepted \cup {NoRequest},
                   todo : SUBSET Stack, at : Stack \cup {NoStack},
                   said : {"nothing", "deployed", "destroyed", "failed", "refused",
                           "interrupted"}]
      BY DEF TypeOK
    <3>2. CASE Valid(q)
      BY <1>1, <3>2, RequestsAre DEF Deploy
    <3>3. CASE ~Valid(q)
      BY <1>1, <3>1, <3>3 DEF Deploy
    <3> QED
      BY <3>2, <3>3
  <2> QED
    BY <1>1, <2>1, <2>2 DEF Deploy, TypeOK
<1>2. ASSUME NEW all \in BOOLEAN, Destroy(all)
      PROVE  TypeOK'
  BY <1>2, ConstantsAssumption DEF Destroy, TypeOK
<1>3. ASSUME Interrupt
      PROVE  TypeOK'
  <2>1. faults' \in 0..MaxFaults
    BY <1>3, ConstantsAssumption DEF Interrupt, TypeOK
  <2> QED
    BY <1>3, <2>1 DEF Interrupt, Ended, TypeOK
<1>4. ASSUME NEW s \in Stack, Fail(s)
      PROVE  TypeOK'
  BY <1>4, FailingType, ConstantsAssumption DEF Fail, TypeOK
<1>5. ASSUME NEW i \in Image, NEW status \in Failures \cup {"SUCCEEDED"},
             BuildEnds(i, status)
      PROVE  TypeOK'
  <2>1. run[i] # NoBuild /\ run[i] \in Waited
    BY <1>5, WaitedIs DEF BuildEnds
  <2>2. run' \in [Image -> Waited \cup {NoBuild}]
    BY <1>5, <2>1 DEF BuildEnds, TypeOK, Waited, Statuses
  <2>3. repo' \in [Image -> [Sources -> {"arm64", "amd64", "none"}]]
    BY <1>5, <2>1, WaitedIs, PushedType DEF BuildEnds, TypeOK
  <2> QED
    BY <1>5, <2>2, <2>3 DEF BuildEnds, TypeOK
<1>6. ASSUME NEW i \in Image, NEW b \in late[i], LateBuild(i, b)
      PROVE  TypeOK'
  <2>1. b \in Build
    BY DEF TypeOK
  <2>2. b.tag \in Sources /\ b.platform \in {"arm64", "amd64"}
    BY <2>1 DEF Build
  <2>3. repo' \in [Image -> [Sources -> {"arm64", "amd64", "none"}]]
    BY <1>6, <2>2, PushedType DEF LateBuild, TypeOK
  <2>4. late' \in [Image -> SUBSET Build]
    BY <1>6 DEF LateBuild, TypeOK
  <2> QED
    BY <1>6, <2>3, <2>4 DEF LateBuild, TypeOK
<1>7. ASSUME NEW s \in Stack, SkipStack(s)
      PROVE  TypeOK'
  <2>1. stack' \in [Stack -> [phase : Phases, plan : Accepted \cup {NoRequest},
                              was : Accepted \cup {NoRequest}]]
    <3>1. stack' = stack \/ stack' = [stack EXCEPT ![s] = [stack[s] EXCEPT !.plan = cli.ask]]
      BY <1>7 DEF SkipStack
    <3>2. cli.ask \in Accepted \cup {NoRequest}
      BY DEF TypeOK
    <3>3. [stack[s] EXCEPT !.plan = cli.ask] \in
            [phase : Phases, plan : Accepted \cup {NoRequest}, was : Accepted \cup {NoRequest}]
      BY <3>2 DEF TypeOK
    <3> QED
      BY <3>1, <3>3 DEF TypeOK
  <2>2. cli' \in [mode : {"idle", "deploy", "destroy"}, ask : Accepted \cup {NoRequest},
                  todo : SUBSET Stack, at : Stack \cup {NoStack},
                  said : {"nothing", "deployed", "destroyed", "failed", "refused",
                          "interrupted"}]
    BY <1>7 DEF SkipStack, TypeOK
  <2> QED
    BY <1>7, <2>1, <2>2 DEF SkipStack, TypeOK
<1>8. ASSUME NEW s \in Stack, TakeStack(s)
      PROVE  TypeOK'
  BY <1>8, ConstantsAssumption DEF TakeStack, TypeOK, Phases
<1>9. ASSUME NEW s \in Stack, TakeDelete(s)
      PROVE  TypeOK'
  <2>1. late' \in [Image -> SUBSET Build] /\ run' \in [Image -> Waited \cup {NoBuild}]
    BY <1>9, LeaveBuildsType DEF TakeDelete, TypeOK
  <2>2. roll' \in Accepted \cup {NoRequest} /\ tasks' \in [kept : Nat, fresh : Nat]
    BY <1>9, TurnServiceType DEF TakeDelete, TypeOK
  <2>3. stack' \in [Stack -> [phase : Phases, plan : Accepted \cup {NoRequest},
                              was : Accepted \cup {NoRequest}]]
    BY <1>9 DEF TakeDelete, TypeOK, Phases
  <2>4. cli' \in [mode : {"idle", "deploy", "destroy"}, ask : Accepted \cup {NoRequest},
                  todo : SUBSET Stack, at : Stack \cup {NoStack},
                  said : {"nothing", "deployed", "destroyed", "failed", "refused",
                          "interrupted"}]
    BY <1>9 DEF TakeDelete, TypeOK
  <2> QED
    BY <1>9, <2>1, <2>2, <2>3, <2>4 DEF TakeDelete, TypeOK
<1>10. ASSUME NEW s \in Stack, RefuseStack(s)
       PROVE  TypeOK'
  BY <1>10 DEF RefuseStack, Ended, TypeOK
<1>11. ASSUME NEW s \in Stack, FinishStack(s)
       PROVE  TypeOK'
  BY <1>11, TargetIs DEF FinishStack, TypeOK, Phases
<1>12. ASSUME NEW s \in Stack, FinishDelete(s)
       PROVE  TypeOK'
  BY <1>12 DEF FinishDelete, TypeOK, Phases
<1>13. ASSUME NEW s \in Stack, NEW r \in Members[s], Put(s, r)
       PROVE  TypeOK'
  BY <1>13, WriteType, TargetIs, MembersResource DEF Put, TypeOK
<1>14. ASSUME NEW s \in Stack, NEW r \in Members[s], Drop(s, r)
       PROVE  TypeOK'
  <2>1. made' \in [Resource -> Accepted \cup {NoRequest}]
    BY <1>14, WriteType, MembersResource DEF Drop
  <2>2. repo' \in [Image -> [Sources -> {"arm64", "amd64", "none"}]]
    BY <1>14 DEF Drop, TypeOK
  <2>3. roll' \in Accepted \cup {NoRequest} /\ tasks' \in [kept : Nat, fresh : Nat]
    BY <1>14 DEF Drop, TypeOK
  <2> QED
    BY <1>14, <2>1, <2>2, <2>3 DEF Drop, TypeOK
<1>15. ASSUME GoOn
       PROVE  TypeOK'
  BY <1>15 DEF GoOn, Ended, TypeOK
<1>16. ASSUME Done
       PROVE  TypeOK'
  BY <1>16 DEF Done, Ended, TypeOK
<1>17. ASSUME NEW i \in Image, StartBuild(i)
       PROVE  TypeOK'
  <2>1. made[Project[i]] \in Accepted
    BY <1>0, <1>17 DEF StartBuild, Ready, TypeOK
  <2>2. run' \in [Image -> Waited \cup {NoBuild}]
    BY <1>17, <2>1, RequestsAre, PlatformIs DEF StartBuild, TypeOK, Waited, Statuses
  <2> QED
    BY <1>0, <1>17, <2>2 DEF StartBuild, TypeOK
<1>18. ASSUME NEW i \in Image, PollBuild(i)
       PROVE  TypeOK'
  <2>1. made' \in [Resource -> Accepted \cup {NoRequest}]
    BY <1>0, <1>18, WriteType, TargetIs DEF PollBuild
  <2>2. run' \in [Image -> Waited \cup {NoBuild}]
    BY <1>18 DEF PollBuild, TypeOK
  <2> QED
    BY <1>18, <2>1, <2>2 DEF PollBuild, TypeOK
<1>19. ASSUME NEW i \in Image, BuildFailed(i) \/ ProviderTimeout(i)
       PROVE  TypeOK'
  BY <1>0, <1>19, FailingType DEF BuildFailed, ProviderTimeout, TypeOK
<1>20. ASSUME RollStart
       PROVE  TypeOK'
  BY <1>0, <1>20, TargetIs DEF RollStart, TypeOK
<1>21. ASSUME TaskUp
       PROVE  TypeOK'
  BY <1>21 DEF TaskUp, TypeOK
<1>22. ASSUME TaskDown
       PROVE  TypeOK'
  <2>1. tasks' \in [kept : Nat, fresh : Nat]
    BY <1>22 DEF TaskDown, TypeOK
  <2> QED
    BY <1>22, <2>1 DEF TaskDown, TypeOK
<1>23. ASSUME RollDone
       PROVE  TypeOK'
  <2>1. made' \in [Resource -> Accepted \cup {NoRequest}]
    BY <1>0, <1>23, WriteType DEF RollDone, TypeOK
  <2> QED
    BY <1>23, <2>1 DEF RollDone, TypeOK
<1>24. ASSUME CircuitBreak
       PROVE  TypeOK'
  BY <1>0, <1>24, FailingType DEF CircuitBreak, TypeOK
<1>25. ASSUME CreateUser
       PROVE  TypeOK'
  BY <1>0, <1>25 DEF CreateUser, TypeOK
<1>26. ASSUME SetPassword
       PROVE  TypeOK'
  <2>1. made' \in [Resource -> Accepted \cup {NoRequest}]
    BY <1>0, <1>26, WriteType, TargetIs DEF SetPassword
  <2> QED
    BY <1>26, <2>1 DEF SetPassword, TypeOK
<1> QED
  BY <1>1, <1>2, <1>3, <1>4, <1>5, <1>6, <1>7, <1>8, <1>9, <1>10, <1>11, <1>12, <1>13,
     <1>14, <1>15, <1>16, <1>17, <1>18, <1>19, <1>20, <1>21, <1>22, <1>23, <1>24, <1>25,
     <1>26 DEF Next, Engine

-----------------------------------------------------------------------------
(* What a command has behind it. *)

LEMMA CommandKept ==
    ASSUME CommandInv, UNCHANGED <<cli, stack>>
    PROVE  CommandInv'
  BY DEF CommandInv

LEMMA CommandFailing ==
    ASSUME TypeOK, CommandInv, NEW s \in Stack, Failing(s)
    PROVE  CommandInv'
<1>1. cli' = cli /\ stack[s].phase \in Busy
      /\ stack' = [stack EXCEPT ![s].phase = stack'[s].phase]
      /\ stack'[s].phase \in {"deleting", "restoring", "stuck"}
  BY DEF Failing, TypeOK
<1>2. cli.mode = "deploy" => s \in cli.todo
  BY <1>1 DEF CommandInv, Settled, Busy
<1> QED
  BY <1>1, <1>2 DEF CommandInv, TypeOK

LEMMA CommandNext ==
    ASSUME TypeOK, CommandInv, Next
    PROVE  CommandInv'
<1> USE ConstantsAssumption DEF vars, world
<1>1. ASSUME NEW q \in Requests, Deploy(q)
      PROVE  CommandInv'
  BY <1>1, RequestsAre DEF Deploy, CommandInv, TypeOK
<1>2. ASSUME NEW all \in BOOLEAN, Destroy(all)
      PROVE  CommandInv'
  BY <1>2 DEF Destroy, CommandInv
<1>3. ASSUME Interrupt
      PROVE  CommandInv'
  BY <1>3 DEF Interrupt, Ended, CommandInv, TypeOK
<1>4. ASSUME NEW s \in Stack, Fail(s)
      PROVE  CommandInv'
  BY <1>4, CommandFailing DEF Fail
<1>5. ASSUME NEW i \in Image, \/ \E status \in Failures \cup {"SUCCEEDED"} :
                                    BuildEnds(i, status)
                              \/ \E b \in late[i] : LateBuild(i, b)
                              \/ StartBuild(i) \/ PollBuild(i)
      PROVE  CommandInv'
  BY <1>5, CommandKept DEF BuildEnds, LateBuild, StartBuild, PollBuild
<1>6. ASSUME NEW i \in Image, BuildFailed(i) \/ ProviderTimeout(i)
      PROVE  CommandInv'
  BY <1>6, CommandFailing DEF BuildFailed, ProviderTimeout, Stack
<1>7. ASSUME NEW s \in Stack, SkipStack(s)
      PROVE  CommandInv'
  <2>1. cli.mode # "idle" /\ cli.at = NoStack
        /\ cli' = [cli EXCEPT !.todo = cli.todo \ {s}]
    BY <1>7 DEF SkipStack, MayTurnTo
  <2>2. CASE cli.mode = "deploy"
    <3>1. stack[s].phase \in Settled /\ stack' = [stack EXCEPT ![s].plan = cli.ask]
      BY <1>7, <2>2 DEF SkipStack, Unchanged
    <3> QED
      BY <2>1, <2>2, <3>1 DEF CommandInv, TypeOK
  <2>3. CASE cli.mode # "deploy"
    BY <2>1, <2>3 DEF CommandInv, TypeOK
  <2> QED
    BY <2>2, <2>3
<1>8. ASSUME NEW s \in Stack, TakeStack(s)
      PROVE  CommandInv'
  <2>1. cli.mode = "deploy" /\ s \in cli.todo /\ cli' = [cli EXCEPT !.at = s]
    BY <1>8 DEF TakeStack, MayTurnTo
  <2>2. /\ stack'[s].plan = cli.ask
        /\ \A t \in Stack \ {s} : stack'[t] = stack[t]
    BY <1>8 DEF TakeStack, TypeOK
  <2> QED
    BY <2>1, <2>2 DEF CommandInv, TypeOK
<1>9. ASSUME NEW s \in Stack, TakeDelete(s)
      PROVE  CommandInv'
  BY <1>9 DEF TakeDelete, MayTurnTo, CommandInv, TypeOK
<1>10. ASSUME NEW s \in Stack, RefuseStack(s)
       PROVE  CommandInv'
  BY <1>10 DEF RefuseStack, Ended, CommandInv, TypeOK
<1>11. ASSUME NEW s \in Stack, FinishStack(s)
       PROVE  CommandInv'
  <2>1. /\ stack[s].phase \in {"creating", "updating", "restoring"} /\ cli' = cli
        /\ stack'[s].phase = (IF stack[s].phase = "restoring" THEN "restored" ELSE "live")
        /\ stack'[s].plan = Target(s)
        /\ \A t \in Stack \ {s} : stack'[t] = stack[t]
    BY <1>11 DEF FinishStack, TypeOK
  <2>2. cli.mode = "deploy" => s \in cli.todo
    BY <2>1 DEF CommandInv, Settled
  <2>3. stack'[s].phase = "live" => /\ stack[s].phase \in {"creating", "updating"}
                                    /\ stack'[s].plan = stack[s].plan
    BY <2>1 DEF Target
  <2>4. stack'[s].phase \in {"live", "restored"}
    BY <2>1
  <2>5. cli.mode = "deploy" => \A t \in Stack \ cli.todo :
                                   stack'[t].phase \in Settled /\ stack'[t].plan = cli.ask
    BY <2>1, <2>2 DEF CommandInv
  <2>6. cli.mode = "deploy" /\ cli.at # NoStack
          /\ stack'[cli.at].phase \in {"creating", "updating", "live"}
        => stack'[cli.at].plan = cli.ask
    BY <2>1, <2>3, <2>4 DEF CommandInv, TypeOK
  <2> QED
    BY <2>1, <2>5, <2>6 DEF CommandInv
<1>12. ASSUME NEW s \in Stack, FinishDelete(s)
       PROVE  CommandInv'
  <2>1. /\ stack[s].phase = "deleting" /\ cli' = cli
        /\ stack'[s].phase = "absent"
        /\ \A t \in Stack \ {s} : stack'[t] = stack[t]
    BY <1>12 DEF FinishDelete, TypeOK
  <2>2. cli.mode = "deploy" => s \in cli.todo
    BY <2>1 DEF CommandInv, Settled
  <2>3. cli.mode = "deploy" => \A t \in Stack \ cli.todo :
                                   stack'[t].phase \in Settled /\ stack'[t].plan = cli.ask
    BY <2>1, <2>2 DEF CommandInv
  <2>4. cli.mode = "deploy" /\ cli.at # NoStack
          /\ stack'[cli.at].phase \in {"creating", "updating", "live"}
        => stack'[cli.at].plan = cli.ask
    BY <2>1 DEF CommandInv, TypeOK
  <2> QED
    BY <2>1, <2>3, <2>4 DEF CommandInv
<1>13. ASSUME NEW s \in Stack, NEW r \in Members[s], Put(s, r) \/ Drop(s, r)
       PROVE  CommandInv'
  BY <1>13, CommandKept DEF Put, Drop
<1>14. ASSUME GoOn
       PROVE  CommandInv'
  <2>1. stack' = stack /\ cli.at \in Stack
    BY <1>14 DEF GoOn, TypeOK
  <2>2. CASE cli' = Ended("failed")
    BY <2>1, <2>2 DEF Ended, CommandInv, TypeOK
  <2>3. CASE cli' # Ended("failed")
    <3>1. /\ cli' = [cli EXCEPT !.todo = cli.todo \ {cli.at}, !.at = NoStack]
          /\ stack[cli.at].phase = IF cli.mode = "deploy" THEN "live" ELSE "absent"
      BY <1>14, <2>3 DEF GoOn
    <3>2. cli.mode = "deploy" => stack[cli.at].phase = "live" /\ stack[cli.at].plan = cli.ask
      BY <1>14, <3>1 DEF GoOn, CommandInv
    <3> QED
      BY <2>1, <3>1, <3>2 DEF CommandInv, TypeOK, Settled
  <2> QED
    BY <2>2, <2>3
<1>15. ASSUME Done
       PROVE  CommandInv'
  BY <1>15 DEF Done, Ended, CommandInv, TypeOK
<1>16. ASSUME RollStart \/ TaskUp \/ TaskDown \/ RollDone \/ CreateUser \/ SetPassword
       PROVE  CommandInv'
  BY <1>16, CommandKept DEF RollStart, TaskUp, TaskDown, RollDone, CreateUser, SetPassword
<1>17. ASSUME CircuitBreak
       PROVE  CommandInv'
  BY <1>17, CommandFailing DEF CircuitBreak, Stack
<1> QED
  BY <1>1, <1>2, <1>3, <1>4, <1>5, <1>6, <1>7, <1>8, <1>9, <1>10, <1>11, <1>12, <1>13,
     <1>14, <1>15, <1>16, <1>17 DEF Next, Engine

-----------------------------------------------------------------------------
(* What the phase of a stack says, and what stands on what. *)

StackInv == TypeOK /\ CommandInv /\ PhaseInv /\ OrderInv

LEMMA TargetAccepted ==
    ASSUME TypeOK, PhaseInv, NEW s \in Stack, stack[s].phase \in Working
    PROVE  Target(s) \in Accepted
  BY DEF PhaseInv, Target, Working

LEMMA StackKept ==
    ASSUME PhaseInv, OrderInv, UNCHANGED <<stack, made>>
    PROVE  PhaseInv' /\ OrderInv'
  BY DEF PhaseInv, OrderInv, Is

(* One resource is written, in a stack that is there, on what it needs. *)
LEMMA WriteKeeps ==
    ASSUME StackInv, UNCHANGED stack, NEW s \in Stack, stack[s].phase # "absent",
           NEW r \in Members[s], NEW q \in Accepted, Write(r, q),
           \A n \in Needs[r] \cap Members[s] : Is(n)
    PROVE  PhaseInv' /\ OrderInv'
<1>1. r \in Resource /\ \A t \in Stack : Members[t] \subseteq Resource
  BY MembersResource
<1>2. /\ made'[r] = q /\ q # NoRequest
      /\ \A n \in Resource \ {r} : made'[n] = made[n]
  BY <1>1, RequestsAre DEF Write, TypeOK, StackInv
<1>3. \A t \in Stack \ {s} : r \notin Members[t]
  BY OneStack
<1>4. Is(r)' /\ \A n \in Resource : Is(n) => Is(n)'
  BY <1>1, <1>2 DEF Is
<1>5. \A n \in Resource : Is(n)' => Is(n) \/ n = r
  BY <1>1, <1>2 DEF Is
<1>6. PhaseInv'
  BY <1>1, <1>3, <1>4, <1>5 DEF PhaseInv, StackInv
<1>7. \A t \in Stack : stack'[t].phase # "absent" => \A u \in Imports[t] :
          /\ stack'[u].phase \notin {"absent", "creating", "deleting"}
          /\ \A n \in Members[u] : Is(n)'
  BY <1>1, <1>4, ImportsStack DEF OrderInv, StackInv
<1>8. \A t \in Stack : \A d \in Members[t] : Is(d)' =>
          \A n \in Needs[d] \cap Members[t] : Is(n)'
  BY <1>1, <1>3, <1>4, <1>5 DEF OrderInv, StackInv
<1> QED
  BY <1>6, <1>7, <1>8 DEF OrderInv

LEMMA FailingKeeps ==
    ASSUME StackInv, NEW s \in Stack, Failing(s)
    PROVE  PhaseInv' /\ OrderInv'
<1>1. /\ made' = made /\ stack[s].phase \in Busy
      /\ stack'[s].plan = stack[s].plan /\ stack'[s].was = stack[s].was
      /\ stack'[s].phase = IF stack[s].phase = "creating" THEN "deleting"
                           ELSE IF stack[s].phase = "updating" THEN "restoring" ELSE "stuck"
      /\ \A t \in Stack \ {s} : stack'[t] = stack[t]
  BY DEF Failing, TypeOK, StackInv
<1>2. /\ stack[s].phase \in {"creating", "deleting"} => stack'[s].phase \in {"deleting", "stuck"}
      /\ stack[s].phase \in {"updating", "restoring"} => stack'[s].phase \in {"restoring", "stuck"}
      /\ stack'[s].phase = "restoring" => stack[s].phase = "updating"
  BY <1>1 DEF Busy
<1>3. PhaseInv'
  BY <1>1, <1>2 DEF PhaseInv, StackInv, Busy, Whole, Settled, Is
<1>4. \A t \in Stack : \A u \in Imports[t] : u \in Stack
  BY ImportsStack
<1>5. ASSUME NEW t \in Stack, stack'[t].phase # "absent", NEW u \in Imports[t]
      PROVE  /\ stack'[u].phase \notin {"absent", "creating", "deleting"}
             /\ \A n \in Members[u] : Is(n)'
  <2>1. stack[t].phase # "absent"
    BY <1>1, <1>5 DEF Busy
  <2>2. /\ stack[u].phase \notin {"absent", "creating", "deleting"}
        /\ \A n \in Members[u] : Is(n)
    BY <2>1, <1>5 DEF OrderInv, StackInv
  <2> QED
    BY <1>1, <1>2, <1>4, <1>5, <2>2 DEF Is, Busy
<1>6. \A t \in Stack : \A r \in Members[t] : Is(r)' => \A n \in Needs[r] \cap Members[t] : Is(n)'
  BY <1>1 DEF OrderInv, StackInv, Is
<1> QED
  BY <1>3, <1>5, <1>6 DEF OrderInv
(* One stack moves to another phase, and its resources stay as they are. *)
LEMMA StackMoves ==
    ASSUME StackInv, UNCHANGED made, NEW s \in Stack,
           \A t \in Stack \ {s} : stack'[t] = stack[t],
           stack'[s].phase # "absent", stack'[s].plan \in Accepted,
           stack'[s].phase \in {"updating", "restoring"} => stack'[s].was \in Accepted,
           stack'[s].phase \in Whole => \A r \in Members[s] : Is(r),
           \A u \in Imports[s] : /\ stack[u].phase \notin {"absent", "creating", "deleting"}
                                 /\ \A n \in Members[u] : Is(n),
           \/ stack'[s].phase \notin {"creating", "deleting"}
           \/ \A t \in Stack : s \in Imports[t] => stack[t].phase = "absent"
    PROVE  PhaseInv' /\ OrderInv'
<1>1. \A n \in Resource : Is(n)' <=> Is(n)
  BY DEF Is
<1>2. \A t \in Stack : Imports[t] \subseteq Stack /\ t \notin Imports[t]
                       /\ Members[t] \subseteq Resource
  BY ImportsStack, ImportsAre, MembersResource
<1>3. PhaseInv'
  BY <1>1, <1>2 DEF PhaseInv, StackInv
<1>4. ASSUME NEW t \in Stack, stack'[t].phase # "absent", NEW u \in Imports[t]
      PROVE  /\ stack'[u].phase \notin {"absent", "creating", "deleting"}
             /\ \A n \in Members[u] : Is(n)'
  <2>1. CASE t = s
    BY <1>1, <1>2, <1>4, <2>1
  <2>2. CASE t # s
    <3>1. stack[t].phase # "absent"
      BY <1>4, <2>2
    <3>2. /\ stack[u].phase \notin {"absent", "creating", "deleting"}
          /\ \A n \in Members[u] : Is(n)
      BY <1>4, <3>1 DEF OrderInv, StackInv
    <3>3. u = s => stack'[s].phase \notin {"creating", "deleting"}
      BY <1>4, <3>1
    <3> QED
      BY <1>1, <1>2, <1>4, <3>2, <3>3
  <2> QED
    BY <2>1, <2>2
<1>5. \A t \in Stack : \A r \in Members[t] : Is(r)' => \A n \in Needs[r] \cap Members[t] : Is(n)'
  BY <1>1, <1>2 DEF OrderInv, StackInv
<1> QED
  BY <1>3, <1>4, <1>5 DEF OrderInv

(* What a stack that is there imports from is there. *)
LEMMA ImportsStand ==
    ASSUME OrderInv, NEW s \in Stack, stack[s].phase # "absent"
    PROVE  \A u \in Imports[s] : /\ stack[u].phase \notin {"absent", "creating", "deleting"}
                                 /\ \A n \in Members[u] : Is(n)
  BY DEF OrderInv

(* The stacks that one a deployment turns to depends on are settled, on     *)
(* what is asked.                                                           *)
LEMMA TurnedTo ==
    ASSUME StackInv, NEW s \in Stack, MayTurnTo(s), cli.mode = "deploy"
    PROVE  /\ cli.ask \in Accepted /\ s \in cli.todo /\ cli.at = NoStack
           /\ \A t \in StackDeps[s] \cap (Stack \ {s}) :
                 /\ t \notin cli.todo
                 /\ stack[t].phase \in Settled /\ stack[t].plan = cli.ask
                 /\ \A r \in Members[t] : Is(r)
<1>1. \A t \in StackDeps[s] \cap (Stack \ {s}) : t \notin cli.todo
  BY DEF MayTurnTo, InReach
<1>2. cli.ask \in Accepted /\ s \in cli.todo /\ cli.at = NoStack
  BY DEF MayTurnTo, StackInv, CommandInv
<1>3. \A t \in Stack \ cli.todo : stack[t].phase \in Settled /\ stack[t].plan = cli.ask
  BY DEF StackInv, CommandInv
<1> QED
  BY <1>1, <1>2, <1>3 DEF StackInv, PhaseInv, Whole

LEMMA SkipKeeps ==
    ASSUME StackInv, NEW s \in Stack, SkipStack(s)
    PROVE  PhaseInv' /\ OrderInv'
<1>1. made' = made
  BY DEF SkipStack, world
<1>2. CASE cli.mode = "deploy" /\ Unchanged(s) /\ stack' = [stack EXCEPT ![s].plan = cli.ask]
  <2>1. cli.ask \in Accepted
    BY <1>2, TurnedTo DEF SkipStack
  <2>2. /\ \A t \in Stack \ {s} : stack'[t] = stack[t]
        /\ stack'[s].phase = stack[s].phase /\ stack[s].phase \in Settled
        /\ stack'[s].plan = cli.ask
    BY <1>2 DEF Unchanged, StackInv, TypeOK
  <2>3. \A r \in Members[s] : Is(r)
    BY <2>2 DEF StackInv, PhaseInv, Whole
  <2>4. \A u \in Imports[s] : /\ stack[u].phase \notin {"absent", "creating", "deleting"}
                              /\ \A n \in Members[u] : Is(n)
    BY <2>2, ImportsStand DEF StackInv, Settled
  <2> QED
    BY <1>1, <2>1, <2>2, <2>3, <2>4, StackMoves DEF Settled
<1>3. CASE UNCHANGED stack
  BY <1>1, <1>3, StackKept DEF StackInv
<1> QED
  BY <1>2, <1>3 DEF SkipStack

LEMMA TakeKeeps ==
    ASSUME StackInv, NEW s \in Stack, TakeStack(s)
    PROVE  PhaseInv' /\ OrderInv'
<1>1. /\ made' = made /\ cli.mode = "deploy" /\ MayTurnTo(s)
      /\ stack[s].phase \in Settled \cup {"absent"}
      /\ \A t \in Stack \ {s} : stack'[t] = stack[t]
      /\ stack'[s].phase = (IF stack[s].phase = "absent" THEN "creating" ELSE "updating")
      /\ stack'[s].plan = cli.ask /\ stack'[s].was = stack[s].plan
  BY DEF TakeStack, world, StackInv, TypeOK
<1>2. cli.ask \in Accepted
  BY <1>1, TurnedTo
<1>3. \A t \in Stack : Imports[t] \subseteq StackDeps[t] /\ t \notin Imports[t]
                       /\ Imports[t] \subseteq Stack
  BY ImportsAre, ImportsStack
<1>4. CASE stack[s].phase = "absent"
  <2>1. \A u \in Imports[s] : /\ stack[u].phase \notin {"absent", "creating", "deleting"}
                              /\ \A n \in Members[u] : Is(n)
    BY <1>1, <1>3, TurnedTo DEF Settled
  <2>2. \A t \in Stack : s \in Imports[t] => stack[t].phase = "absent"
    BY <1>4, ImportsStand DEF StackInv
  <2>3. stack'[s].phase = "creating"
    BY <1>1, <1>4
  <2> QED
    BY <1>1, <1>2, <2>1, <2>2, <2>3, StackMoves DEF Whole, Settled
<1>5. CASE stack[s].phase # "absent"
  <2>1. stack'[s].phase = "updating" /\ stack[s].phase \in Settled
    BY <1>1, <1>5
  <2>2. stack'[s].was \in Accepted /\ \A r \in Members[s] : Is(r)
    BY <1>1, <1>5, <2>1 DEF StackInv, PhaseInv, Whole
  <2>3. \A u \in Imports[s] : /\ stack[u].phase \notin {"absent", "creating", "deleting"}
                              /\ \A n \in Members[u] : Is(n)
    BY <1>5, ImportsStand DEF StackInv
  <2> QED
    BY <1>1, <1>2, <2>1, <2>2, <2>3, StackMoves
<1> QED
  BY <1>4, <1>5

LEMMA FinishKeeps ==
    ASSUME StackInv, NEW s \in Stack, FinishStack(s)
    PROVE  PhaseInv' /\ OrderInv'
<1>1. /\ made' = made /\ stack[s].phase \in Working
      /\ \A t \in Stack \ {s} : stack'[t] = stack[t]
      /\ stack'[s].phase \in {"live", "restored"} /\ stack'[s].plan = Target(s)
  BY DEF FinishStack, world, StackInv, TypeOK, Working
<1>2. \A r \in Members[s] : Is(r)
  BY DEF FinishStack, Due, Is
<1>3. \A u \in Imports[s] : /\ stack[u].phase \notin {"absent", "creating", "deleting"}
                            /\ \A n \in Members[u] : Is(n)
  BY <1>1, ImportsStand DEF StackInv, Working
<1>4. Target(s) \in Accepted
  BY <1>1, TargetAccepted DEF StackInv
<1> QED
  BY <1>1, <1>2, <1>3, <1>4, StackMoves

LEMMA TakeDeleteKeeps ==
    ASSUME StackInv, NEW s \in Stack, TakeDelete(s)
    PROVE  PhaseInv' /\ OrderInv'
<1>1. /\ made' = made /\ stack[s].phase # "absent"
      /\ \A t \in Stack \ {s} : stack'[t] = stack[t]
      /\ stack'[s].phase = "deleting" /\ stack'[s].plan = stack[s].plan
  BY DEF TakeDelete, Removable, Settled, StackInv, TypeOK
<1>2. \A t \in Stack : s \in Imports[t] => stack[t].phase = "absent"
  BY DEF TakeDelete, Removable
<1>3. stack[s].plan \in Accepted
  BY <1>1 DEF StackInv, PhaseInv
<1>4. \A u \in Imports[s] : /\ stack[u].phase \notin {"absent", "creating", "deleting"}
                            /\ \A n \in Members[u] : Is(n)
  BY <1>1, ImportsStand DEF StackInv
<1> QED
  BY <1>1, <1>2, <1>3, <1>4, StackMoves DEF Whole, Settled

LEMMA FinishDeleteKeeps ==
    ASSUME StackInv, NEW s \in Stack, FinishDelete(s)
    PROVE  PhaseInv' /\ OrderInv'
<1>1. /\ made' = made /\ stack[s].phase = "deleting"
      /\ \A t \in Stack \ {s} : stack'[t] = stack[t]
      /\ stack'[s] = [phase |-> "absent", plan |-> NoRequest, was |-> NoRequest]
      /\ \A r \in Members[s] : ~Is(r)
  BY DEF FinishDelete, StackInv, TypeOK, Is
<1>2. \A n \in Resource : Is(n)' <=> Is(n)
  BY <1>1 DEF Is
<1>3. \A t \in Stack : Imports[t] \subseteq Stack /\ Members[t] \subseteq Resource
  BY ImportsStack, MembersResource
<1>4. PhaseInv'
  BY <1>1, <1>2, <1>3 DEF PhaseInv, StackInv, Whole, Settled
<1>5. \A t \in Stack : s \in Imports[t] => stack[t].phase = "absent"
  BY <1>1, ImportsStand DEF StackInv
<1>6. ASSUME NEW t \in Stack, stack'[t].phase # "absent", NEW u \in Imports[t]
      PROVE  /\ stack'[u].phase \notin {"absent", "creating", "deleting"}
             /\ \A n \in Members[u] : Is(n)'
  <2>1. t # s /\ stack[t].phase # "absent" /\ u # s
    BY <1>1, <1>5, <1>6
  <2>2. /\ stack[u].phase \notin {"absent", "creating", "deleting"}
        /\ \A n \in Members[u] : Is(n)
    BY <1>6, <2>1, ImportsStand DEF StackInv
  <2> QED
    BY <1>1, <1>2, <1>3, <1>6, <2>1, <2>2
<1>7. \A t \in Stack : \A r \in Members[t] : Is(r)' => \A n \in Needs[r] \cap Members[t] : Is(n)'
  BY <1>2, <1>3 DEF OrderInv, StackInv
<1> QED
  BY <1>4, <1>6, <1>7 DEF OrderInv

LEMMA DropKeeps ==
    ASSUME StackInv, NEW s \in Stack, NEW r \in Members[s], Drop(s, r)
    PROVE  PhaseInv' /\ OrderInv'
<1>1. /\ stack' = stack /\ stack[s].phase = "deleting" /\ r \in Resource
      /\ made' = [made EXCEPT ![r] = NoRequest]
      /\ \A d \in Members[s] : r \in Needs[d] => ~Is(d)
  BY MembersResource DEF Drop, Write, Is
<1>2. /\ ~Is(r)'
      /\ \A n \in Resource \ {r} : Is(n)' <=> Is(n)
  BY <1>1 DEF Is, StackInv, TypeOK
<1>3. \A t \in Stack : Imports[t] \subseteq Stack /\ Members[t] \subseteq Resource
  BY ImportsStack, MembersResource
<1>4. \A t \in Stack \ {s} : r \notin Members[t]
  BY OneStack
<1>5. PhaseInv'
  BY <1>1, <1>2, <1>3, <1>4 DEF PhaseInv, StackInv, Whole, Settled
<1>6. ASSUME NEW t \in Stack, stack'[t].phase # "absent", NEW u \in Imports[t]
      PROVE  /\ stack'[u].phase \notin {"absent", "creating", "deleting"}
             /\ \A n \in Members[u] : Is(n)'
  <2>1. /\ stack[u].phase \notin {"absent", "creating", "deleting"}
        /\ \A n \in Members[u] : Is(n)
    BY <1>1, <1>6, ImportsStand DEF StackInv
  <2>2. u # s
    BY <1>1, <2>1
  <2> QED
    BY <1>1, <1>2, <1>3, <1>4, <1>6, <2>1, <2>2
<1>7. ASSUME NEW t \in Stack, NEW d \in Members[t], Is(d)', NEW n \in Needs[d] \cap Members[t]
      PROVE  Is(n)'
  <2>1. d # r /\ Is(d)
    BY <1>2, <1>3, <1>7
  <2>2. Is(n)
    BY <1>7, <2>1 DEF OrderInv, StackInv
  <2>3. n # r
    BY <1>1, <1>4, <1>7, <2>1
  <2> QED
    BY <1>2, <1>3, <1>7, <2>2, <2>3
<1> QED
  BY <1>5, <1>6, <1>7 DEF OrderInv

LEMMA TriggerNeeds == \A i \in Image : Needs[Trigger[i]] \cap Members["Build"] = {Project[i]}
<1>1. \A i \in Image : Needs[Trigger[i]] = {Project[i]}
  BY BuildMembers, NeedsAt DEF Image, Trigger, Project
<1> QED
  BY <1>1, Places

(* The writes: of a plain resource, by a trigger whose build succeeded, of  *)
(* a service that is rolled, and of a user with a password.                 *)
LEMMA PutKeeps ==
    ASSUME StackInv, NEW s \in Stack, NEW r \in Members[s], Put(s, r)
    PROVE  PhaseInv' /\ OrderInv'
<1>1. /\ UNCHANGED stack /\ Write(r, Target(s)) /\ stack[s].phase \in Working
      /\ \A n \in Needs[r] \cap Members[s] : Is(n)
  BY DEF Put, Ready, Working, Is
<1>2. Target(s) \in Accepted
  BY <1>1, TargetAccepted DEF StackInv
<1> QED
  BY <1>1, <1>2, WriteKeeps DEF Working

LEMMA PollKeeps ==
    ASSUME StackInv, BuildInv, NEW i \in Image, PollBuild(i)
    PROVE  PhaseInv' /\ OrderInv'
<1>1. /\ UNCHANGED stack /\ Write(Trigger[i], Target("Build"))
      /\ stack["Build"].phase \in Working /\ Is(Project[i])
  BY DEF PollBuild, BuildInv
<1>2. "Build" \in Stack /\ Trigger[i] \in Members["Build"]
  BY Places DEF Stack
<1>3. \A n \in Needs[Trigger[i]] \cap Members["Build"] : Is(n)
  BY <1>1, TriggerNeeds
<1>4. Target("Build") \in Accepted
  BY <1>1, <1>2, TargetAccepted DEF StackInv
<1> QED
  BY <1>1, <1>2, <1>3, <1>4, WriteKeeps DEF Working

LEMMA RollDoneKeeps ==
    ASSUME StackInv, RollInv, RollDone
    PROVE  PhaseInv' /\ OrderInv'
<1>1. /\ UNCHANGED stack /\ Write("service", roll) /\ roll # NoRequest
      /\ \A n \in Needs["service"] \cap Members["App"] : Is(n)
      /\ stack["App"].phase \in Working \/ Is("service")
  BY DEF RollDone, RollInv, Is
<1>2. "App" \in Stack /\ "service" \in Members["App"] /\ roll \in Accepted
  BY <1>1, Places DEF Stack, StackInv, TypeOK
<1>3. stack["App"].phase # "absent"
  BY <1>1, <1>2 DEF StackInv, PhaseInv, Working
<1> QED
  BY <1>1, <1>2, <1>3, WriteKeeps

LEMMA PasswordKeeps ==
    ASSUME StackInv, SetPassword
    PROVE  PhaseInv' /\ OrderInv'
<1>1. /\ UNCHANGED stack /\ Write("demoUser", Target("App")) /\ stack["App"].phase \in Working
      /\ \A n \in Needs["demoUser"] : Is(n)
  BY DEF SetPassword, Ready, Working, Is
<1>2. "App" \in Stack /\ "demoUser" \in Members["App"]
  BY Places DEF Stack
<1>3. Target("App") \in Accepted
  BY <1>1, <1>2, TargetAccepted DEF StackInv
<1> QED
  BY <1>1, <1>2, <1>3, WriteKeeps DEF Working

LEMMA StackNext ==
    ASSUME IInv, Next
    PROVE  PhaseInv' /\ OrderInv'
<1>0. StackInv /\ BuildInv /\ RollInv
  BY DEF IInv, StackInv
<1>1. ASSUME UNCHANGED <<stack, made>>
      PROVE  PhaseInv' /\ OrderInv'
  BY <1>0, <1>1, StackKept DEF StackInv
<1>2. ASSUME \/ \E q \in Requests : Deploy(q)
             \/ \E all \in BOOLEAN : Destroy(all)
             \/ Interrupt \/ GoOn \/ Done
             \/ \E s \in Stack : RefuseStack(s)
             \/ RollStart \/ TaskUp \/ TaskDown \/ CreateUser
      PROVE  PhaseInv' /\ OrderInv'
  BY <1>1, <1>2 DEF Deploy, Destroy, Interrupt, GoOn, Done, RefuseStack, RollStart,
     TaskUp, TaskDown, CreateUser, world
<1>3. ASSUME NEW i \in Image, \/ \E status \in Failures \cup {"SUCCEEDED"} :
                                    BuildEnds(i, status)
                              \/ \E b \in late[i] : LateBuild(i, b)
                              \/ StartBuild(i)
      PROVE  PhaseInv' /\ OrderInv'
  BY <1>1, <1>3 DEF BuildEnds, LateBuild, StartBuild
<1>4. ASSUME NEW i \in Image, BuildFailed(i) \/ ProviderTimeout(i)
      PROVE  PhaseInv' /\ OrderInv'
  BY <1>0, <1>4, FailingKeeps DEF BuildFailed, ProviderTimeout, Stack
<1>5. ASSUME \/ \E s \in Stack : Fail(s)
             \/ CircuitBreak
      PROVE  PhaseInv' /\ OrderInv'
  BY <1>0, <1>5, FailingKeeps DEF Fail, CircuitBreak, Stack
<1>6. ASSUME NEW s \in Stack, \/ SkipStack(s) \/ TakeStack(s) \/ TakeDelete(s)
                              \/ FinishStack(s) \/ FinishDelete(s)
      PROVE  PhaseInv' /\ OrderInv'
  BY <1>0, <1>6, SkipKeeps, TakeKeeps, TakeDeleteKeeps, FinishKeeps, FinishDeleteKeeps
<1>7. ASSUME NEW s \in Stack, NEW r \in Members[s], Put(s, r) \/ Drop(s, r)
      PROVE  PhaseInv' /\ OrderInv'
  BY <1>0, <1>7, PutKeeps, DropKeeps
<1>8. ASSUME NEW i \in Image, PollBuild(i)
      PROVE  PhaseInv' /\ OrderInv'
  BY <1>0, <1>8, PollKeeps
<1>9. ASSUME RollDone \/ SetPassword
      PROVE  PhaseInv' /\ OrderInv'
  BY <1>0, <1>9, RollDoneKeeps, PasswordKeeps
<1> QED
  BY <1>2, <1>3, <1>4, <1>5, <1>6, <1>7, <1>8, <1>9 DEF Next, Engine

-----------------------------------------------------------------------------
(* The builds that are waited for. *)

(* An image that is there, and a resource that is there, stay. *)
Grows(i) == \A t \in Sources : repo[i][t] # "none" => repo'[i][t] # "none"

LEMMA BuildKept ==
    ASSUME TypeOK, BuildInv, NEW i \in Image, run[i] # NoBuild, UNCHANGED run,
           stack'["Build"] = stack["Build"], Grows(i),
           Trigger[i] \in dirty => Trigger[i] \in dirty',
           Is(Project[i]) => Is(Project[i])'
    PROVE  /\ stack'["Build"].phase \in Working
           /\ Trigger[i] \in dirty' /\ Is(Project[i])'
           /\ run'[i].tag = Source[Target("Build")'][i]
           /\ run'[i].status = "SUCCEEDED" => repo'[i][run'[i].tag] # "none"
<1>1. run[i].tag \in Sources
  BY WaitedIs
<1>2. Target("Build")' = Target("Build")
  BY DEF Target
<1> QED
  BY <1>1, <1>2 DEF BuildInv, Grows

(* Nothing is waited for when nobody works on the stack. *)
LEMMA BuildAtRest ==
    ASSUME BuildInv, stack["Build"].phase \notin Working
    PROVE  \A i \in Image : run[i] = NoBuild
  BY DEF BuildInv

LEMMA NoneWaitedFor ==
    ASSUME \A i \in Image : run'[i] = NoBuild
    PROVE  BuildInv'
  BY DEF BuildInv

LEMMA SameBuild ==
    ASSUME TypeOK, BuildInv, UNCHANGED <<run, repo, dirty, made>>,
           stack'["Build"] = stack["Build"]
    PROVE  BuildInv'
<1>1. \A i \in Image : Grows(i) /\ (Is(Project[i]) => Is(Project[i])')
  BY DEF Grows, Is
<1> QED
  BY <1>1, BuildKept DEF BuildInv

LEMMA BuildFailing ==
    ASSUME TypeOK, BuildInv, NEW s \in Stack, Failing(s)
    PROVE  BuildInv'
<1>1. CASE s = "Build"
  BY <1>1, NoneWaitedFor DEF Failing, LeaveBuilds
<1>2. CASE s # "Build"
  <2>1. UNCHANGED <<run, repo, dirty, made>>
    BY <1>2 DEF Failing, LeaveBuilds
  <2>2. stack'["Build"] = stack["Build"]
    BY <1>2 DEF Failing, TypeOK
  <2> QED
    BY <2>1, <2>2, SameBuild
<1> QED
  BY <1>1, <1>2

(* The steps of a stack that are none of its resources'. *)
LEMMA BuildMoves ==
    ASSUME IInv, NEW s \in Stack, \/ SkipStack(s) \/ TakeStack(s) \/ TakeDelete(s)
                                  \/ FinishStack(s) \/ FinishDelete(s)
    PROVE  BuildInv'
<1>0. TypeOK /\ BuildInv /\ PhaseInv /\ "Build" \in Stack
  BY DEF IInv, Stack
<1>1. CASE s = "Build"
  <2>1. CASE SkipStack(s) \/ TakeStack(s) \/ FinishDelete(s)
    <3>1. /\ run' = run
          /\ SkipStack(s) => stack[s].phase \in Settled \cup {"absent"}
          /\ TakeStack(s) => stack[s].phase \in Settled \cup {"absent"}
          /\ FinishDelete(s) => stack[s].phase = "deleting"
      BY <2>1 DEF SkipStack, Unchanged, TakeStack, FinishDelete, world
    <3>2. stack["Build"].phase \notin Working
      BY <1>1, <2>1, <3>1 DEF Settled, Working
    <3> QED
      BY <1>0, <3>1, <3>2, BuildAtRest, NoneWaitedFor
  <2>2. CASE TakeDelete(s)
    <3>1. CASE stack[s].phase = "creating"
      BY <1>1, <2>2, <3>1, NoneWaitedFor DEF TakeDelete, LeaveBuilds
    <3>2. CASE stack[s].phase # "creating"
      <4>1. run' = run /\ stack["Build"].phase \notin Working
        BY <1>1, <2>2, <3>2 DEF TakeDelete, Removable, Settled, Working
      <4> QED
        BY <1>0, <4>1, BuildAtRest, NoneWaitedFor
    <3> QED
      BY <3>1, <3>2
  <2>3. CASE FinishStack(s)
    <3>1. run' = run /\ \A r \in Members["Build"] : ~Due("Build", r)
      BY <1>1, <2>3 DEF FinishStack, world
    <3>2. \A i \in Image : Trigger[i] \notin dirty
      BY <3>1, Places DEF Due
    <3>3. \A i \in Image : run[i] = NoBuild
      BY <1>0, <3>2 DEF BuildInv
    <3> QED
      BY <3>1, <3>3, NoneWaitedFor
  <2> QED
    BY <2>1, <2>2, <2>3
<1>2. CASE s # "Build"
  <2>1. UNCHANGED <<run, repo, made>> /\ stack'["Build"] = stack["Build"]
    <3>1. UNCHANGED <<run, repo, made>>
      BY <1>2 DEF SkipStack, TakeStack, TakeDelete, LeaveBuilds, FinishStack, FinishDelete,
         world
    <3>2. CASE SkipStack(s)
      BY <1>0, <1>2, <3>1, <3>2 DEF SkipStack, TypeOK
    <3>3. CASE TakeStack(s)
      BY <1>0, <1>2, <3>1, <3>3 DEF TakeStack, TypeOK
    <3>4. CASE TakeDelete(s)
      BY <1>0, <1>2, <3>1, <3>4 DEF TakeDelete, TypeOK
    <3>5. CASE FinishStack(s)
      BY <1>0, <1>2, <3>1, <3>5 DEF FinishStack, TypeOK
    <3>6. CASE FinishDelete(s)
      BY <1>0, <1>2, <3>1, <3>6 DEF FinishDelete, TypeOK
    <3> QED
      BY <3>2, <3>3, <3>4, <3>5, <3>6
  <2>2. dirty' = dirty \/ dirty' = dirty \ Members[s]
    BY DEF SkipStack, TakeStack, TakeDelete, FinishStack, FinishDelete, world
  <2>3. \A i \in Image : Trigger[i] \notin Members[s]
    BY <1>0, <1>2, OneStack, Places
  <2>4. \A i \in Image : /\ Trigger[i] \in dirty => Trigger[i] \in dirty'
                         /\ Grows(i) /\ (Is(Project[i]) => Is(Project[i])')
    BY <2>1, <2>2, <2>3 DEF Grows, Is
  <2> QED
    BY <1>0, <2>1, <2>4, BuildKept DEF BuildInv
<1> QED
  BY <1>1, <1>2

LEMMA WriteStands ==
    ASSUME TypeOK, NEW r, NEW q \in Accepted, Write(r, q)
    PROVE  \A n \in Resource : Is(n) => Is(n)'
  BY RequestsAre DEF Write, TypeOK, Is

LEMMA DropBuild ==
    ASSUME IInv, NEW s \in Stack, NEW r \in Members[s], Drop(s, r)
    PROVE  BuildInv'
<1>0. TypeOK /\ BuildInv /\ "Build" \in Stack /\ r \in Resource
  BY MembersResource DEF IInv, Stack
<1>1. run' = run /\ stack' = stack /\ stack[s].phase = "deleting"
  BY DEF Drop
<1>2. CASE s = "Build"
  BY <1>0, <1>1, <1>2, BuildAtRest, NoneWaitedFor DEF Working
<1>3. CASE s # "Build"
  <2>1. r \notin Members["Build"]
    BY <1>0, <1>3, OneStack
  <2>2. \A i \in Image : /\ r \notin {Repo[i], Project[i], Trigger[i]}
                         /\ Project[i] \in Resource
    BY <1>0, <2>1, Places, MembersResource
  <2>3. \A i \in Image : /\ repo'[i] = repo[i]
                         /\ Trigger[i] \in dirty => Trigger[i] \in dirty'
                         /\ made'[Project[i]] = made[Project[i]]
    BY <1>0, <2>2 DEF Drop, Write, TypeOK
  <2> QED
    BY <1>0, <1>1, <2>3, BuildKept DEF BuildInv, Grows, Is
<1> QED
  BY <1>2, <1>3

LEMMA PushedGrows ==
    ASSUME TypeOK, NEW i \in Image, NEW t \in Sources, NEW p \in {"arm64", "amd64"},
           repo' = [repo EXCEPT ![i][t] = p]
    PROVE  /\ \A j \in Image : Grows(j)
           /\ repo'[i][t] # "none"
  BY DEF TypeOK, Grows

LEMMA LateGrows ==
    ASSUME TypeOK, NEW i \in Image, NEW b \in late[i], LateBuild(i, b)
    PROVE  \A j \in Image : Grows(j)
<1>1. b.tag \in Sources /\ b.platform \in {"arm64", "amd64"}
  BY DEF TypeOK, Build
<1>2. repo' = repo \/ repo' = Pushed(i, b)
  BY DEF LateBuild
<1> QED
  BY <1>1, <1>2, PushedGrows DEF Pushed, Grows

LEMMA StartBuildKeeps ==
    ASSUME IInv, NEW i \in Image, StartBuild(i)
    PROVE  BuildInv'
<1>0. TypeOK /\ BuildInv
  BY DEF IInv
<1>1. /\ UNCHANGED <<stack, made, repo>> /\ dirty' = dirty \cup {Trigger[i]}
      /\ stack["Build"].phase \in Working
      /\ \A n \in Needs[Trigger[i]] :
            made[n] # NoRequest /\ (n \in Members["Build"] => ~Due("Build", n))
  BY DEF StartBuild, Ready, Working
<1>2. Is(Project[i]) /\ ~Due("Build", Project[i])
  BY <1>1, Places DEF Is
<1>3. Source[made[Project[i]]][i] = Source[Target("Build")][i]
  BY <1>2, SameTag DEF Due, Is
<1>4. /\ run'[i].tag = Source[made[Project[i]]][i] /\ run'[i].status = "IN_PROGRESS"
      /\ \A j \in Image \ {i} : run'[j] = run[j]
  BY <1>0 DEF StartBuild, TypeOK
<1>5. Target("Build")' = Target("Build") /\ Is(Project[i])'
  BY <1>1, <1>2 DEF Target, Is
<1>6. ASSUME NEW j \in Image \ {i}, run[j] # NoBuild
      PROVE  /\ stack'["Build"].phase \in Working
             /\ Trigger[j] \in dirty' /\ Is(Project[j])'
             /\ run'[j].tag = Source[Target("Build")'][j]
             /\ run'[j].status = "SUCCEEDED" => repo'[j][run'[j].tag] # "none"
  BY <1>0, <1>1, <1>4, <1>5, <1>6 DEF BuildInv, Is
<1> QED
  BY <1>1, <1>3, <1>4, <1>5, <1>6 DEF BuildInv

LEMMA BuildEndsKeeps ==
    ASSUME IInv, NEW i \in Image, NEW status, BuildEnds(i, status)
    PROVE  BuildInv' /\ \A j \in Image : Grows(j)
<1>0. TypeOK /\ BuildInv
  BY DEF IInv
<1>1. /\ UNCHANGED <<stack, made, dirty>> /\ run[i] # NoBuild
      /\ run' = [run EXCEPT ![i].status = status]
      /\ repo' = IF status = "SUCCEEDED" THEN Pushed(i, run[i]) ELSE repo
  BY DEF BuildEnds
<1>2. run[i].tag \in Sources /\ run[i].platform \in {"arm64", "amd64"} /\ run[i] \in Waited
  BY <1>0, <1>1, WaitedIs
<1>3. /\ \A j \in Image : Grows(j)
      /\ status = "SUCCEEDED" => repo'[i][run[i].tag] # "none"
  BY <1>0, <1>1, <1>2, PushedGrows DEF Pushed, Grows
<1>4. /\ run'[i].tag = run[i].tag /\ run'[i].status = status
      /\ \A j \in Image \ {i} : run'[j] = run[j]
  BY <1>0, <1>1, <1>2 DEF TypeOK, Waited
<1>5. Target("Build")' = Target("Build") /\ \A j \in Image : Is(Project[j])' <=> Is(Project[j])
  BY <1>1 DEF Target, Is
<1>6. ASSUME NEW j \in Image \ {i}, run[j] # NoBuild
      PROVE  run[j].status = "SUCCEEDED" => repo'[j][run[j].tag] # "none"
  BY <1>0, <1>3, <1>6, WaitedIs DEF BuildInv, Grows
<1>7. BuildInv'
  BY <1>0, <1>1, <1>3, <1>4, <1>5, <1>6 DEF BuildInv
<1> QED
  BY <1>3, <1>7

LEMMA PollBuildKeeps ==
    ASSUME IInv, NEW i \in Image, PollBuild(i)
    PROVE  BuildInv'
<1>0. TypeOK /\ BuildInv /\ PhaseInv /\ "Build" \in Stack
  BY DEF IInv, Stack
<1>1. /\ UNCHANGED <<stack, repo>> /\ run' = [run EXCEPT ![i] = NoBuild]
      /\ dirty' = dirty \ {Trigger[i]} /\ Write(Trigger[i], Target("Build"))
      /\ stack["Build"].phase \in Working
  BY <1>0 DEF PollBuild, BuildInv
<1>2. \A n \in Resource : Is(n) => Is(n)'
  BY <1>0, <1>1, TargetAccepted, WriteStands
<1>3. run'[i] = NoBuild /\ \A j \in Image \ {i} : run'[j] = run[j]
  BY <1>0, <1>1 DEF TypeOK
<1>4. Target("Build")' = Target("Build")
  BY <1>1 DEF Target
<1>5. \A j \in Image : Project[j] \in Resource
  BY <1>0, Places, MembersResource
<1>6. \A j \in Image \ {i} : Trigger[j] \in dirty => Trigger[j] \in dirty'
  BY <1>1, Places
<1> QED
  BY <1>0, <1>1, <1>2, <1>3, <1>4, <1>5, <1>6 DEF BuildInv

LEMMA BuildNext ==
    ASSUME IInv, Next
    PROVE  BuildInv'
<1>0. TypeOK /\ BuildInv /\ PhaseInv /\ "App" \in Stack
      /\ \A i \in Image : Project[i] \in Resource
  BY Places, MembersResource DEF IInv, Stack
<1>1. ASSUME \/ \E q \in Requests : Deploy(q)
             \/ \E all \in BOOLEAN : Destroy(all)
             \/ Interrupt \/ GoOn \/ Done
             \/ \E s \in Stack : RefuseStack(s)
             \/ RollStart \/ TaskUp \/ TaskDown
      PROVE  BuildInv'
  BY <1>0, <1>1, SameBuild DEF Deploy, Destroy, Interrupt, GoOn, Done, RefuseStack,
     RollStart, TaskUp, TaskDown, world
<1>2. ASSUME \/ \E s \in Stack : Fail(s)
             \/ CircuitBreak
             \/ \E i \in Image : BuildFailed(i) \/ ProviderTimeout(i)
      PROVE  BuildInv'
  BY <1>0, <1>2, BuildFailing DEF Fail, CircuitBreak, BuildFailed, ProviderTimeout, Stack
<1>3. ASSUME NEW i \in Image, \E status \in Failures \cup {"SUCCEEDED"} : BuildEnds(i, status)
      PROVE  BuildInv'
  BY <1>3, BuildEndsKeeps
<1>4. ASSUME NEW i \in Image, NEW b \in late[i], LateBuild(i, b)
      PROVE  BuildInv'
  <2>1. UNCHANGED <<stack, made, dirty, run>>
    BY <1>4 DEF LateBuild
  <2>2. \A j \in Image : Grows(j) /\ (Is(Project[j]) => Is(Project[j])')
    BY <1>0, <1>4, <2>1, LateGrows DEF Is
  <2> QED
    BY <1>0, <2>1, <2>2, BuildKept DEF BuildInv
<1>5. ASSUME NEW i \in Image, StartBuild(i) \/ PollBuild(i)
      PROVE  BuildInv'
  BY <1>5, StartBuildKeeps, PollBuildKeeps
<1>6. ASSUME NEW s \in Stack, \/ SkipStack(s) \/ TakeStack(s) \/ TakeDelete(s)
                              \/ FinishStack(s) \/ FinishDelete(s)
      PROVE  BuildInv'
  BY <1>6, BuildMoves
<1>7. ASSUME NEW s \in Stack, NEW r \in Members[s], Put(s, r)
      PROVE  BuildInv'
  <2>1. /\ UNCHANGED <<stack, repo, dirty, run>> /\ Write(r, Target(s))
        /\ stack[s].phase \in Working
    BY <1>7 DEF Put, Ready, Working
  <2>2. \A n \in Resource : Is(n) => Is(n)'
    BY <1>0, <2>1, TargetAccepted, WriteStands
  <2> QED
    BY <1>0, <2>1, <2>2, BuildKept DEF BuildInv, Grows
<1>8. ASSUME NEW s \in Stack, NEW r \in Members[s], Drop(s, r)
      PROVE  BuildInv'
  BY <1>8, DropBuild
<1>9. ASSUME RollDone
      PROVE  BuildInv'
  <2>1. UNCHANGED <<stack, repo, dirty, run>> /\ Write("service", roll) /\ roll \in Accepted
    BY <1>0, <1>9 DEF RollDone, TypeOK
  <2>2. \A n \in Resource : Is(n) => Is(n)'
    BY <1>0, <2>1, WriteStands
  <2> QED
    BY <1>0, <2>1, <2>2, BuildKept DEF BuildInv, Grows
<1>10. ASSUME CreateUser
       PROVE  BuildInv'
  <2>1. UNCHANGED <<stack, repo, made, run>> /\ dirty' = dirty \cup {"demoUser"}
    BY <1>10 DEF CreateUser
  <2> QED
    BY <1>0, <2>1, BuildKept DEF BuildInv, Grows, Is
<1>11. ASSUME SetPassword
       PROVE  BuildInv'
  <2>1. /\ UNCHANGED <<stack, repo, run>> /\ dirty' = dirty \ {"demoUser"}
        /\ Write("demoUser", Target("App")) /\ stack["App"].phase \in Working
    BY <1>11 DEF SetPassword, Ready, Working
  <2>2. \A n \in Resource : Is(n) => Is(n)'
    BY <1>0, <2>1, TargetAccepted, WriteStands
  <2>3. \A i \in Image : Trigger[i] # "demoUser"
    BY DEF Image, Trigger
  <2> QED
    BY <1>0, <2>1, <2>2, <2>3, BuildKept DEF BuildInv, Grows
<1> QED
  BY <1>1, <1>2, <1>3, <1>4, <1>5, <1>6, <1>7, <1>8, <1>9, <1>10, <1>11 DEF Next, Engine

-----------------------------------------------------------------------------
(* The service, while it is rolled. *)

LEMMA RollKept ==
    ASSUME RollInv, roll' = roll, made'["service"] = made["service"],
           stack["App"].phase \in Working => stack'["App"].phase \in Working,
           \A n \in Needs["service"] \cap Members["App"] : Is(n) => Is(n)'
    PROVE  RollInv'
  BY DEF RollInv

(* ECS turns back to what the service was, which stands on what it needs.   *)
LEMMA RollTurned ==
    ASSUME TypeOK, OrderInv, RollInv, UNCHANGED made, TurnService("App")
    PROVE  RollInv'
<1>1. roll' = NoRequest \/ roll' = made["service"]
  BY DEF TurnService
<1>2. "App" \in Stack /\ "service" \in Members["App"]
  BY Places DEF Stack
<1>3. made["service"] # NoRequest => \A n \in Needs["service"] \cap Members["App"] : Is(n)
  BY <1>2 DEF OrderInv, Is
<1> QED
  BY <1>1, <1>3 DEF RollInv, Is

LEMMA RollFailing ==
    ASSUME IInv, NEW s \in Stack, Failing(s)
    PROVE  RollInv'
<1>0. TypeOK /\ OrderInv /\ RollInv /\ made' = made
  BY DEF IInv, Failing
<1>1. CASE s = "App"
  BY <1>0, <1>1, RollTurned DEF Failing
<1>2. CASE s # "App"
  <2>1. roll' = roll /\ stack'["App"] = stack["App"]
    BY <1>0, <1>2 DEF Failing, TurnService, TypeOK, Stack
  <2> QED
    BY <1>0, <2>1, RollKept DEF Is
<1> QED
  BY <1>1, <1>2

LEMMA RollMoves ==
    ASSUME IInv, NEW s \in Stack, \/ SkipStack(s) \/ TakeStack(s) \/ TakeDelete(s)
                                  \/ FinishStack(s) \/ FinishDelete(s)
    PROVE  RollInv'
<1>0. /\ TypeOK /\ OrderInv /\ RollInv /\ made' = made /\ "App" \in Stack
      /\ "service" \in Members["App"]
  BY Places DEF IInv, Stack, SkipStack, TakeStack, TakeDelete, FinishStack, FinishDelete, world
<1>1. CASE SkipStack(s)
  <2>1. roll' = roll
    BY <1>1 DEF SkipStack, world
  <2>2. stack' = stack \/ stack' = [stack EXCEPT ![s].plan = cli.ask]
    BY <1>1 DEF SkipStack
  <2>3. stack'["App"].phase = stack["App"].phase
    BY <1>0, <2>2 DEF TypeOK
  <2> QED
    BY <1>0, <2>1, <2>3, RollKept DEF Is
<1>2. CASE TakeStack(s)
  <2>1. roll' = roll
    BY <1>2 DEF TakeStack, world
  <2>2. s = "App" => stack'["App"].phase \in Working
    BY <1>0, <1>2 DEF TakeStack, TypeOK, Working
  <2>3. s # "App" => stack'["App"] = stack["App"]
    BY <1>0, <1>2 DEF TakeStack, TypeOK
  <2> QED
    BY <1>0, <2>1, <2>2, <2>3, RollKept DEF Is
<1>3. CASE TakeDelete(s)
  <2>1. CASE s # "App"
    <3>1. roll' = roll /\ stack'["App"] = stack["App"]
      BY <1>0, <1>3, <2>1 DEF TakeDelete, TurnService, TypeOK
    <3> QED
      BY <1>0, <3>1, RollKept DEF Is
  <2>2. CASE s = "App" /\ stack[s].phase = "creating"
    BY <1>0, <1>3, <2>2, RollTurned DEF TakeDelete
  <2>3. CASE s = "App" /\ stack[s].phase # "creating"
    <3>1. roll' = roll /\ stack["App"].phase \notin Working
      BY <1>3, <2>3 DEF TakeDelete, Removable, Settled, Working
    <3> QED
      BY <1>0, <3>1, RollKept DEF Is
  <2> QED
    BY <2>1, <2>2, <2>3
<1>4. CASE FinishStack(s)
  <2>1. roll' = roll /\ (s = "App" => roll = NoRequest)
    BY <1>4 DEF FinishStack, world
  <2>2. s # "App" => stack'["App"] = stack["App"]
    BY <1>0, <1>4 DEF FinishStack, TypeOK
  <2>3. s # "App" => RollInv'
    BY <1>0, <2>1, <2>2, RollKept DEF Is
  <2> QED
    BY <2>1, <2>3 DEF RollInv
<1>5. CASE FinishDelete(s)
  <2>1. roll' = roll
    BY <1>5 DEF FinishDelete
  <2>2. s # "App" => stack'["App"] = stack["App"]
    BY <1>0, <1>5 DEF FinishDelete, TypeOK
  <2>3. s # "App" => RollInv'
    BY <1>0, <2>1, <2>2, RollKept DEF Is
  <2>4. s = "App" => stack["App"].phase \notin Working /\ made["service"] = NoRequest
    BY <1>0, <1>5 DEF FinishDelete, Working
  <2>5. s = "App" => roll = NoRequest
    BY <1>0, <2>4 DEF RollInv
  <2> QED
    BY <2>1, <2>3, <2>5 DEF RollInv
<1> QED
  BY <1>1, <1>2, <1>3, <1>4, <1>5

LEMMA RollDrop ==
    ASSUME IInv, NEW s \in Stack, NEW r \in Members[s], Drop(s, r)
    PROVE  RollInv'
<1>0. /\ TypeOK /\ RollInv /\ "App" \in Stack /\ "service" \in Members["App"]
      /\ r \in Resource /\ Members["App"] \subseteq Resource
  BY Places, MembersResource DEF IInv, Stack
<1>1. CASE r = "service"
  BY <1>1 DEF Drop, RollInv
<1>2. CASE r # "service"
  <2>1. /\ roll' = roll /\ stack' = stack /\ stack[s].phase = "deleting"
        /\ \A n \in Resource \ {r} : made'[n] = made[n]
        /\ \A d \in Members[s] : r \in Needs[d] => made[d] = NoRequest
    BY <1>0, <1>2 DEF Drop, Write, TypeOK
  <2>2. made'["service"] = made["service"]
    BY <1>0, <1>2, <2>1
  <2>3. CASE r \notin Needs["service"] \cap Members["App"]
    <3>1. \A n \in Needs["service"] \cap Members["App"] : Is(n) => Is(n)'
      BY <1>0, <2>1, <2>3 DEF Is
    <3> QED
      BY <1>0, <2>1, <2>2, <3>1, RollKept
  <2>4. CASE r \in Needs["service"] \cap Members["App"]
    <3>1. s = "App"
      BY <1>0, <2>4, OneStack
    <3>2. made["service"] = NoRequest /\ stack["App"].phase \notin Working
      BY <1>0, <2>1, <2>4, <3>1 DEF Working
    <3>3. roll = NoRequest
      BY <1>0, <3>2 DEF RollInv
    <3> QED
      BY <2>1, <3>3 DEF RollInv
  <2> QED
    BY <2>3, <2>4
<1> QED
  BY <1>1, <1>2

(* A write of another resource leaves the roll alone. *)
LEMMA RollWrite ==
    ASSUME IInv, NEW r \in Resource \ {"service"}, NEW q \in Accepted, Write(r, q),
           UNCHANGED <<stack, roll>>
    PROVE  RollInv'
<1>1. TypeOK /\ RollInv /\ "service" \in Resource /\ Members["App"] \subseteq Resource
  BY Places, MembersResource DEF IInv, Stack
<1>2. made'["service"] = made["service"]
  BY <1>1 DEF Write, TypeOK
<1>3. \A n \in Resource : Is(n) => Is(n)'
  BY <1>1, WriteStands
<1> QED
  BY <1>1, <1>2, <1>3, RollKept

LEMMA RollNext ==
    ASSUME IInv, Next
    PROVE  RollInv'
<1>0. /\ TypeOK /\ PhaseInv /\ BuildInv /\ RollInv /\ "App" \in Stack /\ "Build" \in Stack
      /\ "demoUser" \in Resource /\ \A i \in Image : Trigger[i] \in Resource \ {"service"}
      /\ "demoUser" # "service"
  BY Places, MembersResource DEF IInv, Stack, Image, Trigger
<1>1. ASSUME UNCHANGED <<stack, made, roll>>
      PROVE  RollInv'
  BY <1>0, <1>1, RollKept DEF Is
<1>2. ASSUME \/ \E q \in Requests : Deploy(q)
             \/ \E all \in BOOLEAN : Destroy(all)
             \/ Interrupt \/ GoOn \/ Done
             \/ \E s \in Stack : RefuseStack(s)
             \/ TaskUp \/ TaskDown \/ CreateUser
      PROVE  RollInv'
  BY <1>1, <1>2 DEF Deploy, Destroy, Interrupt, GoOn, Done, RefuseStack, TaskUp, TaskDown,
     CreateUser, world
<1>3. ASSUME NEW i \in Image, \/ \E status \in Failures \cup {"SUCCEEDED"} :
                                    BuildEnds(i, status)
                              \/ \E b \in late[i] : LateBuild(i, b)
                              \/ StartBuild(i)
      PROVE  RollInv'
  BY <1>1, <1>3 DEF BuildEnds, LateBuild, StartBuild
<1>4. ASSUME \/ \E s \in Stack : Fail(s)
             \/ CircuitBreak
             \/ \E i \in Image : BuildFailed(i) \/ ProviderTimeout(i)
      PROVE  RollInv'
  BY <1>4, RollFailing DEF Fail, CircuitBreak, BuildFailed, ProviderTimeout, Stack
<1>5. ASSUME NEW s \in Stack, \/ SkipStack(s) \/ TakeStack(s) \/ TakeDelete(s)
                              \/ FinishStack(s) \/ FinishDelete(s)
      PROVE  RollInv'
  BY <1>5, RollMoves
<1>6. ASSUME NEW s \in Stack, NEW r \in Members[s], Put(s, r)
      PROVE  RollInv'
  <2>1. /\ UNCHANGED <<stack, roll>> /\ Write(r, Target(s)) /\ r \in Resource \ {"service"}
        /\ stack[s].phase \in Working
    BY <1>6 DEF Put, Ready, Working, Plain
  <2> QED
    BY <1>0, <2>1, TargetAccepted, RollWrite
<1>7. ASSUME NEW s \in Stack, NEW r \in Members[s], Drop(s, r)
      PROVE  RollInv'
  BY <1>7, RollDrop
<1>8. ASSUME NEW i \in Image, PollBuild(i)
      PROVE  RollInv'
  <2>1. /\ UNCHANGED <<stack, roll>> /\ Write(Trigger[i], Target("Build"))
        /\ stack["Build"].phase \in Working
    BY <1>0, <1>8 DEF PollBuild, BuildInv
  <2> QED
    BY <1>0, <2>1, TargetAccepted, RollWrite
<1>9. ASSUME RollStart
      PROVE  RollInv'
  <2>1. /\ UNCHANGED <<stack, made>> /\ stack["App"].phase \in Working
        /\ \A n \in Needs["service"] : Is(n)
    BY <1>9 DEF RollStart, Ready, Working, Is
  <2> QED
    BY <2>1 DEF RollInv, Is
<1>10. ASSUME RollDone
       PROVE  RollInv'
  BY <1>10 DEF RollDone, RollInv
<1>11. ASSUME SetPassword
       PROVE  RollInv'
  <2>1. /\ UNCHANGED <<stack, roll>> /\ Write("demoUser", Target("App"))
        /\ stack["App"].phase \in Working
    BY <1>11 DEF SetPassword, Ready, Working
  <2> QED
    BY <1>0, <2>1, TargetAccepted, RollWrite
<1> QED
  BY <1>2, <1>3, <1>4, <1>5, <1>6, <1>7, <1>8, <1>9, <1>10, <1>11 DEF Next, Engine

-----------------------------------------------------------------------------
(* The demo user. *)

UserPart == UserInv /\ DemoUserReady

LEMMA UserKept ==
    ASSUME UserPart, user' = user, made'["demoUser"] = made["demoUser"],
           "demoUser" \in dirty => "demoUser" \in dirty',
           stack'["App"].phase \in Settled => stack["App"].phase \in Settled
    PROVE  UserPart'
  BY DEF UserPart, UserInv, DemoUserReady, Is

LEMMA UserFailing ==
    ASSUME TypeOK, UserPart, NEW s \in Stack, Failing(s)
    PROVE  UserPart'
<1>1. UNCHANGED <<user, made, dirty>> /\ "App" \in Stack
  BY DEF Failing, Stack
<1>2. stack'["App"].phase \in Settled => stack["App"].phase \in Settled
  BY <1>1 DEF Failing, TypeOK, Settled
<1> QED
  BY <1>1, <1>2, UserKept

LEMMA UserMoves ==
    ASSUME IInv, NEW s \in Stack, \/ SkipStack(s) \/ TakeStack(s) \/ TakeDelete(s)
                                  \/ FinishStack(s) \/ FinishDelete(s)
    PROVE  UserPart'
<1>0. /\ TypeOK /\ UserPart /\ made' = made /\ user' = user /\ "App" \in Stack
      /\ "demoUser" \in Members["App"]
  BY Places DEF IInv, UserPart, Stack, SkipStack, TakeStack, TakeDelete, FinishStack,
     FinishDelete, world
<1>1. CASE SkipStack(s)
  <2>1. dirty' = dirty
    BY <1>1 DEF SkipStack, world
  <2>2. stack' = stack \/ stack' = [stack EXCEPT ![s].plan = cli.ask]
    BY <1>1 DEF SkipStack
  <2>3. stack'["App"].phase = stack["App"].phase
    BY <1>0, <2>2 DEF TypeOK
  <2> QED
    BY <1>0, <2>1, <2>3, UserKept
<1>2. CASE TakeStack(s) \/ TakeDelete(s)
  <2>1. dirty' = dirty
    BY <1>2 DEF TakeStack, TakeDelete, world
  <2>2. stack'["App"].phase \in Settled => stack["App"].phase \in Settled
    <3>1. CASE TakeStack(s)
      BY <1>0, <3>1 DEF TakeStack, TypeOK, Settled
    <3>2. CASE TakeDelete(s)
      BY <1>0, <3>2 DEF TakeDelete, TypeOK, Settled
    <3> QED
      BY <1>2, <3>1, <3>2
  <2> QED
    BY <1>0, <2>1, <2>2, UserKept
<1>3. CASE FinishStack(s)
  <2>1. dirty' = dirty /\ \A r \in Members[s] : ~Due(s, r)
    BY <1>3 DEF FinishStack, world
  <2>2. CASE s = "App"
    <3>1. Is("demoUser") /\ "demoUser" \notin dirty
      BY <1>0, <2>1, <2>2 DEF Due, Is
    <3>2. user = "permanent"
      BY <1>0, <3>1 DEF UserPart, UserInv
    <3> QED
      BY <1>0, <3>2 DEF UserPart, UserInv, DemoUserReady
  <2>3. CASE s # "App"
    <3>1. stack'["App"] = stack["App"]
      BY <1>0, <1>3, <2>3 DEF FinishStack, TypeOK
    <3> QED
      BY <1>0, <2>1, <3>1, UserKept
  <2> QED
    BY <2>2, <2>3
<1>4. CASE FinishDelete(s)
  <2>1. CASE s = "App"
    <3>1. ~Is("demoUser")' /\ stack'["App"].phase = "absent"
      BY <1>0, <1>4, <2>1 DEF FinishDelete, TypeOK, Is
    <3> QED
      BY <3>1 DEF UserPart, UserInv, DemoUserReady, Settled
  <2>2. CASE s # "App"
    <3>1. stack'["App"] = stack["App"] /\ dirty' = dirty \ Members[s]
      BY <1>0, <1>4, <2>2 DEF FinishDelete, TypeOK
    <3>2. "demoUser" \notin Members[s]
      BY <1>0, <2>2, OneStack
    <3> QED
      BY <1>0, <3>1, <3>2, UserKept
  <2> QED
    BY <2>1, <2>2
<1> QED
  BY <1>1, <1>2, <1>3, <1>4

LEMMA UserDrop ==
    ASSUME IInv, NEW s \in Stack, NEW r \in Members[s], Drop(s, r)
    PROVE  UserPart'
<1>0. /\ TypeOK /\ UserPart /\ "App" \in Stack /\ {"auth", "demoUser"} \subseteq Members["App"]
      /\ r \in Resource /\ "demoUser" \in Resource /\ "auth" \in Needs["demoUser"]
  BY Places, MembersResource DEF IInv, UserPart, Stack
<1>1. /\ stack' = stack /\ stack[s].phase = "deleting" /\ dirty' = dirty \ {r}
      /\ made' = [made EXCEPT ![r] = NoRequest]
      /\ \A d \in Members[s] : r \in Needs[d] => made[d] = NoRequest
      /\ user' = IF r = "auth" THEN "none" ELSE user
  BY DEF Drop, Write
<1>2. CASE r \in {"auth", "demoUser"}
  <2>1. s = "App"
    BY <1>0, <1>2, OneStack
  <2>2. ~Is("demoUser")'
    BY <1>0, <1>1, <1>2, <2>1 DEF TypeOK, Is
  <2> QED
    BY <1>1, <2>1, <2>2 DEF UserPart, UserInv, DemoUserReady, Settled
<1>3. CASE r \notin {"auth", "demoUser"}
  <2>1. made'["demoUser"] = made["demoUser"] /\ user' = user
    BY <1>0, <1>1, <1>3 DEF TypeOK
  <2> QED
    BY <1>0, <1>1, <1>3, <2>1, UserKept
<1> QED
  BY <1>2, <1>3

LEMMA UserWrite ==
    ASSUME IInv, NEW r \in Resource \ {"demoUser"}, NEW q, Write(r, q),
           UNCHANGED <<stack, user>>, "demoUser" \in dirty => "demoUser" \in dirty'
    PROVE  UserPart'
<1>1. TypeOK /\ UserPart /\ "demoUser" \in Resource
  BY Places, MembersResource DEF IInv, UserPart, Stack
<1>2. made'["demoUser"] = made["demoUser"]
  BY <1>1 DEF Write, TypeOK
<1> QED
  BY <1>1, <1>2, UserKept

LEMMA UserNext ==
    ASSUME IInv, Next
    PROVE  UserPart'
<1>0. /\ TypeOK /\ UserPart /\ \A i \in Image : Trigger[i] \in Resource \ {"demoUser"}
      /\ "service" \in Resource \ {"demoUser"}
  BY Places, MembersResource DEF IInv, UserPart, Stack, Image, Trigger
<1>1. ASSUME UNCHANGED <<stack, made, user>>, dirty \subseteq dirty'
      PROVE  UserPart'
  BY <1>0, <1>1, UserKept
<1>2. ASSUME \/ \E q \in Requests : Deploy(q)
             \/ \E all \in BOOLEAN : Destroy(all)
             \/ Interrupt \/ GoOn \/ Done
             \/ \E s \in Stack : RefuseStack(s)
             \/ RollStart \/ TaskUp \/ TaskDown
      PROVE  UserPart'
  BY <1>1, <1>2 DEF Deploy, Destroy, Interrupt, GoOn, Done, RefuseStack, RollStart,
     TaskUp, TaskDown, world
<1>3. ASSUME NEW i \in Image, \/ \E status \in Failures \cup {"SUCCEEDED"} :
                                    BuildEnds(i, status)
                              \/ \E b \in late[i] : LateBuild(i, b)
                              \/ StartBuild(i)
      PROVE  UserPart'
  BY <1>1, <1>3 DEF BuildEnds, LateBuild, StartBuild
<1>4. ASSUME \/ \E s \in Stack : Fail(s)
             \/ CircuitBreak
             \/ \E i \in Image : BuildFailed(i) \/ ProviderTimeout(i)
      PROVE  UserPart'
  BY <1>0, <1>4, UserFailing DEF Fail, CircuitBreak, BuildFailed, ProviderTimeout, Stack
<1>5. ASSUME NEW s \in Stack, \/ SkipStack(s) \/ TakeStack(s) \/ TakeDelete(s)
                              \/ FinishStack(s) \/ FinishDelete(s)
      PROVE  UserPart'
  BY <1>5, UserMoves
<1>6. ASSUME NEW s \in Stack, NEW r \in Members[s], Put(s, r)
      PROVE  UserPart'
  BY <1>6, UserWrite DEF Put, Plain
<1>7. ASSUME NEW s \in Stack, NEW r \in Members[s], Drop(s, r)
      PROVE  UserPart'
  BY <1>7, UserDrop
<1>8. ASSUME NEW i \in Image, PollBuild(i)
      PROVE  UserPart'
  BY <1>0, <1>8, UserWrite DEF PollBuild
<1>9. ASSUME RollDone
      PROVE  UserPart'
  BY <1>0, <1>9, UserWrite DEF RollDone
<1>10. ASSUME CreateUser
       PROVE  UserPart'
  BY <1>10 DEF CreateUser, Ready, UserPart, UserInv, DemoUserReady, Settled
<1>11. ASSUME SetPassword
       PROVE  UserPart'
  BY <1>11 DEF SetPassword, UserPart, UserInv, DemoUserReady
<1> QED
  BY <1>2, <1>3, <1>4, <1>5, <1>6, <1>7, <1>8, <1>9, <1>10, <1>11 DEF Next, Engine

-----------------------------------------------------------------------------
(* The images, and who names them.  Every step releases names, adds one     *)
(* that a plan holds already, pushes an image, or wipes a repository that   *)
(* nobody names.                                                            *)

Released ==
    /\ repo' = repo
    /\ \A j \in Image : References(j)' \subseteq References(j) \cup {NoRequest}

Referred(i, q) ==
    /\ repo' = repo
    /\ References(i)' \subseteq References(i) \cup {q, NoRequest}
    /\ \A j \in Image \ {i} : References(j)' \subseteq References(j) \cup {NoRequest}

PushedTo(i, t) ==
    /\ \E p \in {"arm64", "amd64"} : repo' = [repo EXCEPT ![i][t] = p]
    /\ \A j \in Image : References(j)' = References(j)

Wiped(i) ==
    /\ repo' = [j \in Image |-> IF j = i THEN [t \in Sources |-> "none"] ELSE repo[j]]
    /\ \A j \in Image : References(j)' = References(j)
    /\ References(i) \subseteq {NoRequest} /\ Plans(i)' \subseteq {NoRequest}
    /\ ~Is(Trigger[i])' /\ stack'["Build"].phase \notin Settled

ImageStep ==
    \/ Released
    \/ \E i \in Image : \E q \in Plans(i) \cap Accepted : Referred(i, q)
    \/ \E i \in Image, t \in Sources : PushedTo(i, t)
    \/ \E i \in Image : Wiped(i)

LEMMA ReferencesType ==
    ASSUME TypeOK, NEW i \in Image
    PROVE  Plans(i) \cup References(i) \subseteq Accepted \cup {NoRequest}
<1>1. {"runtime", "taskDef", "service"} \subseteq Resource
  BY Places, MembersResource DEF Stack
<1>2. UserStack[i] \in Stack
  BY DEF UserStack, Image, Stack
<1> QED
  BY <1>1, <1>2 DEF TypeOK, References, Plans

LEMMA ReleasedKept ==
    ASSUME UNCHANGED <<repo, made>>, roll' \in {roll, made["service"], NoRequest}
    PROVE  Released
  BY DEF Released, References

LEMMA ReleasedFailing ==
    ASSUME NEW s, Failing(s)
    PROVE  Released
<1>1. roll' \in {roll, made["service"], NoRequest}
  BY DEF Failing, TurnService
<1> QED
  BY <1>1, ReleasedKept DEF Failing

LEMMA WorkReleases ==
    ASSUME NEW s \in Stack, \/ SkipStack(s) \/ TakeStack(s) \/ TakeDelete(s)
                            \/ FinishStack(s) \/ FinishDelete(s)
    PROVE  Released
<1>1. UNCHANGED <<repo, made>>
  BY DEF SkipStack, TakeStack, TakeDelete, FinishStack, FinishDelete, world
<1>2. roll' \in {roll, made["service"], NoRequest}
  BY DEF SkipStack, TakeStack, TakeDelete, TurnService, FinishStack, FinishDelete, world
<1> QED
  BY <1>1, <1>2, ReleasedKept

LEMMA PutImages ==
    ASSUME IInv, NEW s \in Stack, NEW r \in Members[s], Put(s, r)
    PROVE  ImageStep
<1>0. /\ TypeOK /\ PhaseInv /\ r \in Resource
      /\ {"runtime", "taskDef", "service"} \subseteq Resource
      /\ "runtime" \in Members["Agent"] /\ "taskDef" \in Members["App"]
      /\ "Agent" \in Stack /\ "App" \in Stack
  BY Places, MembersResource DEF IInv, Stack
<1>1. /\ UNCHANGED <<repo, roll>> /\ made' = [made EXCEPT ![r] = Target(s)]
      /\ r # "service" /\ stack[s].phase \in Working
  BY DEF Put, Write, Plain, Ready, Working
<1>2. Target(s) \in Accepted /\ Target(s) \in {stack[s].plan, stack[s].was}
  BY <1>0, <1>1, TargetAccepted DEF Target
<1>3. CASE r = "runtime"
  <2>1. s = "Agent"
    BY <1>0, <1>3, OneStack
  <2>2. Referred("agent", Target(s))
    BY <1>0, <1>1, <1>3 DEF Referred, References, TypeOK, Image
  <2>3. Target(s) \in Plans("agent") /\ "agent" \in Image
    BY <1>2, <2>1 DEF Plans, UserStack, Image
  <2> QED
    BY <1>2, <2>2, <2>3 DEF ImageStep
<1>4. CASE r = "taskDef"
  <2>1. s = "App"
    BY <1>0, <1>4, OneStack
  <2>2. Referred("proxy", Target(s))
    BY <1>0, <1>1, <1>4 DEF Referred, References, TypeOK, Image
  <2>3. Target(s) \in Plans("proxy") /\ "proxy" \in Image
    BY <1>2, <2>1 DEF Plans, UserStack, Image
  <2> QED
    BY <1>2, <2>2, <2>3 DEF ImageStep
<1>5. CASE r \notin {"runtime", "taskDef"}
  <2>1. \A j \in Image : References(j)' = References(j)
    BY <1>0, <1>1, <1>5 DEF References, TypeOK
  <2> QED
    BY <1>1, <2>1 DEF ImageStep, Released
<1> QED
  BY <1>3, <1>4, <1>5

(* A repository goes with its stack, whose importers are gone by then. *)
LEMMA DropImages ==
    ASSUME IInv, NEW s \in Stack, NEW r \in Members[s], Drop(s, r)
    PROVE  ImageStep
<1>0. /\ TypeOK /\ PhaseInv /\ OrderInv /\ RollInv /\ r \in Resource
      /\ {"runtime", "taskDef", "service"} \subseteq Resource
      /\ "Agent" \in Stack /\ "App" \in Stack /\ "Build" \in Stack
  BY Places, MembersResource DEF IInv, Stack
<1>1. /\ made' = [made EXCEPT ![r] = NoRequest] /\ stack' = stack
      /\ roll' = IF r = "service" THEN NoRequest ELSE roll
      /\ repo' = [j \in Image |-> IF r = Repo[j] THEN [t \in Sources |-> "none"] ELSE repo[j]]
      /\ stack[s].phase = "deleting"
      /\ \A d \in Members[s] : r \in Needs[d] => made[d] = NoRequest
  BY DEF Drop, Write
<1>2. CASE \A i \in Image : r # Repo[i]
  <2>1. repo' = repo
    BY <1>0, <1>1, <1>2 DEF TypeOK
  <2>2. \A n \in Resource : made'[n] \in {made[n], NoRequest}
    BY <1>0, <1>1 DEF TypeOK
  <2>3. \A j \in Image : References(j)' \subseteq References(j) \cup {NoRequest}
    BY <1>0, <1>1, <2>2 DEF References
  <2> QED
    BY <2>1, <2>3 DEF ImageStep, Released
<1>3. ASSUME NEW i \in Image, r = Repo[i]
      PROVE  Wiped(i)
  <2>1. s = "Build"
    BY <1>0, <1>3, OneStack, Places
  <2>2. stack["Agent"].phase = "absent" /\ stack["App"].phase = "absent"
    BY <1>0, <1>1, <2>1, ImportsAre, ImportsStand
  <2>3. \A j \in Image \ {i} : r # Repo[j]
    BY <1>3, Places
  <2>4. repo' = [j \in Image |-> IF j = i THEN [t \in Sources |-> "none"] ELSE repo[j]]
    BY <1>1, <1>3, <2>3
  <2>5. /\ made["runtime"] = NoRequest /\ made["taskDef"] = NoRequest
        /\ made["service"] = NoRequest
    BY <1>0, <2>2, Places DEF PhaseInv, Is
  <2>6. roll = NoRequest
    BY <1>0, <2>2, <2>5 DEF RollInv, Working
  <2>7. r \notin {"runtime", "taskDef", "service"}
    BY <1>3 DEF Repo, Image
  <2>8. \A j \in Image : References(j)' = References(j) /\ References(j) \subseteq {NoRequest}
    BY <1>0, <1>1, <2>5, <2>6, <2>7 DEF References, TypeOK
  <2>9. Plans(i)' \subseteq {NoRequest}
    BY <1>0, <1>1, <2>2 DEF Plans, UserStack, Image, PhaseInv
  <2>10. ~Is(Project[i]) /\ ~Is(Trigger[i])
    BY <1>0, <1>1, <1>3, <2>1, Places DEF OrderInv, Is
  <2>11. ~Is(Trigger[i])'
    BY <1>0, <1>1, <2>10, Places, MembersResource DEF Is, TypeOK
  <2> QED
    BY <1>1, <2>1, <2>4, <2>8, <2>9, <2>11 DEF Wiped, Settled
<1> QED
  BY <1>2, <1>3 DEF ImageStep

LEMMA WriteReleases ==
    ASSUME TypeOK, NEW r \in Resource \ {"runtime", "taskDef"}, NEW q, Write(r, q),
           repo' = repo, roll' \in {roll, NoRequest}, r = "service" => q = roll
    PROVE  Released
<1>1. {"runtime", "taskDef", "service"} \subseteq Resource
  BY Places, MembersResource DEF Stack
<1>2. /\ made'["runtime"] = made["runtime"] /\ made'["taskDef"] = made["taskDef"]
      /\ made'["service"] \in {made["service"], roll}
  BY <1>1 DEF Write, TypeOK
<1> QED
  BY <1>2 DEF Released, References

LEMMA ImageNext ==
    ASSUME IInv, Next
    PROVE  ImageStep
<1>0. /\ TypeOK /\ PhaseInv /\ "App" \in Stack
      /\ \A i \in Image : Trigger[i] \in Resource \ {"runtime", "taskDef", "service"}
      /\ {"service", "demoUser"} \subseteq Resource
  BY Places, MembersResource DEF IInv, Stack, Image, Trigger
<1>1. ASSUME \/ \E q \in Requests : Deploy(q)
             \/ \E all \in BOOLEAN : Destroy(all)
             \/ Interrupt \/ GoOn \/ Done
             \/ \E s \in Stack : RefuseStack(s)
             \/ TaskUp \/ TaskDown \/ CreateUser
             \/ \E i \in Image : StartBuild(i)
      PROVE  Released
  BY <1>1, ReleasedKept DEF Deploy, Destroy, Interrupt, GoOn, Done, RefuseStack, TaskUp,
     TaskDown, CreateUser, StartBuild, world
<1>2. ASSUME \/ \E s \in Stack : Fail(s)
             \/ CircuitBreak
             \/ \E i \in Image : BuildFailed(i) \/ ProviderTimeout(i)
      PROVE  Released
  BY <1>2, ReleasedFailing DEF Fail, CircuitBreak, BuildFailed, ProviderTimeout
<1>3. ASSUME NEW i \in Image, NEW status \in Failures \cup {"SUCCEEDED"}, BuildEnds(i, status)
      PROVE  ImageStep
  <2>1. /\ UNCHANGED <<made, roll>> /\ run[i] # NoBuild
        /\ repo' = IF status = "SUCCEEDED" THEN Pushed(i, run[i]) ELSE repo
    BY <1>3 DEF BuildEnds
  <2>2. run[i].tag \in Sources /\ run[i].platform \in {"arm64", "amd64"}
    BY <1>0, <2>1, WaitedIs
  <2>3. \A j \in Image : References(j)' = References(j)
    BY <2>1 DEF References
  <2>4. Released \/ PushedTo(i, run[i].tag)
    BY <2>1, <2>2, <2>3 DEF Released, PushedTo, Pushed
  <2> QED
    BY <2>2, <2>4 DEF ImageStep
<1>4. ASSUME NEW i \in Image, NEW b \in late[i], LateBuild(i, b)
      PROVE  ImageStep
  <2>1. UNCHANGED <<made, roll>> /\ (repo' = repo \/ repo' = Pushed(i, b))
    BY <1>4 DEF LateBuild
  <2>2. b.tag \in Sources /\ b.platform \in {"arm64", "amd64"}
    BY <1>0 DEF TypeOK, Build
  <2>3. \A j \in Image : References(j)' = References(j)
    BY <2>1 DEF References
  <2>4. Released \/ PushedTo(i, b.tag)
    BY <2>1, <2>2, <2>3 DEF Released, PushedTo, Pushed
  <2> QED
    BY <2>2, <2>4 DEF ImageStep
<1>5. ASSUME NEW s \in Stack, \/ SkipStack(s) \/ TakeStack(s) \/ TakeDelete(s)
                              \/ FinishStack(s) \/ FinishDelete(s)
      PROVE  Released
  BY <1>5, WorkReleases
<1>6. ASSUME NEW s \in Stack, NEW r \in Members[s], Put(s, r) \/ Drop(s, r)
      PROVE  ImageStep
  BY <1>6, PutImages, DropImages
<1>7. ASSUME NEW i \in Image, PollBuild(i)
      PROVE  Released
  BY <1>0, <1>7, WriteReleases DEF PollBuild
<1>8. ASSUME RollStart
      PROVE  ImageStep
  <2>1. UNCHANGED <<repo, made>> /\ roll' = Target("App") /\ stack["App"].phase \in Working
    BY <1>8 DEF RollStart, Ready, Working
  <2>2. Target("App") \in Accepted /\ Target("App") \in Plans("proxy")
    BY <1>0, <2>1, TargetAccepted DEF Target, Plans, UserStack
  <2>3. Referred("proxy", Target("App")) /\ "proxy" \in Image
    BY <2>1 DEF Referred, References, Image
  <2> QED
    BY <2>2, <2>3 DEF ImageStep
<1>9. ASSUME RollDone
      PROVE  Released
  BY <1>0, <1>9, WriteReleases DEF RollDone
<1>10. ASSUME SetPassword
       PROVE  Released
  BY <1>0, <1>10, WriteReleases DEF SetPassword
<1>11. Released => ImageStep
  BY DEF ImageStep
<1> QED
  BY <1>1, <1>2, <1>3, <1>4, <1>5, <1>6, <1>7, <1>8, <1>9, <1>10, <1>11 DEF Next, Engine

-----------------------------------------------------------------------------
(* An image that somebody names stays. *)

LEMMA StaysPullable ==
    ASSUME NEW i \in Image, NEW q \in Accepted, Pullable(q, i), Grows(i)
    PROVE  Pullable(q, i)'
  BY RequestsAre DEF Pullable, Grows

LEMMA StepGrows ==
    ASSUME TypeOK, ImageStep, NEW i \in Image
    PROVE  Grows(i) \/ Wiped(i)
<1>1. CASE repo' = repo
  BY <1>1 DEF Grows
<1>2. ASSUME NEW j \in Image, NEW t \in Sources, PushedTo(j, t)
      PROVE  Grows(i)
  BY <1>2, PushedGrows DEF PushedTo
<1>3. ASSUME NEW j \in Image, Wiped(j), j # i
      PROVE  Grows(i)
  BY <1>3 DEF Wiped, Grows
<1> QED
  BY <1>1, <1>2, <1>3 DEF ImageStep, Released, Referred

(* What a deployment turns to next is there: the builds are done with. *)
LEMMA AskedPullable ==
    ASSUME IInv, NEW i \in Image, MayTurnTo(UserStack[i]), cli.mode = "deploy"
    PROVE  Pullable(cli.ask, i)
<1>1. StackInv /\ ImageInv
  BY DEF IInv, StackInv
<1>2. UserStack[i] \in Stack /\ "Build" \in StackDeps[UserStack[i]] \cap (Stack \ {UserStack[i]})
  BY DEF UserStack, Image, Stack, StackDeps, Explicit
<1>3. stack["Build"].phase \in Settled /\ stack["Build"].plan = cli.ask
  BY <1>1, <1>2, TurnedTo
<1> QED
  BY <1>1, <1>3 DEF ImageInv

LEMMA PlansMove ==
    ASSUME IInv, NEW s \in Stack, \/ SkipStack(s) \/ TakeStack(s) \/ TakeDelete(s)
                                  \/ FinishStack(s) \/ FinishDelete(s),
           NEW i \in Image, NEW q \in Plans(i)' \ {NoRequest}
    PROVE  q \in Plans(i) \/ Pullable(q, i)
<1>0. TypeOK /\ UserStack[i] \in Stack
  BY DEF IInv, UserStack, Image, Stack
<1>1. CASE s # UserStack[i]
  <2>1. stack'[UserStack[i]] = stack[UserStack[i]]
    <3>1. CASE SkipStack(s)
      BY <1>0, <1>1, <3>1 DEF SkipStack, TypeOK
    <3>2. CASE TakeStack(s)
      BY <1>0, <1>1, <3>2 DEF TakeStack, TypeOK
    <3>3. CASE TakeDelete(s)
      BY <1>0, <1>1, <3>3 DEF TakeDelete, TypeOK
    <3>4. CASE FinishStack(s)
      BY <1>0, <1>1, <3>4 DEF FinishStack, TypeOK
    <3>5. CASE FinishDelete(s)
      BY <1>0, <1>1, <3>5 DEF FinishDelete, TypeOK
    <3> QED
      BY <3>1, <3>2, <3>3, <3>4, <3>5
  <2> QED
    BY <2>1 DEF Plans
<1>2. CASE s = UserStack[i]
  <2>1. CASE SkipStack(s)
    <3>1. \/ stack' = stack
          \/ /\ cli.mode = "deploy" /\ MayTurnTo(s)
             /\ stack' = [stack EXCEPT ![s].plan = cli.ask]
      BY <2>1 DEF SkipStack
    <3>2. CASE stack' = stack
      BY <3>2 DEF Plans
    <3>3. CASE /\ cli.mode = "deploy" /\ MayTurnTo(s)
               /\ stack' = [stack EXCEPT ![s].plan = cli.ask]
      <4>1. Pullable(cli.ask, i)
        BY <1>2, <3>3, AskedPullable
      <4>2. stack'[s].plan = cli.ask /\ stack'[s].was = stack[s].was
        BY <1>0, <3>3 DEF TypeOK
      <4> QED
        BY <1>2, <4>1, <4>2 DEF Plans
    <3> QED
      BY <3>1, <3>2, <3>3
  <2>2. CASE TakeStack(s)
    <3>1. Pullable(cli.ask, i)
      BY <1>2, <2>2, AskedPullable DEF TakeStack
    <3>2. stack'[s].plan = cli.ask /\ stack'[s].was = stack[s].plan
      BY <1>0, <2>2 DEF TakeStack, TypeOK
    <3> QED
      BY <1>2, <3>1, <3>2 DEF Plans
  <2>3. CASE TakeDelete(s)
    <3>1. stack'[s].plan = stack[s].plan /\ stack'[s].was = stack[s].was
      BY <1>0, <2>3 DEF TakeDelete, TypeOK
    <3> QED
      BY <1>2, <3>1 DEF Plans
  <2>4. CASE FinishStack(s)
    <3>1. stack'[s].plan = Target(s) /\ stack'[s].was = NoRequest
      BY <1>0, <2>4 DEF FinishStack, TypeOK
    <3> QED
      BY <1>2, <3>1 DEF Plans, Target
  <2>5. CASE FinishDelete(s)
    <3>1. stack'[s].plan = NoRequest /\ stack'[s].was = NoRequest
      BY <1>0, <2>5 DEF FinishDelete, TypeOK
    <3> QED
      BY <1>2, <3>1 DEF Plans
  <2> QED
    BY <2>1, <2>2, <2>3, <2>4, <2>5
<1> QED
  BY <1>1, <1>2

LEMMA PlansFailing ==
    ASSUME TypeOK, NEW s \in Stack, Failing(s), NEW i \in Image
    PROVE  Plans(i)' = Plans(i)
<1>1. UserStack[i] \in Stack
  BY DEF UserStack, Image, Stack
<1>2. \A t \in Stack : stack'[t].plan = stack[t].plan /\ stack'[t].was = stack[t].was
  BY DEF Failing, TypeOK
<1> QED
  BY <1>1, <1>2 DEF Plans

(* The settled plan of the builds' stack, the request of a trigger. *)
LEMMA BuildSettles ==
    ASSUME IInv, NEW s \in Stack, \/ SkipStack(s) \/ TakeStack(s) \/ TakeDelete(s)
                                  \/ FinishStack(s) \/ FinishDelete(s),
           stack'["Build"].phase \in Settled, NEW i \in Image
    PROVE  stack'["Build"].plan \in Accepted /\ Pullable(stack'["Build"].plan, i)
<1>0. /\ TypeOK /\ StackInv /\ ImageInv /\ PhaseInv /\ "Build" \in Stack
      /\ Trigger[i] \in Members["Build"]
  BY Places DEF IInv, StackInv, Stack
<1>1. CASE stack'["Build"] = stack["Build"]
  BY <1>0, <1>1 DEF ImageInv, PhaseInv, Settled
<1>2. CASE SkipStack(s) /\ stack'["Build"] # stack["Build"]
  <2>1. /\ cli.mode = "deploy" /\ MayTurnTo(s) /\ Unchanged(s)
        /\ stack' = [stack EXCEPT ![s].plan = cli.ask]
    BY <1>2 DEF SkipStack
  <2>2. s = "Build" /\ stack'["Build"].plan = cli.ask
    BY <1>0, <1>2, <2>1 DEF TypeOK
  <2>3. stack["Build"].phase \in Settled /\ ~Differs(Trigger[i], stack["Build"].plan, cli.ask)
    BY <1>0, <2>1, <2>2 DEF Unchanged
  <2>4. Source[stack["Build"].plan][i] = Source[cli.ask][i]
    BY <2>3, SameTag
  <2>5. cli.ask \in Accepted
    BY <1>0, <2>1, TurnedTo
  <2> QED
    BY <1>0, <2>2, <2>3, <2>4, <2>5 DEF ImageInv, Pullable
<1>3. CASE (TakeStack(s) \/ TakeDelete(s)) /\ stack'["Build"] # stack["Build"]
  <2>1. CASE TakeStack(s)
    BY <1>0, <1>3, <2>1 DEF TakeStack, TypeOK, Settled
  <2>2. CASE TakeDelete(s)
    BY <1>0, <1>3, <2>2 DEF TakeDelete, TypeOK, Settled
  <2> QED
    BY <1>3, <2>1, <2>2
<1>4. CASE FinishStack(s) /\ stack'["Build"] # stack["Build"]
  <2>1. s = "Build" /\ stack'["Build"].plan = Target("Build")
    BY <1>0, <1>4 DEF FinishStack, TypeOK
  <2>2. ~Due("Build", Trigger[i]) /\ stack["Build"].phase \in Working
    BY <1>0, <1>4, <2>1 DEF FinishStack, Working
  <2>3. Is(Trigger[i]) /\ ~Differs(Trigger[i], made[Trigger[i]], Target("Build"))
    BY <2>2 DEF Due, Is
  <2>4. Source[made[Trigger[i]]][i] = Source[Target("Build")][i]
    BY <2>3, SameTag
  <2>5. Target("Build") \in Accepted
    BY <1>0, <2>2, TargetAccepted
  <2> QED
    BY <1>0, <2>1, <2>3, <2>4, <2>5 DEF ImageInv, Pullable
<1>5. CASE FinishDelete(s) /\ stack'["Build"] # stack["Build"]
  BY <1>0, <1>5 DEF FinishDelete, TypeOK, Settled
<1> QED
  BY <1>1, <1>2, <1>3, <1>4, <1>5

LEMMA PollPullable ==
    ASSUME IInv, NEW i \in Image, PollBuild(i)
    PROVE  Target("Build") \in Accepted /\ Pullable(Target("Build"), i)
<1>1. /\ TypeOK /\ PhaseInv /\ BuildInv /\ "Build" \in Stack
      /\ run[i] # NoBuild /\ run[i].status = "SUCCEEDED"
  BY DEF IInv, PollBuild, IsComplete, Stack
<1>2. Target("Build") \in Accepted
  BY <1>1, TargetAccepted DEF BuildInv
<1> QED
  BY <1>1, <1>2 DEF BuildInv, Pullable

(* What the steps do to the plans, the triggers and the builds' stack. *)
PlansStep ==
    \A i \in Image :
        /\ \A q \in Plans(i)' \ {NoRequest} : q \in Plans(i) \/ Pullable(q, i)
        /\ \/ made'[Trigger[i]] \in {made[Trigger[i]], NoRequest}
           \/ made'[Trigger[i]] \in Accepted /\ Pullable(made'[Trigger[i]], i)
        /\ stack'["Build"].phase \in Settled =>
              stack'["Build"].plan \in Accepted /\ Pullable(stack'["Build"].plan, i)

LEMMA PlansKept ==
    ASSUME IInv, UNCHANGED stack,
           \A i \in Image : \/ made'[Trigger[i]] \in {made[Trigger[i]], NoRequest}
                            \/ made'[Trigger[i]] \in Accepted /\ Pullable(made'[Trigger[i]], i)
    PROVE  PlansStep
<1>1. ImageInv /\ PhaseInv /\ "Build" \in Stack
  BY DEF IInv, Stack
<1>2. stack["Build"].phase \in Settled => stack["Build"].plan \in Accepted
  BY <1>1 DEF PhaseInv, Settled
<1> QED
  BY <1>1, <1>2 DEF PlansStep, Plans, ImageInv

LEMMA PlansNext ==
    ASSUME IInv, Next
    PROVE  PlansStep
<1>0. /\ TypeOK /\ \A i \in Image : Trigger[i] \in Resource \ {"service", "demoUser"}
      /\ \A i, j \in Image : i # j => Trigger[i] # Trigger[j]
      /\ \A i \in Image : Trigger[i] \notin Plain
  BY Places, MembersResource DEF IInv, Stack, Image, Trigger
<1>1. ASSUME UNCHANGED <<stack, made>>
      PROVE  PlansStep
  BY <1>1, PlansKept
<1>2. ASSUME \/ \E q \in Requests : Deploy(q)
             \/ \E all \in BOOLEAN : Destroy(all)
             \/ Interrupt \/ GoOn \/ Done
             \/ \E s \in Stack : RefuseStack(s)
             \/ RollStart \/ TaskUp \/ TaskDown \/ CreateUser
      PROVE  PlansStep
  BY <1>1, <1>2 DEF Deploy, Destroy, Interrupt, GoOn, Done, RefuseStack, RollStart, TaskUp,
     TaskDown, CreateUser, world
<1>3. ASSUME NEW i \in Image, \/ \E status \in Failures \cup {"SUCCEEDED"} :
                                    BuildEnds(i, status)
                              \/ \E b \in late[i] : LateBuild(i, b)
                              \/ StartBuild(i)
      PROVE  PlansStep
  BY <1>1, <1>3 DEF BuildEnds, LateBuild, StartBuild
<1>4. ASSUME NEW s \in Stack, Failing(s)
      PROVE  PlansStep
  <2>1. made' = made /\ (stack'["Build"].phase \in Settled => stack'["Build"] = stack["Build"])
    BY <1>0, <1>4 DEF Failing, TypeOK, Settled, Stack
  <2>2. \A i \in Image : Plans(i)' = Plans(i)
    BY <1>0, <1>4, PlansFailing
  <2>3. stack["Build"].phase \in Settled =>
            \A i \in Image : stack["Build"].plan \in Accepted /\ Pullable(stack["Build"].plan, i)
    BY DEF IInv, ImageInv, PhaseInv, Settled, Stack
  <2> QED
    BY <2>1, <2>2, <2>3 DEF PlansStep
<1>5. ASSUME \/ \E s \in Stack : Fail(s)
             \/ CircuitBreak
             \/ \E i \in Image : BuildFailed(i) \/ ProviderTimeout(i)
      PROVE  PlansStep
  BY <1>4, <1>5 DEF Fail, CircuitBreak, BuildFailed, ProviderTimeout, Stack
<1>6. ASSUME NEW s \in Stack, \/ SkipStack(s) \/ TakeStack(s) \/ TakeDelete(s)
                              \/ FinishStack(s) \/ FinishDelete(s)
      PROVE  PlansStep
  <2>1. made' = made
    BY <1>6 DEF SkipStack, TakeStack, TakeDelete, FinishStack, FinishDelete, world
  <2>2. \A i \in Image : \A q \in Plans(i)' \ {NoRequest} : q \in Plans(i) \/ Pullable(q, i)
    BY <1>6, PlansMove
  <2>3. \A i \in Image : stack'["Build"].phase \in Settled =>
            stack'["Build"].plan \in Accepted /\ Pullable(stack'["Build"].plan, i)
    BY <1>6, BuildSettles
  <2> QED
    BY <2>1, <2>2, <2>3 DEF PlansStep
<1>7. ASSUME NEW s \in Stack, NEW r \in Members[s], Put(s, r)
      PROVE  PlansStep
  <2>1. stack' = stack /\ \A i \in Image : made'[Trigger[i]] = made[Trigger[i]]
    BY <1>0, <1>7 DEF Put, Write, TypeOK
  <2> QED
    BY <2>1, PlansKept
<1>8. ASSUME NEW s \in Stack, NEW r \in Members[s], Drop(s, r)
      PROVE  PlansStep
  <2>1. stack' = stack
        /\ \A i \in Image : made'[Trigger[i]] \in {made[Trigger[i]], NoRequest}
    BY <1>0, <1>8 DEF Drop, Write, TypeOK
  <2> QED
    BY <2>1, PlansKept
<1>9. ASSUME NEW i \in Image, PollBuild(i)
      PROVE  PlansStep
  <2>1. /\ stack' = stack /\ made'[Trigger[i]] = Target("Build")
        /\ \A j \in Image \ {i} : made'[Trigger[j]] = made[Trigger[j]]
    BY <1>0, <1>9 DEF PollBuild, Write, TypeOK
  <2> QED
    BY <1>9, <2>1, PollPullable, PlansKept
<1>10. ASSUME RollDone \/ SetPassword
       PROVE  PlansStep
  <2>1. stack' = stack /\ \A i \in Image : made'[Trigger[i]] = made[Trigger[i]]
    BY <1>0, <1>10 DEF RollDone, SetPassword, Write, TypeOK
  <2> QED
    BY <2>1, PlansKept
<1> QED
  BY <1>2, <1>3, <1>5, <1>6, <1>7, <1>8, <1>9, <1>10 DEF Next, Engine

LEMMA NamesNext ==
    ASSUME ImageStep, NEW i \in Image, NEW q \in References(i)' \ {NoRequest}
    PROVE  q \in References(i) \cup Plans(i)
<1>1. CASE Released
  BY <1>1 DEF Released
<1>2. ASSUME NEW j \in Image, NEW p \in Plans(j) \cap Accepted, Referred(j, p)
      PROVE  q \in References(i) \cup Plans(i)
  BY <1>2 DEF Referred
<1>3. ASSUME NEW j \in Image, Wiped(j) \/ \E t \in Sources : PushedTo(j, t)
      PROVE  q \in References(i) \cup Plans(i)
  BY <1>3 DEF Wiped, PushedTo
<1> QED
  BY <1>1, <1>2, <1>3 DEF ImageStep

LEMMA ImageInvNext ==
    ASSUME IInv, TypeOK', ImageStep, PlansStep
    PROVE  ImageInv'
<1>0. /\ TypeOK /\ ImageInv
      /\ \A i \in Image : Trigger[i] \in Resource
      /\ NoRequest \notin Accepted
  BY Places, MembersResource, RequestsAre DEF IInv, Stack
<1>1. ASSUME NEW i \in Image, NEW q \in (Plans(i)' \cup References(i)') \ {NoRequest}
      PROVE  Pullable(q, i)'
  <2>1. Pullable(q, i)
    BY <1>0, <1>1, NamesNext DEF PlansStep, ImageInv
  <2>2. Plans(i)' \cup References(i)' \subseteq Accepted \cup {NoRequest}
    <3>1. {"runtime", "taskDef", "service"} \subseteq Resource /\ UserStack[i] \in Stack
      BY Places, MembersResource DEF Stack, UserStack, Image
    <3> QED
      BY <3>1 DEF TypeOK, References, Plans
  <2>3. CASE Grows(i)
    BY <1>1, <2>1, <2>2, <2>3, StaysPullable
  <2>4. CASE Wiped(i)
    BY <1>1, <2>4 DEF Wiped
  <2> QED
    BY <1>0, <2>3, <2>4, StepGrows
<1>2. ASSUME NEW i \in Image, Is(Trigger[i])'
      PROVE  Pullable(made[Trigger[i]], i)'
  <2>1. Grows(i)
    BY <1>0, <1>2, StepGrows DEF Wiped
  <2>2. made'[Trigger[i]] \in Accepted /\ Pullable(made'[Trigger[i]], i)
    BY <1>0, <1>2 DEF PlansStep, ImageInv, Is, TypeOK
  <2>3. \A q \in Accepted : Pullable(q, i) => Pullable(q, i)'
    BY <2>1, StaysPullable
  <2> QED
    BY <2>2, <2>3 DEF Pullable
<1>3. ASSUME stack'["Build"].phase \in Settled, NEW i \in Image
      PROVE  Pullable(stack["Build"].plan, i)'
  <2>1. Grows(i)
    BY <1>0, <1>3, StepGrows DEF Wiped
  <2>2. stack'["Build"].plan \in Accepted /\ Pullable(stack'["Build"].plan, i)
    BY <1>3 DEF PlansStep
  <2>3. \A q \in Accepted : Pullable(q, i) => Pullable(q, i)'
    BY <2>1, StaysPullable
  <2> QED
    BY <2>2, <2>3 DEF Pullable
<1> QED
  BY <1>1, <1>2, <1>3 DEF ImageInv

-----------------------------------------------------------------------------
(* The invariant, and what follows from it. *)

LEMMA InvInit == Init => IInv
<1> SUFFICES ASSUME Init
             PROVE  IInv
  OBVIOUS
<1> USE ConstantsAssumption
<1>1. /\ \A s \in Stack : stack[s] = [phase |-> "absent", plan |-> NoRequest, was |-> NoRequest]
      /\ \A r \in Resource : ~Is(r)
  BY DEF Init, Is
<1>2. \A s \in Stack : Members[s] \subseteq Resource
  BY MembersResource
<1>3. {"runtime", "taskDef", "service", "demoUser"} \subseteq Resource
      /\ \A i \in Image : Trigger[i] \in Resource /\ UserStack[i] \in Stack
  BY Places, MembersResource DEF Stack, UserStack, Image
<1>4. TypeOK
  BY InitType
<1>5. CommandInv
  BY DEF Init, CommandInv
<1>6. PhaseInv
  BY <1>1, <1>2 DEF PhaseInv, Whole, Settled
<1>7. OrderInv
  BY <1>1, <1>2 DEF OrderInv
<1>8. BuildInv /\ RollInv
  BY DEF Init, BuildInv, RollInv
<1>9. ImageInv
  <2>1. \A i \in Image : Plans(i) \subseteq {NoRequest}
    BY <1>1, <1>3 DEF Plans
  <2>2. \A i \in Image : References(i) \subseteq {NoRequest}
    BY <1>1, <1>3 DEF Init, References, Is
  <2> QED
    BY <1>1, <1>3, <2>1, <2>2 DEF ImageInv, Settled, Stack
<1>10. UserInv /\ DemoUserReady
  BY <1>1, <1>3 DEF UserInv, DemoUserReady, Settled, Stack
<1> QED
  BY <1>4, <1>5, <1>6, <1>7, <1>8, <1>9, <1>10 DEF IInv

LEMMA InvNext == IInv /\ [Next]_vars => IInv'
<1>1. ASSUME IInv, Next
      PROVE  IInv'
  <2>1. TypeOK'
    BY <1>1, TypeNext DEF IInv
  <2>2. CommandInv'
    BY <1>1, CommandNext DEF IInv
  <2>3. PhaseInv' /\ OrderInv'
    BY <1>1, StackNext
  <2>4. BuildInv' /\ RollInv'
    BY <1>1, BuildNext, RollNext
  <2>5. ImageInv'
    BY <1>1, <2>1, ImageNext, PlansNext, ImageInvNext
  <2>6. UserInv' /\ DemoUserReady'
    BY <1>1, UserNext DEF UserPart
  <2> QED
    BY <2>1, <2>2, <2>3, <2>4, <2>5, <2>6 DEF IInv
<1>2. ASSUME IInv, UNCHANGED vars
      PROVE  IInv'
  <2>1. TypeOK' /\ CommandInv'
    BY <1>2 DEF IInv, vars, TypeOK, CommandInv
  <2>2. PhaseInv' /\ OrderInv'
    BY <1>2, StackKept DEF IInv, vars
  <2>3. BuildInv' /\ RollInv'
    BY <1>2, SameBuild, RollKept DEF IInv, vars, Is
  <2>4. ImageInv'
    BY <1>2 DEF IInv, vars, ImageInv, Is, Pullable, Plans, References
  <2>5. UserInv' /\ DemoUserReady'
    BY <1>2 DEF IInv, vars, UserInv, DemoUserReady, Is
  <2> QED
    BY <2>1, <2>2, <2>3, <2>4, <2>5 DEF IInv
<1> QED
  BY <1>1, <1>2

(* Every deployment, with any requests, bounds and failures, keeps the      *)
(* invariant: what the phases of the stacks say of the resources, what the  *)
(* builds and the service stand on, and which images are there.             *)
THEOREM Inductive == Spec => []IInv
  BY InvInit, InvNext, PTL DEF Spec

(* The state of a deployment has its types. *)
THEOREM TypeCorrect == Spec => []TypeOK
<1>1. IInv => TypeOK
  BY DEF IInv
<1> QED
  BY Inductive, <1>1, PTL

(* Once the stack of the site is there, its user can log in: the handler of *)
(* the demo user may fail between the creation and the password, but the    *)
(* stack is not complete then.                                              *)
THEOREM UserReady == Spec => []DemoUserReady
<1>1. IInv => DemoUserReady
  BY DEF IInv
<1> QED
  BY Inductive, <1>1, PTL

(* Within a stack a resource stands on what its entry refers to. *)
LEMMA Beside ==
    ASSUME IInv, NEW s \in Stack, NEW r \in Members[s], Is(r),
           NEW n \in Needs[r] \cap Members[s]
    PROVE  Is(n)
  BY DEF IInv, OrderInv

(* ... and on everything in the stacks that its own imports from. *)
LEMMA Under ==
    ASSUME IInv, NEW s \in Stack, NEW r \in Members[s], Is(r),
           NEW t \in Imports[s], NEW n \in Members[t]
    PROVE  Is(n)
<1>1. stack[s].phase # "absent"
  BY DEF IInv, PhaseInv
<1> QED
  BY <1>1 DEF IInv, OrderInv

LEMMA DataStands ==
    ASSUME IInv
    PROVE  /\ Is("agentTrigger") => Is("agentRepo") /\ Is("agentProject")
           /\ Is("proxyTrigger") => Is("proxyRepo") /\ Is("proxyProject")
           /\ Is("index") => /\ Is("provisioner") /\ Is("endpoints")
                             /\ Is("agentRole") /\ Is("proxyRole")
<1>1. "Build" \in Stack /\ "Data" \in Stack
  BY DEF Stack
<1>2. ASSUME NEW i \in Image, Is(Trigger[i])
      PROVE  Is(Repo[i]) /\ Is(Project[i])
  <2>1. Is(Project[i])
    BY <1>1, <1>2, Places, Beside
  <2> QED
    BY <1>1, <2>1, Places, Beside
<1>3. ASSUME Is("index")
      PROVE  Is("provisioner") /\ Is("endpoints") /\ Is("agentRole") /\ Is("proxyRole")
  <2>1. /\ {"index", "provisioner", "agentRole", "proxyRole"} \subseteq Members["Data"]
        /\ {"provisioner", "agentRole", "proxyRole"} \subseteq Needs["index"]
    BY MembersAt, DataMembers, NeedsAt
  <2>2. "endpoints" \in Members["Network"] /\ "Network" \in Imports["Data"]
    BY MembersAt, VpcMembers, ImportsAre
  <2>3. Is("provisioner") /\ Is("agentRole") /\ Is("proxyRole")
    BY <1>1, <1>3, <2>1, Beside
  <2>4. Is("endpoints")
    BY <1>1, <1>3, <2>1, <2>2, Under
  <2> QED
    BY <2>3, <2>4
<1>4. /\ Trigger["agent"] = "agentTrigger" /\ Trigger["proxy"] = "proxyTrigger"
      /\ Repo["agent"] = "agentRepo" /\ Repo["proxy"] = "proxyRepo"
      /\ Project["agent"] = "agentProject" /\ Project["proxy"] = "proxyProject"
      /\ "agent" \in Image /\ "proxy" \in Image
  BY DEF Trigger, Repo, Project, Image
<1> QED
  BY <1>2, <1>3, <1>4

LEMMA RuntimeStands ==
    ASSUME IInv, Is("runtime")
    PROVE  \A n \in {"agentTrigger", "agentGrants", "endpoints", "s3Egress", "index"} : Is(n)
<1>1. "Agent" \in Stack /\ "runtime" \in Members["Agent"]
  BY Places DEF Stack
<1>2. /\ "agentTrigger" \in Members["Build"] /\ {"agentGrants", "index"} \subseteq Members["Data"]
      /\ {"endpoints", "s3Egress"} \subseteq Members["Network"]
  BY MembersAt, VpcMembers, BuildMembers, DataMembers
<1>3. \A t \in {"Network", "Build", "Data"} : \A n \in Members[t] : Is(n)
  BY <1>1, ImportsAre, Under
<1> QED
  BY <1>2, <1>3

LEMMA SiteStands ==
    ASSUME IInv
    PROVE  /\ Is("service") =>
                \A n \in {"proxyTrigger", "proxyGrants", "endpoints", "s3Egress",
                          "listener", "runtime", "auth"} : Is(n)
           /\ Is("demoUser") => Is("auth")
           /\ Is("distribution") => Is("igw") /\ Is("alb") /\ Is("webAcl")
           /\ Is("lookup") => Is("distribution")
           /\ Is("ingress") => Is("lookup")
<1>1. "App" \in Stack
  BY DEF Stack
<1>2. {"alb", "listener", "auth", "demoUser", "taskDef", "service", "distribution", "lookup",
       "ingress"} \subseteq Members["App"]
  BY MembersAt, AppMembers
<1>3. /\ "taskDef" \in Needs["service"] /\ "listener" \in Needs["service"]
      /\ "auth" \in Needs["taskDef"] /\ "auth" \in Needs["demoUser"]
      /\ "alb" \in Needs["distribution"] /\ "distribution" \in Needs["lookup"]
      /\ "lookup" \in Needs["ingress"]
  BY AppMembers, NeedsAt
<1>4. /\ "proxyTrigger" \in Members["Build"] /\ "proxyGrants" \in Members["Data"]
      /\ {"endpoints", "s3Egress", "igw"} \subseteq Members["Network"]
      /\ "runtime" \in Members["Agent"] /\ "webAcl" \in Members["Waf"]
  BY MembersAt, VpcMembers, BuildMembers, DataMembers, AgentCoreMembers
<1>5. ASSUME NEW r \in Members["App"], Is(r)
      PROVE  \A t \in {"Waf", "Network", "Build", "Data", "Agent"} : \A n \in Members[t] : Is(n)
  BY <1>1, <1>5, ImportsAre, Under
<1>6. \A r \in Members["App"] : Is(r) => \A n \in Needs[r] \cap Members["App"] : Is(n)
  BY <1>1, Beside
<1>7. Is("service") => Is("taskDef") /\ Is("listener") /\ Is("auth")
  BY <1>2, <1>3, <1>6
<1>8. Is("service") => /\ Is("proxyTrigger") /\ Is("proxyGrants") /\ Is("endpoints")
                       /\ Is("s3Egress") /\ Is("runtime")
  BY <1>2, <1>4, <1>5
<1>9. Is("distribution") => Is("igw") /\ Is("webAcl") /\ Is("alb")
  BY <1>2, <1>3, <1>4, <1>5, <1>6
<1>10. /\ Is("demoUser") => Is("auth")
       /\ Is("lookup") => Is("distribution")
       /\ Is("ingress") => Is("lookup")
  BY <1>2, <1>3, <1>6
<1> QED
  BY <1>7, <1>8, <1>9, <1>10

(* Whatever exists stands on what it needs to work, although the entries of *)
(* the templates name only a part of it: the order of the stacks and the    *)
(* needs within each give the rest, at every moment of a deployment, a      *)
(* rollback and a removal.                                                  *)
THEOREM Stands == Spec => []StandsOnItsNeeds
<1>1. ASSUME IInv
      PROVE  StandsOnItsNeeds
  <2> SUFFICES ASSUME NEW r \in DOMAIN WorkNeeds, Is(r)
               PROVE  \A n \in WorkNeeds[r] : Is(n)
    BY DEF StandsOnItsNeeds, Is
  <2>1. CASE r \in {"agentTrigger", "proxyTrigger", "index"}
    BY <1>1, <2>1, DataStands DEF WorkNeeds
  <2>2. CASE r = "runtime"
    BY <1>1, <2>2, RuntimeStands DEF WorkNeeds
  <2>3. CASE r \in {"service", "demoUser", "distribution", "lookup", "ingress"}
    BY <1>1, <2>3, SiteStands DEF WorkNeeds
  <2> QED
    BY <2>1, <2>2, <2>3 DEF WorkNeeds
<1> QED
  BY Inductive, <1>1, PTL

-----------------------------------------------------------------------------
(* Deployment implements ImageContract. *)

PushedPairs == {x \in Image \X Sources : repo[x[1]][x[2]] # "none"}
NamedPairs  == {x \in Image \X Sources :
                   \E q \in References(x[1]) \ {NoRequest} : Source[q][x[1]] = x[2]}

LEMMA ContractReleased ==
    ASSUME Released
    PROVE  PushedPairs' = PushedPairs /\ NamedPairs' \subseteq NamedPairs
<1>1. PushedPairs' = PushedPairs
  BY DEF Released, PushedPairs
<1>2. \A x \in Image \X Sources : x[1] \in Image
  OBVIOUS
<1> QED
  BY <1>1, <1>2 DEF Released, NamedPairs

LEMMA ContractReferred ==
    ASSUME NEW i \in Image, NEW q \in Accepted, Referred(i, q), Pullable(q, i)
    PROVE  /\ PushedPairs' = PushedPairs /\ <<i, Source[q][i]>> \in PushedPairs
           /\ NamedPairs' \subseteq NamedPairs \cup {<<i, Source[q][i]>>}
<1>1. PushedPairs' = PushedPairs
  BY DEF Referred, PushedPairs
<1>2. <<i, Source[q][i]>> \in PushedPairs
  BY RequestsAre DEF Pullable, PushedPairs
<1>3. ASSUME NEW x \in NamedPairs', x \notin NamedPairs
      PROVE  x = <<i, Source[q][i]>>
  <2>1. x \in Image \X Sources /\ x = <<x[1], x[2]>>
    BY <1>3 DEF NamedPairs
  <2>2. PICK p \in References(x[1])' \ {NoRequest} : Source[p][x[1]] = x[2]
    BY <1>3 DEF NamedPairs
  <2>3. p \notin References(x[1])
    BY <1>3, <2>1, <2>2 DEF NamedPairs
  <2>4. x[1] = i /\ p = q
    BY <2>1, <2>2, <2>3 DEF Referred
  <2> QED
    BY <2>1, <2>2, <2>4
<1> QED
  BY <1>1, <1>2, <1>3

LEMMA ContractPushed ==
    ASSUME TypeOK, NEW i \in Image, NEW t \in Sources, PushedTo(i, t)
    PROVE  PushedPairs' = PushedPairs \cup {<<i, t>>} /\ NamedPairs' = NamedPairs
<1>1. PICK p \in {"arm64", "amd64"} : repo' = [repo EXCEPT ![i][t] = p]
  BY DEF PushedTo
<1>2. ASSUME NEW x \in Image \X Sources
      PROVE  repo'[x[1]][x[2]] = IF x = <<i, t>> THEN p ELSE repo[x[1]][x[2]]
  BY <1>1 DEF TypeOK
<1>3. PushedPairs' = PushedPairs \cup {<<i, t>>}
  BY <1>2 DEF PushedPairs
<1>4. \A x \in Image \X Sources : x[1] \in Image
  OBVIOUS
<1>5. NamedPairs' = NamedPairs
  BY <1>4 DEF PushedTo, NamedPairs
<1> QED
  BY <1>3, <1>5

LEMMA ContractWiped ==
    ASSUME NEW i \in Image, Wiped(i)
    PROVE  /\ PushedPairs' = {x \in PushedPairs : x[1] # i}
           /\ NamedPairs' = NamedPairs
           /\ \A t \in Sources : <<i, t>> \notin NamedPairs
<1>1. \A x \in Image \X Sources : x[1] \in Image /\ x[2] \in Sources
  OBVIOUS
<1>2. PushedPairs' = {x \in PushedPairs : x[1] # i}
  BY <1>1 DEF Wiped, PushedPairs
<1>3. NamedPairs' = NamedPairs
  BY <1>1 DEF Wiped, NamedPairs
<1>4. \A t \in Sources : <<i, t>> \notin NamedPairs
  BY DEF Wiped, NamedPairs
<1> QED
  BY <1>2, <1>3, <1>4

LEMMA ContractStep ==
    ASSUME IInv, ImageStep
    PROVE  Contract!Next
<1>0. TypeOK /\ ImageInv
  BY DEF IInv
<1>1. CASE Released
  <2>1. Contract!Release
    BY <1>1, ContractReleased DEF Contract!Release, PushedPairs, NamedPairs
  <2> QED
    BY <2>1 DEF Contract!Next
<1>2. ASSUME NEW i \in Image, NEW q \in Plans(i) \cap Accepted, Referred(i, q)
      PROVE  Contract!Next
  <2>1. Pullable(q, i) /\ Source[q][i] \in Sources
    BY <1>0, RequestsAre DEF ImageInv
  <2>2. Contract!Refer(i, Source[q][i])
    BY <1>2, <2>1, ContractReferred DEF Contract!Refer, PushedPairs, NamedPairs
  <2> QED
    BY <2>1, <2>2 DEF Contract!Next
<1>3. ASSUME NEW i \in Image, NEW t \in Sources, PushedTo(i, t)
      PROVE  Contract!Next
  <2>1. Contract!Push(i, t)
    BY <1>0, <1>3, ContractPushed DEF Contract!Push, PushedPairs, NamedPairs
  <2> QED
    BY <2>1 DEF Contract!Next
<1>4. ASSUME NEW i \in Image, Wiped(i)
      PROVE  Contract!Next
  <2>1. Contract!Wipe(i)
    BY <1>4, ContractWiped DEF Contract!Wipe, PushedPairs, NamedPairs
  <2> QED
    BY <2>1 DEF Contract!Next
<1> QED
  BY <1>1, <1>2, <1>3, <1>4 DEF ImageStep

(* Deployment implements ImageContract: an image is pushed before a runtime *)
(* or a task definition names it, and wiped only when none does.            *)
THEOREM KeepsContract == Spec => ImagesKept
<1>1. Init => Contract!Init
  <2>1. /\ {"runtime", "taskDef", "service"} \subseteq Resource
        /\ \A x \in Image \X Sources : x[1] \in Image /\ x[2] \in Sources
    BY Places, MembersResource DEF Stack
  <2>2. Init => \A i \in Image : References(i) \subseteq {NoRequest}
    BY <2>1 DEF Init, References
  <2> QED
    BY <2>1, <2>2 DEF Init, Contract!Init
<1>2. IInv /\ [Next]_vars => [Contract!Next]_(Contract!vars)
  <2>1. ASSUME IInv, Next
        PROVE  Contract!Next
    BY <2>1, ImageNext, ContractStep
  <2>2. ASSUME UNCHANGED vars
        PROVE  UNCHANGED Contract!vars
    BY <2>2 DEF vars, Contract!vars, References
  <2> QED
    BY <2>1, <2>2
<1> QED
  BY <1>1, <1>2, Inductive, PTL DEF Spec, ImagesKept, Contract!Spec

(* ... so that every image that the runtime, the task definition, the       *)
(* service or the roll in progress names can be pulled, always.             *)
THEOREM NamedCanBePulled == Spec => []Contract!Kept
<1>1. ASSUME IInv
      PROVE  Contract!Kept
  <2>1. TypeOK /\ ImageInv
    BY <1>1 DEF IInv
  <2>2. ASSUME NEW x \in NamedPairs
        PROVE  x \in PushedPairs
    <3>1. x \in Image \X Sources /\ x[1] \in Image
      BY <2>2 DEF NamedPairs
    <3>2. PICK q \in References(x[1]) \ {NoRequest} : Source[q][x[1]] = x[2]
      BY <2>2 DEF NamedPairs
    <3> QED
      BY <2>1, <3>1, <3>2 DEF ImageInv, Pullable, PushedPairs
  <2> QED
    BY <2>2 DEF Contract!Kept, PushedPairs, NamedPairs
<1> QED
  BY Inductive, <1>1, PTL
-----------------------------------------------------------------------------
(* What two requests write otherwise, and how many tasks a request asks     *)
(* for.                                                                     *)

LEMMA AgreeTransitive ==
    ASSUME NEW keys, NEW a, NEW b, NEW c, ~Disagree(keys, a, b), ~Disagree(keys, b, c)
    PROVE  ~Disagree(keys, a, c)
  BY DEF Disagree

LEMMA SameTransitive ==
    ASSUME NEW r, NEW a, NEW b, NEW c, ~Differs(r, a, b), ~Differs(r, b, c)
    PROVE  ~Differs(r, a, c)
<1>1. r = "vpc" => ~Disagree({"availabilityZones"}, a, c)
  BY AgreeTransitive DEF Differs
<1>2. \A i \in Image : ~ImageDiffers(i, r, a, c)
  BY DEF Differs, ImageDiffers
<1>3. ~DataDiffers(r, a, c)
  BY AgreeTransitive DEF Differs, DataDiffers
<1>4. r = "runtime" => ~RuntimeDiffers(a, c)
  BY AgreeTransitive DEF Differs, RuntimeDiffers
<1>5. r = "policy" => ~Disagree({"agentRuntimeName"}, a, c)
  BY AgreeTransitive DEF Differs
<1>6. ~TaskDiffers(a, b) /\ ~TaskDiffers(b, c) => ~TaskDiffers(a, c)
  BY AgreeTransitive DEF TaskDiffers
<1>7. ~DistributionDiffers(a, b) /\ ~DistributionDiffers(b, c) => ~DistributionDiffers(a, c)
  BY AgreeTransitive DEF DistributionDiffers
<1>8. ~AppDiffers(r, a, c)
  BY <1>6, <1>7, AgreeTransitive DEF Differs, AppDiffers
<1> QED
  BY <1>1, <1>2, <1>3, <1>4, <1>5, <1>8 DEF Differs

LEMMA SameDesired ==
    ASSUME NEW p, NEW q, ~Differs("service", p, q)
    PROVE  Desired(p) = Desired(q)
<1>1. ~Disagree({"desiredCount"}, p, q)
  BY DEF Differs, AppDiffers
<1> QED
  BY <1>1 DEF Disagree, Desired

LEMMA OneOf == \A a, d : OrElse({a}, d) = a
  BY DEF OrElse

LEMMA DesiredIs ==
    ASSUME NEW q \in Accepted
    PROVE  Desired(q) \in Nat /\ Desired(q) >= 2
<1> DEFINE raw == Merged(Context[q])
           given == IntOf(raw, "desiredCount")
<1>1. q \in Requests /\ Accepts(raw) /\ Setting[q] = Resolved(raw)
  BY DEF Accepted, Setting, Valid
<1>2. \E n \in given : n >= 2
  BY <1>1 DEF Accepts, IntegersOK
<1>3. Desired(q) = OrElse(given, Defaults["desiredCount"])
  BY <1>1 DEF Desired, Resolved, Integer
<1>4. raw["desiredCount"] \in {Context[q].object["desiredCount"], Context[q].flat["desiredCount"]}
  BY DEF Merged, FlatKeys
<1>5. raw["desiredCount"].t \in {"number", "numeral"} => raw["desiredCount"].v \in Int
  <2> HIDE DEF raw
  <2> QED
    BY <1>1, <1>4, IntegerValues DEF FlatKeys
<1>6. \E n \in Int : given = {n}
  <2>1. Defaults["desiredCount"] \in Int
    BY DEF Defaults
  <2> HIDE DEF raw
  <2> QED
    BY <1>2, <1>5, <2>1 DEF IntOf, ToInteger
<1>7. PICK n \in Int : given = {n}
  BY <1>6
<1>8. n >= 2
  BY <1>2, <1>7
<1>9. Desired(q) = n
  BY <1>3, <1>7, OneOf
<1> HIDE DEF given
<1> QED
  BY <1>8, <1>9

(* The floor of a roll is half of what it is to. *)
LEMMA FloorIs ==
    ASSUME NEW q \in Accepted
    PROVE  Floor(q) \in Nat /\ 2 * Floor(q) >= Desired(q)
<1>1. PICK d \in Nat : Desired(q) = d
  BY DesiredIs
<1>2. Floor(q) = (d * 50 + 99) \div 100
  BY <1>1 DEF Floor, MinHealthyPercent
<1> QED
  BY <1>1, <1>2

-----------------------------------------------------------------------------
(* What the resources of a stack at rest are written from.                  *)

Moves(s) == \/ SkipStack(s) \/ TakeStack(s) \/ TakeDelete(s)
            \/ FinishStack(s) \/ FinishDelete(s)

(* A step of one stack leaves the others and the resources alone. *)
LEMMA Elsewhere ==
    ASSUME TypeOK, NEW s \in Stack, Moves(s) \/ Failing(s)
    PROVE  made' = made /\ \A t \in Stack \ {s} : stack'[t] = stack[t]
<1>1. CASE SkipStack(s)
  <2>1. stack' = stack \/ stack' = [stack EXCEPT ![s].plan = cli.ask]
    BY <1>1 DEF SkipStack
  <2> QED
    BY <1>1, <2>1 DEF SkipStack, world, TypeOK
<1>2. CASE TakeStack(s)
  BY <1>2 DEF TakeStack, world, TypeOK
<1>3. CASE TakeDelete(s)
  BY <1>3 DEF TakeDelete, TypeOK
<1>4. CASE FinishStack(s)
  BY <1>4 DEF FinishStack, world, TypeOK
<1>5. CASE FinishDelete(s)
  BY <1>5 DEF FinishDelete, TypeOK
<1>6. CASE Failing(s)
  BY <1>6 DEF Failing, TypeOK
<1> QED
  BY <1>1, <1>2, <1>3, <1>4, <1>5, <1>6 DEF Moves

(* What a failing stack has become. *)
LEMMA FailedStack ==
    ASSUME TypeOK, NEW s \in Stack, Failing(s)
    PROVE  /\ stack[s].phase \in Busy
           /\ stack'[s].phase \in {"deleting", "restoring", "stuck"}
           /\ stack'[s].plan = stack[s].plan /\ stack'[s].was = stack[s].was
  BY DEF Failing, TypeOK

LEMMA WrittenKept ==
    ASSUME WrittenInv, UNCHANGED made,
           \A s \in Stack : stack'[s].phase \in Settled =>
               stack[s].phase \in Settled /\ stack'[s].plan = stack[s].plan
    PROVE  WrittenInv'
  BY DEF WrittenInv

(* A resource of a stack that is not at rest may become anything. *)
LEMMA WrittenWrite ==
    ASSUME TypeOK, WrittenInv, UNCHANGED stack, NEW s \in Stack, stack[s].phase \notin Settled,
           NEW r \in Members[s], NEW q, Write(r, q)
    PROVE  WrittenInv'
<1>1. \A t \in Stack : Members[t] \subseteq Resource /\ (t # s => r \notin Members[t])
  BY MembersResource, OneStack
<1>2. \A n \in Resource \ {r} : made'[n] = made[n]
  BY DEF Write, TypeOK
<1> QED
  BY <1>1, <1>2 DEF WrittenInv

(* A stack comes to rest when nothing differs from its target. *)
LEMMA WrittenMoves ==
    ASSUME IInv, WrittenInv, NEW s \in Stack, Moves(s)
    PROVE  WrittenInv'
<1>0. TypeOK /\ made' = made /\ \A t \in Stack \ {s} : stack'[t] = stack[t]
  BY Elsewhere DEF IInv
<1>1. CASE stack'[s].phase \notin Settled
  BY <1>0, <1>1, WrittenKept
<1>2. CASE SkipStack(s) /\ cli.mode = "deploy"
  <2>1. /\ stack[s].phase \in Settled /\ stack'[s].plan = cli.ask
        /\ \A r \in Members[s] : ~Differs(r, stack[s].plan, cli.ask)
    BY <1>0, <1>2 DEF SkipStack, Unchanged, TypeOK
  <2>2. \A r \in Members[s] : ~Differs(r, made[r], stack[s].plan)
    BY <2>1 DEF WrittenInv
  <2>3. \A r \in Members[s] : ~Differs(r, made[r], cli.ask)
    BY <2>1, <2>2, SameTransitive
  <2> QED
    BY <1>0, <2>1, <2>3 DEF WrittenInv
<1>3. CASE SkipStack(s) /\ cli.mode # "deploy"
  BY <1>0, <1>3, WrittenKept DEF SkipStack
<1>4. CASE TakeStack(s) \/ TakeDelete(s) \/ FinishDelete(s)
  <2>1. stack'[s].phase \in {"creating", "updating", "deleting", "absent"}
    BY <1>0, <1>4 DEF TakeStack, TakeDelete, FinishDelete, TypeOK
  <2> QED
    BY <1>1, <2>1 DEF Settled
<1>5. CASE FinishStack(s)
  <2>1. /\ stack'[s].plan = Target(s)
        /\ \A r \in Members[s] : ~Due(s, r)
    BY <1>0, <1>5 DEF FinishStack, TypeOK
  <2>2. \A r \in Members[s] : ~Differs(r, made[r], Target(s))
    BY <2>1 DEF Due
  <2> QED
    BY <1>0, <2>1, <2>2 DEF WrittenInv
<1> QED
  BY <1>2, <1>3, <1>4, <1>5 DEF Moves

LEMMA WrittenFailing ==
    ASSUME TypeOK, WrittenInv, NEW s \in Stack, Failing(s)
    PROVE  WrittenInv'
  BY Elsewhere, FailedStack, WrittenKept DEF Settled

LEMMA WrittenNext ==
    ASSUME IInv, WrittenInv, ServiceInv, Next
    PROVE  WrittenInv'
<1>0. TypeOK /\ BuildInv /\ "App" \in Stack /\ "Build" \in Stack
  BY DEF IInv, Stack
<1>1. ASSUME UNCHANGED <<stack, made>>
      PROVE  WrittenInv'
  BY <1>1, WrittenKept
<1>2. ASSUME \/ \E q \in Requests : Deploy(q)
             \/ \E all \in BOOLEAN : Destroy(all)
             \/ Interrupt \/ GoOn \/ Done
             \/ \E s \in Stack : RefuseStack(s)
             \/ RollStart \/ TaskUp \/ TaskDown \/ CreateUser
      PROVE  WrittenInv'
  BY <1>1, <1>2 DEF Deploy, Destroy, Interrupt, GoOn, Done, RefuseStack, RollStart,
     TaskUp, TaskDown, CreateUser, world
<1>3. ASSUME NEW i \in Image, \/ \E status \in Failures \cup {"SUCCEEDED"} :
                                    BuildEnds(i, status)
                              \/ \E b \in late[i] : LateBuild(i, b)
                              \/ StartBuild(i)
      PROVE  WrittenInv'
  BY <1>1, <1>3 DEF BuildEnds, LateBuild, StartBuild
<1>4. ASSUME \/ \E s \in Stack : Fail(s)
             \/ CircuitBreak
             \/ \E i \in Image : BuildFailed(i) \/ ProviderTimeout(i)
      PROVE  WrittenInv'
  BY <1>0, <1>4, WrittenFailing DEF Fail, CircuitBreak, BuildFailed, ProviderTimeout
<1>5. ASSUME NEW s \in Stack, Moves(s)
      PROVE  WrittenInv'
  BY <1>5, WrittenMoves
<1>6. ASSUME NEW s \in Stack, NEW r \in Members[s], Put(s, r) \/ Drop(s, r)
      PROVE  WrittenInv'
  <2>1. /\ UNCHANGED stack /\ stack[s].phase \notin Settled
        /\ Write(r, Target(s)) \/ Write(r, NoRequest)
    BY <1>6 DEF Put, Ready, Drop, Settled
  <2> QED
    BY <1>0, <2>1, WrittenWrite
<1>7. ASSUME NEW i \in Image, PollBuild(i)
      PROVE  WrittenInv'
  <2>1. /\ UNCHANGED stack /\ Write(Trigger[i], Target("Build"))
        /\ stack["Build"].phase \notin Settled /\ Trigger[i] \in Members["Build"]
    BY <1>0, <1>7, Places DEF PollBuild, BuildInv, Working, Settled
  <2> QED
    BY <1>0, <2>1, WrittenWrite
<1>8. ASSUME RollDone
      PROVE  WrittenInv'
  <2>1. /\ UNCHANGED stack /\ Write("service", roll)
        /\ stack["App"].phase \notin Settled /\ "service" \in Members["App"]
    BY <1>8, Places DEF RollDone, ServiceInv
  <2> QED
    BY <1>0, <2>1, WrittenWrite
<1>9. ASSUME SetPassword
      PROVE  WrittenInv'
  <2>1. /\ UNCHANGED stack /\ Write("demoUser", Target("App"))
        /\ stack["App"].phase \notin Settled /\ "demoUser" \in Members["App"]
    BY <1>9, Places DEF SetPassword, Ready, Settled
  <2> QED
    BY <1>0, <2>1, WrittenWrite
<1> QED
  BY <1>2, <1>3, <1>4, <1>5, <1>6, <1>7, <1>8, <1>9 DEF Next, Engine, Moves

-----------------------------------------------------------------------------
(* What was asked for before, and what a command has said. *)

LEMMA WasKept ==
    ASSUME WasInv, stack'["App"] = stack["App"]
    PROVE  WasInv'
  BY DEF WasInv

LEMMA WasFailing ==
    ASSUME TypeOK, WasInv, NEW s \in Stack, Failing(s)
    PROVE  WasInv'
<1>1. CASE s = "App"
  BY <1>1, FailedStack DEF WasInv, Settled
<1>2. CASE s # "App"
  BY <1>2, Elsewhere, WasKept DEF Stack
<1> QED
  BY <1>1, <1>2

LEMMA WasMoves ==
    ASSUME IInv, WasInv, NEW s \in Stack, Moves(s)
    PROVE  WasInv'
<1>0. TypeOK /\ PhaseInv /\ "App" \in Stack
  BY DEF IInv, Stack
<1>1. CASE s # "App"
  BY <1>0, <1>1, Elsewhere, WasKept
<1>2. CASE s = "App" /\ SkipStack(s)
  <2>1. stack' = stack \/ stack' = [stack EXCEPT ![s].plan = cli.ask]
    BY <1>2 DEF SkipStack
  <2>2. stack'["App"].phase = stack["App"].phase /\ stack'["App"].was = stack["App"].was
    BY <1>0, <1>2, <2>1 DEF TypeOK
  <2> QED
    BY <2>2 DEF WasInv
<1>3. CASE s = "App" /\ TakeStack(s)
  <2>1. stack'["App"] = [phase |-> IF stack["App"].phase = "absent" THEN "creating"
                                   ELSE "updating",
                         plan |-> cli.ask, was |-> stack["App"].plan]
    BY <1>0, <1>3 DEF TakeStack, TypeOK
  <2>2. stack["App"].phase = "absent" => stack["App"].plan = NoRequest
    BY <1>0 DEF PhaseInv
  <2> QED
    BY <2>1, <2>2 DEF WasInv, Settled
<1>4. CASE s = "App" /\ TakeDelete(s)
  <2>1. stack'["App"].phase = "deleting"
    BY <1>0, <1>4 DEF TakeDelete, TypeOK
  <2> QED
    BY <2>1 DEF WasInv, Settled
<1>5. CASE s = "App" /\ (FinishStack(s) \/ FinishDelete(s))
  <2>1. stack'["App"].was = NoRequest
    BY <1>0, <1>5 DEF FinishStack, FinishDelete, TypeOK
  <2> QED
    BY <2>1 DEF WasInv
<1> QED
  BY <1>1, <1>2, <1>3, <1>4, <1>5 DEF Moves

LEMMA SaidKept ==
    ASSUME SaidInv, UNCHANGED cli,
           \A s \in Stack : stack[s].phase \in Settled => stack'[s] = stack[s]
    PROVE  SaidInv'
  BY DEF SaidInv

LEMMA SaidFailing ==
    ASSUME TypeOK, SaidInv, NEW s \in Stack, Failing(s)
    PROVE  SaidInv'
<1>1. cli' = cli
  BY DEF Failing
<1>2. \A t \in Stack : stack[t].phase \in Settled => stack'[t] = stack[t]
  BY FailedStack, Elsewhere DEF Settled, Busy
<1> QED
  BY <1>1, <1>2, SaidKept

LEMMA SaidMoves ==
    ASSUME IInv, SaidInv, NEW s \in Stack, Moves(s)
    PROVE  SaidInv'
<1>0. TypeOK
  BY DEF IInv
<1>1. CASE SkipStack(s) \/ TakeStack(s) \/ TakeDelete(s)
  <2>1. cli'.mode # "idle"
    BY <1>0, <1>1 DEF SkipStack, TakeStack, TakeDelete, MayTurnTo, TypeOK
  <2> QED
    BY <2>1 DEF SaidInv
<1>2. CASE FinishStack(s) \/ FinishDelete(s)
  <2>1. cli' = cli /\ stack[s].phase \notin Settled
    BY <1>2 DEF FinishStack, FinishDelete, Settled
  <2>2. \A t \in Stack : stack[t].phase \in Settled => stack'[t] = stack[t]
    BY <1>0, <2>1, Elsewhere
  <2> QED
    BY <2>1, <2>2, SaidKept
<1> QED
  BY <1>1, <1>2 DEF Moves

(* A command that did not deploy does not say so. *)
LEMMA SaidCommands ==
    ASSUME IInv, SaidInv, NEW s \in Stack,
           \/ \E q \in Requests : Deploy(q)
           \/ \E all \in BOOLEAN : Destroy(all)
           \/ Interrupt \/ GoOn \/ Done \/ RefuseStack(s)
    PROVE  SaidInv'
<1>0. TypeOK /\ CommandInv
  BY DEF IInv
<1>1. CASE (\E q \in Requests : Deploy(q)) \/ (\E all \in BOOLEAN : Destroy(all))
  <2>1. cli'.said # "deployed"
    BY <1>0, <1>1 DEF Deploy, Destroy, TypeOK
  <2> QED
    BY <2>1 DEF SaidInv
<1>2. CASE Interrupt \/ RefuseStack(s)
  <2>1. cli'.said # "deployed"
    BY <1>0, <1>2 DEF Interrupt, RefuseStack, Ended, TypeOK
  <2> QED
    BY <2>1 DEF SaidInv
<1>3. CASE GoOn
  <2>1. cli.mode # "idle"
    BY <1>0, <1>3 DEF GoOn, CommandInv
  <2>2. \/ cli' = [cli EXCEPT !.todo = cli.todo \ {cli.at}, !.at = NoStack]
        \/ cli' = Ended("failed")
    BY <1>3 DEF GoOn
  <2>3. cli'.mode # "idle" \/ cli'.said # "deployed"
    BY <1>0, <2>1, <2>2 DEF Ended, TypeOK
  <2> QED
    BY <2>3 DEF SaidInv
<1>4. CASE Done
  <2>1. cli.mode = "deploy" =>
            /\ cli.ask \in Accepted
            /\ \A t \in Stack : stack[t].phase \in Settled /\ stack[t].plan = cli.ask
    BY <1>0, <1>4 DEF Done, CommandInv
  <2>2. /\ cli'.said = "deployed" => cli.mode = "deploy"
        /\ cli'.ask = cli.ask /\ stack' = stack
    BY <1>0, <1>4 DEF Done, Ended, TypeOK
  <2> QED
    BY <2>1, <2>2 DEF SaidInv
<1> QED
  BY <1>1, <1>2, <1>3, <1>4

LEMMA WasSaidNext ==
    ASSUME IInv, WasInv, SaidInv, Next
    PROVE  WasInv' /\ SaidInv'
<1>0. TypeOK /\ "App" \in Stack /\ "Build" \in Stack
  BY DEF IInv, Stack
<1>1. ASSUME UNCHANGED <<cli, stack>>
      PROVE  WasInv' /\ SaidInv'
  BY <1>1, WasKept, SaidKept
<1>2. ASSUME \/ \E q \in Requests : Deploy(q)
             \/ \E all \in BOOLEAN : Destroy(all)
             \/ Interrupt \/ GoOn \/ Done
             \/ \E s \in Stack : RefuseStack(s)
      PROVE  WasInv' /\ SaidInv'
  <2>1. stack' = stack
    BY <1>2 DEF Deploy, Destroy, Interrupt, GoOn, Done, RefuseStack
  <2> QED
    BY <1>0, <1>2, <2>1, WasKept, SaidCommands
<1>3. ASSUME NEW i \in Image, \/ \E status \in Failures \cup {"SUCCEEDED"} :
                                    BuildEnds(i, status)
                              \/ \E b \in late[i] : LateBuild(i, b)
                              \/ StartBuild(i) \/ PollBuild(i)
      PROVE  WasInv' /\ SaidInv'
  BY <1>1, <1>3 DEF BuildEnds, LateBuild, StartBuild, PollBuild
<1>4. ASSUME \/ \E s \in Stack : Fail(s)
             \/ CircuitBreak
             \/ \E i \in Image : BuildFailed(i) \/ ProviderTimeout(i)
      PROVE  WasInv' /\ SaidInv'
  BY <1>0, <1>4, WasFailing, SaidFailing DEF Fail, CircuitBreak, BuildFailed, ProviderTimeout
<1>5. ASSUME NEW s \in Stack, Moves(s)
      PROVE  WasInv' /\ SaidInv'
  BY <1>5, WasMoves, SaidMoves
<1>6. ASSUME NEW s \in Stack, NEW r \in Members[s], Put(s, r) \/ Drop(s, r)
      PROVE  WasInv' /\ SaidInv'
  BY <1>1, <1>6 DEF Put, Drop
<1>7. ASSUME RollStart \/ TaskUp \/ TaskDown \/ RollDone \/ CreateUser \/ SetPassword
      PROVE  WasInv' /\ SaidInv'
  BY <1>1, <1>7 DEF RollStart, TaskUp, TaskDown, RollDone, CreateUser, SetPassword
<1> QED
  BY <1>2, <1>3, <1>4, <1>5, <1>6, <1>7 DEF Next, Engine, Moves

-----------------------------------------------------------------------------
(* The service and its tasks.                                               *)

LEMMA AskedIs ==
    ASSUME TypeOK
    PROVE  /\ Asked \subseteq Accepted
           /\ \A q \in Asked : Desired(q) \in Nat /\ Desired(q) >= 2
           /\ tasks.kept \in Nat /\ tasks.fresh \in Nat
           /\ made["service"] \in Accepted \cup {NoRequest}
<1>1. "App" \in Stack /\ "service" \in Resource
  BY Places, MembersResource DEF Stack
<1>2. Asked \subseteq Accepted
  BY <1>1 DEF TypeOK, Asked
<1> QED
  BY <1>1, <1>2, DesiredIs DEF TypeOK

(* Its stack asks for what it asked for before, perhaps among others. *)
LEMMA ServiceAsked ==
    ASSUME ServiceInv, UNCHANGED <<roll, tasks>>, made'["service"] = made["service"],
           roll # NoRequest => stack'["App"].phase \notin Settled,
           \A q \in Asked : \E p \in Asked' : Desired(p) = Desired(q)
    PROVE  ServiceInv'
<1>1. \A p : OfAsked(p) => \E q \in Asked' : Desired(p) = Desired(q)
  BY DEF OfAsked
<1>2. roll' # NoRequest => stack'["App"].phase \notin Settled /\ OfAsked(roll)'
  BY <1>1 DEF ServiceInv, OfAsked
<1>3. made'["service"] # NoRequest => OfAsked(made["service"])'
  BY <1>1 DEF ServiceInv, OfAsked
<1>4. roll' = NoRequest => tasks' = AllThere(made["service"])'
  BY DEF ServiceInv, AllThere
<1>5. roll' # NoRequest => ServedThroughout'
  BY DEF ServiceInv, ServedThroughout
<1> QED
  BY <1>2, <1>3, <1>4, <1>5 DEF ServiceInv

LEMMA ServiceKept ==
    ASSUME ServiceInv, UNCHANGED <<roll, tasks>>, made'["service"] = made["service"],
           stack'["App"].phase \in Settled => stack["App"].phase \in Settled,
           stack'["App"].plan = stack["App"].plan, stack'["App"].was = stack["App"].was
    PROVE  ServiceInv'
<1>1. Asked' = Asked
  BY DEF Asked
<1>2. roll # NoRequest => stack'["App"].phase \notin Settled
  BY DEF ServiceInv
<1> QED
  BY <1>1, <1>2, ServiceAsked

(* ECS turns a roll around: the tasks stay. *)
LEMMA ServiceTurned ==
    ASSUME TypeOK, ServiceInv, UNCHANGED made, TurnService("App"),
           stack'["App"].phase \notin Settled,
           stack'["App"].plan = stack["App"].plan, stack'["App"].was = stack["App"].was
    PROVE  ServiceInv'
<1>1. CASE UNCHANGED <<roll, tasks>>
  BY <1>1, ServiceKept
<1>2. CASE ~UNCHANGED <<roll, tasks>>
  <2>1. /\ roll # NoRequest /\ roll' = made["service"] /\ Asked' = Asked
        /\ made["service"] = NoRequest => tasks' = [kept |-> 0, fresh |-> 0]
        /\ made["service"] # NoRequest =>
              tasks' = [kept |-> tasks.fresh, fresh |-> tasks.kept]
    BY <1>2 DEF TurnService, Asked
  <2>2. ServedThroughout
    BY <2>1 DEF ServiceInv
  <2>3. CASE made["service"] = NoRequest
    BY <2>1, <2>3 DEF ServiceInv, AllThere
  <2>4. CASE made["service"] # NoRequest
    <3>1. PICK q \in Asked : 2 * (tasks.kept + tasks.fresh) >= Desired(q)
      BY <2>2, <2>4 DEF ServedThroughout
    <3>2. tasks'.kept + tasks'.fresh = tasks.kept + tasks.fresh
      BY <2>1, <2>4, AskedIs
    <3>3. ServedThroughout'
      BY <2>1, <3>1, <3>2 DEF ServedThroughout
    <3>4. OfAsked(made["service"])'
      BY <2>1, <2>4 DEF ServiceInv, OfAsked
    <3> QED
      BY <2>1, <2>4, <3>3, <3>4 DEF ServiceInv
  <2> QED
    BY <2>3, <2>4
<1> QED
  BY <1>1, <1>2

LEMMA ServiceFailing ==
    ASSUME TypeOK, ServiceInv, NEW s \in Stack, Failing(s)
    PROVE  ServiceInv'
<1>1. made' = made /\ TurnService(s)
  BY DEF Failing
<1>2. CASE s = "App"
  BY <1>1, <1>2, FailedStack, ServiceTurned DEF Settled
<1>3. CASE s # "App"
  <2>1. UNCHANGED <<roll, tasks>> /\ stack'["App"] = stack["App"]
    BY <1>1, <1>3, Elsewhere DEF TurnService, Stack
  <2> QED
    BY <1>1, <2>1, ServiceKept
<1> QED
  BY <1>2, <1>3

(* The stack of the service is taken up again, for another request. *)
LEMMA ServiceTaken ==
    ASSUME IInv, WasInv, ServiceInv, SkipStack("App") \/ TakeStack("App")
    PROVE  ServiceInv'
<1>0. /\ TypeOK /\ PhaseInv /\ "App" \in Stack /\ "service" \in Members["App"]
      /\ UNCHANGED <<made, roll, tasks>> /\ NoRequest \notin Accepted
      /\ IInv => StackInv
  BY Places, RequestsAre DEF IInv, Stack, SkipStack, TakeStack, world, StackInv
<1>1. CASE stack' = stack
  BY <1>0, <1>1, ServiceKept
<1>2. CASE SkipStack("App") /\ stack' # stack
  <2>1. /\ stack["App"].phase \in Settled /\ stack'["App"].phase = stack["App"].phase
        /\ stack'["App"].plan = cli.ask
        /\ ~Differs("service", stack["App"].plan, cli.ask)
        /\ MayTurnTo("App") /\ cli.mode = "deploy"
    BY <1>0, <1>2 DEF SkipStack, Unchanged, TypeOK
  <2>2. stack["App"].was = NoRequest /\ roll = NoRequest
    BY <2>1 DEF WasInv, ServiceInv
  <2>3. cli.ask \in Asked'
    BY <1>0, <2>1, TurnedTo DEF Asked
  <2>4. Asked \subseteq {stack["App"].plan}
    BY <2>2 DEF Asked
  <2>5. \A q \in Asked : \E p \in Asked' : Desired(p) = Desired(q)
    BY <2>1, <2>3, <2>4, SameDesired
  <2> QED
    BY <1>0, <2>2, <2>5, ServiceAsked
<1>3. CASE TakeStack("App")
  <2>1. /\ stack["App"].phase \in Settled \cup {"absent"}
        /\ stack'["App"] = [phase |-> IF stack["App"].phase = "absent" THEN "creating"
                                      ELSE "updating",
                            plan |-> cli.ask, was |-> stack["App"].plan]
    BY <1>0, <1>3 DEF TakeStack, TypeOK
  <2>2. stack["App"].was = NoRequest
    BY <2>1 DEF WasInv
  <2>3. Asked \subseteq Asked'
    BY <2>1, <2>2 DEF Asked
  <2>4. stack'["App"].phase \notin Settled
    BY <2>1 DEF Settled
  <2> QED
    BY <1>0, <2>3, <2>4, ServiceAsked
<1> QED
  BY <1>1, <1>2, <1>3

LEMMA ServiceMoves ==
    ASSUME IInv, WasInv, ServiceInv, NEW s \in Stack, Moves(s)
    PROVE  ServiceInv'
<1>0. /\ TypeOK /\ PhaseInv /\ RollInv /\ "App" \in Stack /\ "service" \in Members["App"]
      /\ made' = made
  BY Places, Elsewhere DEF IInv, Stack
<1>1. CASE s # "App"
  <2>1. stack'["App"] = stack["App"]
    BY <1>0, <1>1, Elsewhere
  <2>2. UNCHANGED <<roll, tasks>>
    BY <1>1 DEF Moves, SkipStack, TakeStack, TakeDelete, TurnService, FinishStack,
       FinishDelete, world
  <2> QED
    BY <1>0, <2>1, <2>2, ServiceKept
<1>2. CASE s = "App" /\ (SkipStack(s) \/ TakeStack(s))
  BY <1>2, ServiceTaken
<1>3. CASE s = "App" /\ TakeDelete(s)
  <2>1. /\ stack'["App"].phase \notin Settled
        /\ stack'["App"].plan = stack["App"].plan /\ stack'["App"].was = stack["App"].was
    BY <1>0, <1>3 DEF TakeDelete, TypeOK, Settled
  <2>2. TurnService("App") \/ UNCHANGED <<roll, tasks>>
    BY <1>3 DEF TakeDelete
  <2> QED
    BY <1>0, <2>1, <2>2, ServiceTurned, ServiceKept
<1>4. CASE s = "App" /\ FinishStack(s)
  <2>1. /\ roll = NoRequest /\ UNCHANGED <<roll, tasks>> /\ stack'["App"].plan = Target("App")
        /\ stack["App"].phase \in Working /\ ~Due("App", "service")
    BY <1>0, <1>4 DEF FinishStack, TypeOK, world, Working
  <2>2. Target("App") \in Asked'
    BY <1>0, <2>1, TargetAccepted, RequestsAre DEF Asked
  <2>3. Desired(made["service"]) = Desired(Target("App"))
    BY <2>1, SameDesired DEF Due
  <2>4. OfAsked(made["service"])'
    BY <1>0, <2>2, <2>3 DEF OfAsked
  <2> QED
    BY <1>0, <2>1, <2>4 DEF ServiceInv, AllThere
<1>5. CASE s = "App" /\ FinishDelete(s)
  <2>1. /\ made["service"] = NoRequest /\ UNCHANGED <<roll, tasks>>
        /\ stack["App"].phase \notin Working
    BY <1>0, <1>5 DEF FinishDelete, Working
  <2>2. roll = NoRequest
    BY <1>0, <2>1 DEF RollInv
  <2> QED
    BY <1>0, <2>1, <2>2 DEF ServiceInv, AllThere
<1> QED
  BY <1>1, <1>2, <1>3, <1>4, <1>5 DEF Moves

(* A write of another resource leaves the service alone. *)
LEMMA ServiceWrite ==
    ASSUME TypeOK, ServiceInv, NEW r \in Resource \ {"service"}, NEW q, Write(r, q),
           UNCHANGED <<stack, roll, tasks>>
    PROVE  ServiceInv'
<1>1. "service" \in Resource
  BY Places, MembersResource DEF Stack
<1>2. made'["service"] = made["service"]
  BY <1>1 DEF Write, TypeOK
<1> QED
  BY <1>2, ServiceKept

LEMMA ServiceDrop ==
    ASSUME TypeOK, ServiceInv, NEW s \in Stack, NEW r \in Members[s], Drop(s, r)
    PROVE  ServiceInv'
<1>1. r \in Resource
  BY MembersResource
<1>2. CASE r # "service"
  BY <1>1, <1>2, ServiceWrite DEF Drop
<1>3. CASE r = "service"
  <2>1. /\ made'["service"] = NoRequest /\ roll' = NoRequest
        /\ tasks' = [kept |-> 0, fresh |-> 0]
    BY <1>1, <1>3 DEF Drop, Write, TypeOK
  <2> QED
    BY <2>1 DEF ServiceInv, AllThere
<1> QED
  BY <1>2, <1>3

LEMMA RollStarts ==
    ASSUME IInv, ServiceInv, RollStart
    PROVE  ServiceInv'
<1>0. TypeOK /\ PhaseInv /\ "App" \in Stack
  BY DEF IInv, Stack
<1>1. /\ UNCHANGED <<stack, made, tasks>> /\ roll = NoRequest /\ roll' = Target("App")
      /\ stack["App"].phase \in Working
  BY DEF RollStart, Ready, Working
<1>2. Target("App") \in Asked /\ Asked' = Asked
  BY <1>0, <1>1, TargetAccepted, RequestsAre DEF Target, Asked
<1>3. OfAsked(roll)' /\ stack'["App"].phase \notin Settled
  BY <1>1, <1>2 DEF OfAsked, Working, Settled
<1>4. made["service"] # NoRequest => OfAsked(made["service"])'
  BY <1>1, <1>2 DEF ServiceInv, OfAsked
<1>5. ServedThroughout'
  <2>1. SUFFICES ASSUME made["service"] # NoRequest
                 PROVE  \E q \in Asked : 2 * (tasks.kept + tasks.fresh) >= Desired(q)
    BY <1>1, <1>2 DEF ServedThroughout
  <2>2. PICK q \in Asked : Desired(made["service"]) = Desired(q)
    BY <2>1 DEF ServiceInv, OfAsked
  <2>3. tasks = [kept |-> Desired(q), fresh |-> 0]
    BY <1>1, <2>1, <2>2 DEF ServiceInv, AllThere
  <2>4. PICK d \in Nat : Desired(q) = d
    BY <1>0, AskedIs
  <2>5. 2 * (tasks.kept + tasks.fresh) >= Desired(q)
    BY <2>3, <2>4
  <2> QED
    BY <2>5
<1> QED
  BY <1>1, <1>3, <1>4, <1>5, TargetAccepted, <1>0, RequestsAre DEF ServiceInv

LEMMA TasksMove ==
    ASSUME TypeOK, ServiceInv, TaskUp \/ TaskDown
    PROVE  ServiceInv'
<1>1. /\ UNCHANGED <<stack, made, roll>> /\ roll # NoRequest /\ Asked' = Asked
      /\ roll \in Accepted
  BY DEF TaskUp, TaskDown, Asked, TypeOK
<1>2. PICK k, f \in Nat : tasks = [kept |-> k, fresh |-> f]
  BY DEF TypeOK
<1>3. OfAsked(roll)' /\ (made["service"] # NoRequest => OfAsked(made["service"])')
      /\ stack'["App"].phase \notin Settled
  BY <1>1 DEF ServiceInv, OfAsked
<1>4. ServedThroughout'
  <2>1. SUFFICES ASSUME made["service"] # NoRequest
                 PROVE  \E q \in Asked : 2 * (tasks'.kept + tasks'.fresh) >= Desired(q)
    BY <1>1 DEF ServedThroughout
  <2>2. CASE TaskUp
    <3>1. tasks' = [kept |-> k, fresh |-> f + 1]
      BY <1>2, <2>2 DEF TaskUp
    <3>2. PICK q \in Asked : 2 * (k + f) >= Desired(q)
      BY <1>1, <1>2, <2>1 DEF ServiceInv, ServedThroughout
    <3>3. PICK d \in Nat : Desired(q) = d
      BY AskedIs
    <3>4. 2 * (k + (f + 1)) >= d
      BY <3>2, <3>3
    <3> QED
      BY <3>1, <3>3, <3>4
  <2>3. CASE TaskDown
    <3>1. tasks' = [kept |-> k - 1, fresh |-> f] /\ k + f > Floor(roll)
      BY <1>2, <2>3 DEF TaskDown
    <3>2. PICK q \in Asked : Desired(roll) = Desired(q)
      BY <1>1 DEF ServiceInv, OfAsked
    <3>3. PICK d, n \in Nat : Desired(q) = d /\ Floor(roll) = n /\ 2 * n >= d
      BY <1>1, <3>2, AskedIs, FloorIs
    <3>4. 2 * ((k - 1) + f) >= d
      BY <3>1, <3>3
    <3> QED
      BY <3>1, <3>3, <3>4
  <2> QED
    BY <2>2, <2>3
<1> QED
  BY <1>1, <1>3, <1>4 DEF ServiceInv

LEMMA RollEnds ==
    ASSUME TypeOK, ServiceInv, RollDone
    PROVE  ServiceInv'
<1>1. "service" \in Resource
  BY Places, MembersResource DEF Stack
<1>2. /\ UNCHANGED stack /\ roll # NoRequest /\ roll' = NoRequest
      /\ made'["service"] = roll /\ tasks' = [kept |-> Desired(roll), fresh |-> 0]
  BY <1>1 DEF RollDone, Write, TypeOK
<1>3. OfAsked(made["service"])'
  BY <1>2 DEF ServiceInv, OfAsked, Asked
<1> QED
  BY <1>2, <1>3 DEF ServiceInv, AllThere

LEMMA ServiceNext ==
    ASSUME IInv, WasInv, ServiceInv, Next
    PROVE  ServiceInv'
<1>0. /\ TypeOK /\ "App" \in Stack /\ "Build" \in Stack
      /\ "demoUser" \in Resource \ {"service"}
      /\ \A i \in Image : Trigger[i] \in Resource \ {"service"}
  BY Places, MembersResource DEF IInv, Stack, Image, Trigger
<1>1. ASSUME UNCHANGED <<stack, made, roll, tasks>>
      PROVE  ServiceInv'
  BY <1>1, ServiceKept
<1>2. ASSUME \/ \E q \in Requests : Deploy(q)
             \/ \E all \in BOOLEAN : Destroy(all)
             \/ Interrupt \/ GoOn \/ Done
             \/ \E s \in Stack : RefuseStack(s)
             \/ CreateUser
      PROVE  ServiceInv'
  BY <1>1, <1>2 DEF Deploy, Destroy, Interrupt, GoOn, Done, RefuseStack, CreateUser, world
<1>3. ASSUME NEW i \in Image, \/ \E status \in Failures \cup {"SUCCEEDED"} :
                                    BuildEnds(i, status)
                              \/ \E b \in late[i] : LateBuild(i, b)
                              \/ StartBuild(i)
      PROVE  ServiceInv'
  BY <1>1, <1>3 DEF BuildEnds, LateBuild, StartBuild
<1>4. ASSUME \/ \E s \in Stack : Fail(s)
             \/ CircuitBreak
             \/ \E i \in Image : BuildFailed(i) \/ ProviderTimeout(i)
      PROVE  ServiceInv'
  BY <1>0, <1>4, ServiceFailing DEF Fail, CircuitBreak, BuildFailed, ProviderTimeout
<1>5. ASSUME NEW s \in Stack, Moves(s)
      PROVE  ServiceInv'
  BY <1>5, ServiceMoves
<1>6. ASSUME NEW s \in Stack, NEW r \in Members[s], Put(s, r)
      PROVE  ServiceInv'
  BY <1>0, <1>6, ServiceWrite DEF Put, Plain
<1>7. ASSUME NEW s \in Stack, NEW r \in Members[s], Drop(s, r)
      PROVE  ServiceInv'
  BY <1>0, <1>7, ServiceDrop
<1>8. ASSUME \/ \E i \in Image : PollBuild(i)
             \/ SetPassword
      PROVE  ServiceInv'
  BY <1>0, <1>8, ServiceWrite DEF PollBuild, SetPassword
<1>9. ASSUME RollStart \/ TaskUp \/ TaskDown \/ RollDone
      PROVE  ServiceInv'
  BY <1>0, <1>9, RollStarts, TasksMove, RollEnds
<1> QED
  BY <1>2, <1>3, <1>4, <1>5, <1>6, <1>7, <1>8, <1>9 DEF Next, Engine, Moves

-----------------------------------------------------------------------------
(* What is served. *)

LEMMA ServingInit == Init => ServingInv
<1> SUFFICES ASSUME Init
             PROVE  ServingInv
  OBVIOUS
<1>1. /\ \A s \in Stack : stack[s] = [phase |-> "absent", plan |-> NoRequest, was |-> NoRequest]
      /\ cli.said = "nothing" /\ roll = NoRequest /\ tasks = [kept |-> 0, fresh |-> 0]
      /\ "App" \in Stack
  BY DEF Init, Stack
<1>2. made["service"] = NoRequest
  BY Places, MembersResource DEF Init, Stack
<1>3. WrittenInv /\ WasInv /\ SaidInv
  BY <1>1 DEF WrittenInv, WasInv, SaidInv, Settled
<1>4. ServiceInv
  BY <1>1, <1>2 DEF ServiceInv, AllThere
<1> QED
  BY <1>3, <1>4 DEF ServingInv

LEMMA ServingNext == IInv /\ ServingInv /\ [Next]_vars => ServingInv'
<1>1. ASSUME IInv, ServingInv, Next
      PROVE  ServingInv'
  BY <1>1, WrittenNext, WasSaidNext, ServiceNext DEF ServingInv
<1>2. ASSUME IInv, ServingInv, UNCHANGED vars
      PROVE  ServingInv'
  <2>1. WrittenInv' /\ WasInv' /\ SaidInv'
    BY <1>2, WrittenKept, WasKept, SaidKept DEF ServingInv, vars
  <2>2. ServiceInv'
    BY <1>2, ServiceKept DEF ServingInv, vars
  <2> QED
    BY <2>1, <2>2 DEF ServingInv
<1> QED
  BY <1>1, <1>2

(* Every deployment keeps what its stacks at rest are written from, how     *)
(* many tasks its service has, and what its last command said.              *)
THEOREM Serving == Spec => []ServingInv
<1>1. Spec => [](IInv /\ ServingInv)
  BY InvInit, InvNext, ServingInit, ServingNext, PTL DEF Spec
<1> QED
  BY <1>1, PTL

(* From the moment the service is up until it is removed, through updates,  *)
(* failed rolls and restorations, half of the tasks answer that its stack   *)
(* asks for, or asked for before.                                           *)
THEOREM Serves == Spec => []ServedThroughout
<1>1. IInv /\ ServingInv => ServedThroughout
  <2> SUFFICES ASSUME IInv, ServingInv, made["service"] # NoRequest
               PROVE  ServedThroughout
    BY DEF ServedThroughout
  <2>1. TypeOK /\ ServiceInv
    BY DEF IInv, ServingInv
  <2>2. CASE roll # NoRequest
    BY <2>1, <2>2 DEF ServiceInv
  <2>3. CASE roll = NoRequest
    <3>1. PICK q \in Asked : Desired(made["service"]) = Desired(q)
      BY <2>1 DEF ServiceInv, OfAsked
    <3>2. PICK d \in Nat : Desired(q) = d
      BY <2>1, AskedIs
    <3>3. tasks = [kept |-> d, fresh |-> 0]
      BY <2>1, <2>3, <3>1, <3>2 DEF ServiceInv, AllThere
    <3>4. 2 * (tasks.kept + tasks.fresh) >= Desired(q)
      BY <3>2, <3>3
    <3> QED
      BY <3>4 DEF ServedThroughout
  <2> QED
    BY <2>2, <2>3
<1> QED
  BY <1>1, Inductive, Serving, PTL

-----------------------------------------------------------------------------
(* What a request asks for in words is what its settings say. *)

LEMMA FlatWins ==
    ASSUME NEW q \in Accepted, NEW k \in FlatKeys, Context[q].flat[k].t # "undefined"
    PROVE  /\ Setting[q] = Resolved(Merged(Context[q])) /\ Accepts(Merged(Context[q]))
           /\ Merged(Context[q])[k] = Context[q].flat[k]
  BY DEF Accepted, Setting, Valid, Merged

LEMMA SettingAsWritten ==
    ASSUME NEW q \in Accepted, NEW c \in Carriers, Context[q].flat[c[1]].t \in c[3]
    PROVE  Setting[q][c[1]] = AsWritten(c[1], Context[q].flat[c[1]].v)
<1> DEFINE raw == Merged(Context[q])
           flat == Context[q].flat
<1>1. c[1] \in FlatKeys /\ flat[c[1]].t # "undefined"
  BY DEF Carriers, FlatKeys, Words
<1>2. Setting[q] = Resolved(raw) /\ raw[c[1]] = flat[c[1]]
  BY <1>1, FlatWins
<1> HIDE DEF raw, flat
<1>3. CASE c[1] = "cpuArchitecture"
  <2>1. flat["cpuArchitecture"].t \in {"text", "padded"}
    BY <1>3 DEF Carriers, Words, flat
  <2> QED
    BY <1>2, <1>3, <2>1 DEF Resolved, CpuArchitecture, AsWritten, flat
<1>4. CASE c[1] = "bedrockModelId"
  <2>1. flat["bedrockModelId"].t \in {"text", "padded"}
    BY <1>4 DEF Carriers, Words, flat
  <2>2. Text(raw, "bedrockModelId") = flat["bedrockModelId"].v
    BY <1>2, <1>4, <2>1, OneOf DEF Text, OptionalString
  <2> QED
    BY <1>2, <1>4, <2>2 DEF Resolved, AsWritten, flat
<1>5. CASE c[1] = "albOriginProtocol"
  <2>1. flat["albOriginProtocol"].t \in {"text", "padded"}
    BY <1>5 DEF Carriers, Words, flat
  <2>2. OrElse(OptionalString(raw["albOriginProtocol"]), Defaults.albOriginProtocol)
          = flat["albOriginProtocol"].v
    BY <1>2, <1>5, <2>1, OneOf DEF OptionalString
  <2> QED
    BY <1>2, <1>5, <2>2 DEF Resolved, OriginProtocol, AsWritten, flat
<1>6. CASE c[1] = "availabilityZones"
  <2>1. flat["availabilityZones"].t \in {"list", "csv"}
    BY <1>6 DEF Carriers, Words, flat
  <2> QED
    BY <1>2, <1>6, <2>1 DEF Resolved, Zones, AsWritten, flat
<1>7. CASE c[1] = "desiredCount"
  <2>1. flat["desiredCount"].t \in {"number", "numeral"}
    BY <1>7 DEF Carriers, Words, flat
  <2>2. Integer(raw, "desiredCount") = flat["desiredCount"].v
    BY <1>2, <1>7, <2>1, OneOf DEF Integer, IntOf, ToInteger
  <2> QED
    BY <1>2, <1>7, <2>2 DEF Resolved, AsWritten, flat
<1> QED
  BY <1>3, <1>4, <1>5, <1>6, <1>7 DEF Carriers

(* A carrier holds its setting as the request it does not differ from. *)
LEMMA CarrierHolds ==
    ASSUME NEW c \in Carriers, NEW p, NEW q, ~Differs(c[2], p, q)
    PROVE  Setting[p][c[1]] = Setting[q][c[1]]
  BY DEF Carriers, Differs, AppDiffers, RuntimeDiffers, TaskDiffers, DistributionDiffers,
     Disagree

LEMMA CarrierPlace == \A c \in Carriers : c[2] \in Resource
  BY Places, MembersAt, NeedsAt, AppMembers, AgentCoreMembers, VpcMembers DEF Carriers

(* A stack at rest is whole and as its plan writes it. *)
LEMMA AtPlan ==
    ASSUME PhaseInv, WrittenInv, NEW q,
           \A s \in Stack : stack[s].phase \in Settled /\ stack[s].plan = q
    PROVE  \A r \in Resource : made[r] # NoRequest /\ ~Differs(r, made[r], q)
  BY MembersCover DEF PhaseInv, WrittenInv, Whole, Is

(* A command that says it deployed has deployed what was asked. *)
THEOREM Deploys == Spec => []AsRequested
<1>1. IInv /\ ServingInv => AsRequested
  <2> SUFFICES ASSUME IInv, ServingInv, cli.mode = "idle", cli.said = "deployed",
                      NEW q, q = cli.ask
               PROVE  /\ \A r \in Resource : made[r] # NoRequest /\ ~Differs(r, made[r], q)
                      /\ \A i \in Image : repo[i][Source[q][i]] # "none"
                      /\ tasks = [kept |-> Desired(q), fresh |-> 0]
                      /\ \A c \in Carriers :
                            LET flat == Context[q].flat[c[1]]
                            IN  flat.t \in c[3] =>
                                   Setting[made[c[2]]][c[1]] = AsWritten(c[1], flat.v)
    BY DEF AsRequested
  <2>1. q \in Accepted /\ \A s \in Stack : stack[s].phase \in Settled /\ stack[s].plan = q
    BY DEF ServingInv, SaidInv
  <2>2. \A r \in Resource : made[r] # NoRequest /\ ~Differs(r, made[r], q)
    BY <2>1, AtPlan DEF IInv, ServingInv
  <2>3. \A i \in Image : repo[i][Source[q][i]] # "none"
    BY <2>1 DEF IInv, ImageInv, Pullable, Stack
  <2>4. tasks = [kept |-> Desired(q), fresh |-> 0]
    <3>1. roll = NoRequest /\ "service" \in Resource
      BY <2>1, Places, MembersResource DEF ServingInv, ServiceInv, Stack
    <3> QED
      BY <2>2, <3>1, SameDesired DEF ServingInv, ServiceInv, AllThere
  <2>5. ASSUME NEW c \in Carriers, Context[q].flat[c[1]].t \in c[3]
        PROVE  Setting[made[c[2]]][c[1]] = AsWritten(c[1], Context[q].flat[c[1]].v)
    <3>1. Setting[q][c[1]] = AsWritten(c[1], Context[q].flat[c[1]].v)
      BY <2>1, <2>5, SettingAsWritten
    <3>2. ~Differs(c[2], made[c[2]], q)
      BY <2>2, CarrierPlace
    <3> QED
      BY <3>1, <3>2, CarrierHolds
  <2> QED
    BY <2>2, <2>3, <2>4, <2>5
<1> QED
  BY <1>1, Inductive, Serving, PTL

-----------------------------------------------------------------------------
(* The way of a session, and of the calls. *)

LEMMA Waf ==
    ASSUME NEW v, v.flood = FALSE, ~Blocks("SQLi", v),
           v.upgrade = TRUE \/ (v.upgrade = FALSE /\ ~Blocks("Common", v))
    PROVE  WafVerdict(v) = "allow"
<1> DEFINE rules == WafRules(v)
           hits == {k \in DOMAIN rules : rules[k].hit}
<1>1. /\ DOMAIN rules = 1..4
      /\ rules[1] = [hit |-> v.upgrade, action |-> "allow"]
      /\ rules[2] = [hit |-> Blocks("Common", v), action |-> "block"]
      /\ rules[3] = [hit |-> Blocks("SQLi", v), action |-> "block"]
      /\ rules[4] = [hit |-> v.flood, action |-> "block"]
  BY DEF WafRules
<1>2. /\ rules[1].hit = v.upgrade /\ rules[1].action = "allow"
      /\ rules[2].hit = Blocks("Common", v)
      /\ ~rules[3].hit /\ ~rules[4].hit
  BY <1>1
<1> HIDE DEF rules
<1>3. \A k \in DOMAIN rules : k \in {1, 2, 3, 4}
  BY <1>1
<1>4. CASE v.upgrade = TRUE
  <2>1. 1 \in hits /\ \A k \in hits : k \in 1..4
    BY <1>1, <1>2, <1>4
  <2>2. (CHOOSE k \in hits : \A j \in hits : k <= j) = 1
    BY <2>1
  <2> QED
    BY <1>2, <2>1, <2>2 DEF WafVerdict, rules
<1>5. CASE v.upgrade = FALSE /\ ~Blocks("Common", v)
  <2>1. ~rules[1].hit /\ ~rules[2].hit
    BY <1>2, <1>5
  <2>2. hits = {}
    BY <1>2, <1>3, <2>1
  <2> QED
    BY <2>2 DEF WafVerdict, rules
<1> QED
  BY <1>4, <1>5

LEMMA SessionServed == \A v \in SessionRequests : Served(v)
<1> SUFFICES ASSUME NEW v \in SessionRequests
             PROVE  Served(v)
  OBVIOUS
<1>1. v.flood = FALSE /\ (v.scheme = "https" \/ ViewerPolicy(v.path) = "redirect-to-https")
  BY DEF SessionRequests, Viewer, ViewerPolicy
<1>2. ~Blocks("SQLi", v)
  BY DEF SessionRequests, Viewer, Blocks, CountedRules
<1>3. v.upgrade = TRUE \/ (v.upgrade = FALSE /\ ~Blocks("Common", v))
  BY DEF SessionRequests, Viewer, Blocks, CountedRules
<1> QED
  BY <1>1, <1>2, <1>3, Waf DEF Served

LEMMA ModelCallsGranted ==
    ASSUME NEW by \in {"agent", "proxy", "provisioner"}, NEW action,
           NEW id, id.geo \in DOMAIN KnownGeos \cup {"none"}, NEW grants,
           Grants(by, {action}, ModelArns(id)) \subseteq grants
    PROVE  \A c \in ModelCalls(by, action, id) : Permitted(c, grants)
<1> SUFFICES ASSUME NEW c \in ModelCalls(by, action, id)
             PROVE  Permitted(c, grants)
  OBVIOUS
<1>1. "none" \notin DOMAIN KnownGeos
  BY DEF KnownGeos
<1>2. c.by = by /\ c.via = "bedrock-runtime" /\ c.action = action /\ c.on \in ModelArns(id)
  BY <1>1 DEF ModelCalls, Call, ModelArns
<1>3. [by |-> c.by, action |-> c.action, on |-> c.on] \in grants
  BY <1>2 DEF Grants
<1> QED
  BY <1>2, <1>3 DEF Permitted, InterfaceEndpoints, DataAccessPrincipals

LEMMA ProxyPermitted ==
    ASSUME NEW t, NEW g, NEW q \in Accepted,
           ~Differs("taskDef", t, q), ~Differs("proxyGrants", g, q)
    PROVE  \A c \in ProxyCalls(t) : Permitted(c, ProxyGrants(g))
<1>1. /\ Setting[t].agentRuntimeName = Setting[g].agentRuntimeName
      /\ Setting[t].bedrockEmbedModelId = Setting[q].bedrockEmbedModelId
      /\ Setting[g].bedrockEmbedModelId = Setting[q].bedrockEmbedModelId
  <2>1. ~TaskDiffers(t, q)
    BY DEF Differs, AppDiffers
  <2>2. ~Disagree({"agentRuntimeName", "bedrockEmbedModelId"}, g, q)
    BY DEF Differs, DataDiffers
  <2> QED
    BY <2>1, <2>2 DEF TaskDiffers, Disagree
<1>2. \A c \in ModelCalls("proxy", "InvokeModel", Setting[t].bedrockEmbedModelId) :
          Permitted(c, ProxyGrants(g))
  <2>1. Setting[t].bedrockEmbedModelId.geo \in DOMAIN KnownGeos \cup {"none"}
    BY <1>1, ModelIds DEF Accepted
  <2>2. Grants("proxy", {"InvokeModel"}, ModelArns(Setting[t].bedrockEmbedModelId))
          \subseteq ProxyGrants(g)
    BY <1>1 DEF ProxyGrants
  <2> QED
    BY <2>1, <2>2, ModelCallsGranted
<1>3. ASSUME NEW c \in ProxyCalls(t),
             c \notin ModelCalls("proxy", "InvokeModel", Setting[t].bedrockEmbedModelId)
      PROVE  Permitted(c, ProxyGrants(g))
  <2>1. c \in {Call("proxy", "bedrock-agentcore", "InvokeAgentRuntime",
                    <<"runtime", Setting[g].agentRuntimeName>>),
               Call("proxy", "s3", "PutObject", "uploads/*"),
               Call("proxy", "s3", "PutObject", "extracted/*"),
               Call("proxy", "s3", "GetObject", "extracted/*"),
               Call("proxy", "s3", "Encrypt", "uploadsKey"),
               Call("proxy", "aoss-data", "APIAccessAll", "collection")}
    BY <1>1, <1>3 DEF ProxyCalls
  <2>2. c.by = "proxy" /\ c.via \in InterfaceEndpoints \cup GatewayEndpoints
    BY <2>1 DEF Call, InterfaceEndpoints, GatewayEndpoints
  <2>3. [by |-> c.by, action |-> c.action, on |-> c.on] \in ProxyGrants(g)
    BY <2>1 DEF Call, ProxyGrants, Grants
  <2> QED
    BY <2>2, <2>3 DEF Permitted, DataAccessPrincipals
<1> QED
  BY <1>2, <1>3

LEMMA AgentPermitted ==
    ASSUME NEW t, NEW g, NEW q \in Accepted,
           ~Differs("runtime", t, q), ~Differs("agentGrants", g, q)
    PROVE  \A c \in AgentCalls(t) : Permitted(c, AgentGrants(g))
<1>1. /\ Setting[t].bedrockModelId = Setting[q].bedrockModelId
      /\ Setting[g].bedrockModelId = Setting[q].bedrockModelId
      /\ Setting[t].bedrockEmbedModelId = Setting[q].bedrockEmbedModelId
      /\ Setting[g].bedrockEmbedModelId = Setting[q].bedrockEmbedModelId
  <2>1. ~RuntimeDiffers(t, q)
    BY DEF Differs
  <2>2. ~Disagree({"bedrockModelId", "bedrockEmbedModelId"}, g, q)
    BY DEF Differs, DataDiffers
  <2> QED
    BY <2>1, <2>2 DEF RuntimeDiffers, Disagree
<1>2. \A c \in ModelCalls("agent", "InvokeModelWithResponseStream", Setting[t].bedrockModelId) :
          Permitted(c, AgentGrants(g))
  <2>1. Setting[t].bedrockModelId.geo \in DOMAIN KnownGeos \cup {"none"}
    BY <1>1, ModelIds DEF Accepted
  <2>2. Grants("agent", {"InvokeModelWithResponseStream"}, ModelArns(Setting[t].bedrockModelId))
          \subseteq AgentGrants(g)
    BY <1>1 DEF AgentGrants, Grants
  <2> QED
    BY <2>1, <2>2, ModelCallsGranted
<1>3. \A c \in ModelCalls("agent", "InvokeModel", Setting[t].bedrockEmbedModelId) :
          Permitted(c, AgentGrants(g))
  <2>1. Setting[t].bedrockEmbedModelId.geo \in DOMAIN KnownGeos \cup {"none"}
    BY <1>1, ModelIds DEF Accepted
  <2>2. Grants("agent", {"InvokeModel"}, ModelArns(Setting[t].bedrockEmbedModelId))
          \subseteq AgentGrants(g)
    BY <1>1 DEF AgentGrants, Grants
  <2> QED
    BY <2>1, <2>2, ModelCallsGranted
<1>4. ASSUME NEW c \in {Call("agent", "ecr.api", "Pull", "agentImage"),
                        Call("agent", "aoss-data", "APIAccessAll", "collection")}
      PROVE  Permitted(c, AgentGrants(g))
  <2>1. c.by = "agent" /\ c.via \in InterfaceEndpoints \cup GatewayEndpoints
    BY <1>4 DEF Call, InterfaceEndpoints, GatewayEndpoints
  <2>2. [by |-> c.by, action |-> c.action, on |-> c.on] \in AgentGrants(g)
    BY <1>4 DEF Call, AgentGrants, Grants
  <2> QED
    BY <2>1, <2>2 DEF Permitted, DataAccessPrincipals
<1> QED
  BY <1>2, <1>3, <1>4 DEF AgentCalls

(* The provisioner grants the embeddings model as a bare one. *)
LEMMA ProvisionerPermitted ==
    ASSUME NEW p, Setting[p].bedrockEmbedModelId.geo = "none"
    PROVE  \A c \in ProvisionerCalls(p) : Permitted(c, ProvisionerGrants(p))
<1>1. \A c \in ModelCalls("provisioner", "InvokeModel", Setting[p].bedrockEmbedModelId) :
          Permitted(c, ProvisionerGrants(p))
  <2>1. "none" \notin DOMAIN KnownGeos
    BY DEF KnownGeos
  <2>2. Grants("provisioner", {"InvokeModel"}, ModelArns(Setting[p].bedrockEmbedModelId))
          \subseteq ProvisionerGrants(p)
    BY <2>1 DEF ProvisionerGrants, ModelArns
  <2> QED
    BY <2>2, ModelCallsGranted
<1>2. ASSUME NEW action \in ControlPlaneUsed
      PROVE  Permitted(Call("provisioner", "aoss", action, "aoss"), ProvisionerGrants(p))
  <2>1. action \in ControlPlaneActions
    BY DEF ControlPlaneUsed, ControlPlaneActions
  <2>2. [by |-> "provisioner", action |-> action, on |-> "aoss"] \in ProvisionerGrants(p)
    BY <2>1 DEF ProvisionerGrants, Grants
  <2> QED
    BY <2>2 DEF Permitted, Call, DataAccessPrincipals, InterfaceEndpoints
<1>3. ASSUME NEW c \in {Call("provisioner", "aoss-data", "APIAccessAll", "collection"),
                        Call("provisioner", "s3", "PutObject", "sops/*")}
      PROVE  Permitted(c, ProvisionerGrants(p))
  <2>1. c.by = "provisioner" /\ c.via \in InterfaceEndpoints \cup GatewayEndpoints
    BY <1>3 DEF Call, InterfaceEndpoints, GatewayEndpoints
  <2>2. [by |-> c.by, action |-> c.action, on |-> c.on] \in ProvisionerGrants(p)
    BY <1>3 DEF Call, ProvisionerGrants, Grants
  <2> QED
    BY <2>1, <2>2 DEF Permitted, DataAccessPrincipals
<1> QED
  BY <1>1, <1>2, <1>3 DEF ProvisionerCalls

(* The distribution, the listener and the rule of one valid request fit. *)
LEMMA HopFits ==
    ASSUME NEW d, NEW l, NEW g, NEW q \in Accepted,
           ~Differs("distribution", d, q), ~Differs("listener", l, q),
           ~Differs("ingress", g, q)
    PROVE  HopOpen(d, l, g)
<1>1. /\ Setting[d].albOriginProtocol = Setting[q].albOriginProtocol
      /\ Setting[d].originDomainName = Setting[q].originDomainName
  <2>1. ~DistributionDiffers(d, q)
    BY DEF Differs, AppDiffers
  <2> QED
    BY <2>1 DEF DistributionDiffers, Disagree
<1>2. /\ Setting[l].albOriginProtocol = Setting[q].albOriginProtocol
      /\ Setting[l].originCertificateArn = Setting[q].originCertificateArn
      /\ Setting[g].albOriginProtocol = Setting[q].albOriginProtocol
  <2>1. /\ ~Disagree({"albOriginProtocol", "originCertificateArn"}, l, q)
        /\ ~Disagree({"albOriginProtocol"}, g, q)
    BY DEF Differs, AppDiffers
  <2> QED
    BY <2>1 DEF Disagree
<1>3. Setting[q].albOriginProtocol = "HTTPS" =>
          Setting[q].originDomainName # {} /\ Setting[q].originCertificateArn # {}
  <2>1. Setting[q] = Resolved(Merged(Context[q])) /\ OriginOK(Merged(Context[q]))
    BY DEF Accepted, Setting, Valid, Accepts
  <2>2. /\ Setting[q].albOriginProtocol = OriginProtocol(Merged(Context[q]))
        /\ Setting[q].originDomainName = OptionalString(Merged(Context[q])["originDomainName"])
        /\ Setting[q].originCertificateArn
             = OptionalString(Merged(Context[q])["originCertificateArn"])
    BY <2>1 DEF Resolved
  <2> QED
    BY <2>1, <2>2 DEF OriginOK
<1>4. OriginPort(d) = ListenerPort(l) /\ ListenerPort(l) = IngressPort(g)
  BY <1>1, <1>2 DEF OriginPort, ListenerPort, IngressPort
<1>5. OriginName(d) # {} <=> ListenerCertificate(l) # {}
  BY <1>1, <1>2, <1>3 DEF OriginName, ListenerCertificate
<1> QED
  BY <1>4, <1>5 DEF HopOpen, TargetPort, ContainerPort

(* In a deployment whose stacks agree, a session's requests get to the      *)
(* proxy and the programs' calls to what they call.                         *)
THEOREM ReachesAll == Spec => []PathWhole
<1>1. IInv /\ ServingInv => PathWhole
  <2> SUFFICES ASSUME IInv, ServingInv, NEW q \in Accepted,
                      \A s \in Stack : stack[s].phase \in Settled /\ stack[s].plan = q
               PROVE  PathWhole
    BY DEF PathWhole, Agreed
  <2>1. \A r \in Resource : made[r] # NoRequest /\ ~Differs(r, made[r], q)
    BY AtPlan DEF IInv, ServingInv
  <2>2. {"distribution", "listener", "ingress", "taskDef", "runtime", "proxyGrants",
         "agentGrants"} \subseteq Resource
    BY MembersAt, MembersResource, AppMembers, AgentCoreMembers, DataMembers DEF Stack
  <2>3. HopOpen(made["distribution"], made["listener"], made["ingress"])
    BY <2>1, <2>2, HopFits
  <2>4. \A c \in ProxyCalls(made["taskDef"]) : Permitted(c, ProxyGrants(made["proxyGrants"]))
    BY <2>1, <2>2, ProxyPermitted
  <2>5. \A c \in AgentCalls(made["runtime"]) : Permitted(c, AgentGrants(made["agentGrants"]))
    BY <2>1, <2>2, AgentPermitted
  <2>6. PlainCalls \subseteq InterfaceEndpoints \cup GatewayEndpoints
    BY DEF PlainCalls, InterfaceEndpoints, GatewayEndpoints
  <2> QED
    BY <2>3, <2>4, <2>5, <2>6, SessionServed, ProvisionerPermitted DEF PathWhole
<1> QED
  BY <1>1, Inductive, Serving, PTL
=============================================================================
