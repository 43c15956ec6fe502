----------------------------- MODULE Deployment -----------------------------
(***************************************************************************)
(* A deployment over its life: the command line deploys or destroys the    *)
(* stacks of Stacks one after another, CloudFormation makes, changes,      *)
(* restores or removes the resources of each in any order their needs      *)
(* allow, CodeBuild builds the two images behind their triggers, ECS rolls *)
(* the service, and the demo user is created.  What CloudFormation, the    *)
(* custom resource provider, CodeBuild, ECR and ECS do is external,        *)
(* modelled from how the constructs use them.                              *)
(***************************************************************************)
EXTENDS Access, Naturals

CONSTANTS
    NoRequest,     \* no request
    NoBuild,       \* no build that is waited for
    NoStack,       \* no stack
    Rank,          \* which of several stacks in reach the toolkit takes first
    MaxCommands,   \* bound on the commands that are given
    MaxFaults,     \* bound on the failures that nothing here causes
    Failures       \* the ways a build ends without an image

ASSUME ConstantsAssumption ==
    /\ NoRequest \notin Requests /\ NoStack \notin Stack
    /\ Rank \in [Stack -> Nat]
    /\ Failures \subseteq {"FAILED", "FAULT", "TIMED_OUT", "STOPPED"}
    /\ NoBuild \notin [tag : Sources, platform : {"arm64", "amd64"},
                       status : Failures \cup {"IN_PROGRESS", "SUCCEEDED"}]
    /\ MaxCommands \in Nat /\ MaxFaults \in Nat

VARIABLES
    cli,       \* the command that runs: [mode, ask, todo, at, said]
    stack,     \* [Stack -> [phase, plan, was]]
    made,      \* [Resource -> the request it was last written from]
    dirty,     \* resources whose change was begun and has not succeeded
    repo,      \* [Image -> [tag -> platform of its image, or "none"]]
    run,       \* [Image -> the build its trigger waits for]
    late,      \* [Image -> the running builds nobody waits for any more]
    roll,      \* the request the service is being rolled to
    tasks,     \* the healthy tasks: [kept, fresh]
    user,      \* the demo user: "none", "temporary" or "permanent"
    commands, faults

vars == <<cli, stack, made, dirty, repo, run, late, roll, tasks, user,
          commands, faults>>

world == <<made, dirty, repo, run, late, roll, tasks, user>>

Accepted == DOMAIN Setting
Build    == [tag : Sources, platform : {"arm64", "amd64"}]
Statuses == Failures \cup {"IN_PROGRESS", "SUCCEEDED"}
Waited   == [tag : Sources, platform : {"arm64", "amd64"}, status : Statuses]

Phases == {"absent", "creating", "updating", "restoring", "deleting",
           "live", "restored", "stuck"}

Settled == {"live", "restored"}          \* a stack that can be updated
Busy    == {"creating", "updating", "restoring", "deleting"}

Init ==
    /\ cli = [mode |-> "idle", ask |-> NoRequest, todo |-> {}, at |-> NoStack,
              said |-> "nothing"]
    /\ stack = [s \in Stack |-> [phase |-> "absent", plan |-> NoRequest, was |-> NoRequest]]
    /\ made = [r \in Resource |-> NoRequest]
    /\ dirty = {}
    /\ repo = [i \in Image |-> [t \in Sources |-> "none"]]
    /\ run = [i \in Image |-> NoBuild]
    /\ late = [i \in Image |-> {}]
    /\ roll = NoRequest /\ tasks = [kept |-> 0, fresh |-> 0]
    /\ user = "none"
    /\ commands = 0 /\ faults = 0

-----------------------------------------------------------------------------
(* Commands: scripts/deploy.sh and destroy.sh.  A refused context throws    *)
(* before anything is deployed.                                             *)

Deploy(q) ==
    /\ cli.mode = "idle" /\ commands < MaxCommands
    /\ commands' = commands + 1
    /\ cli' = IF Valid(q)
              THEN [mode |-> "deploy", ask |-> q, todo |-> Stack, at |-> NoStack,
                    said |-> "nothing"]
              ELSE [cli EXCEPT !.said = "refused"]
    /\ UNCHANGED <<stack, world, faults>>

Destroy(all) ==
    /\ cli.mode = "idle" /\ commands < MaxCommands
    /\ commands' = commands + 1
    /\ cli' = [mode |-> "destroy", ask |-> NoRequest,
               todo |-> IF all THEN Stack ELSE Stack \ {"Network"},
               at |-> NoStack, said |-> "nothing"]
    /\ UNCHANGED <<stack, world, faults>>

Ended(said) == [cli EXCEPT !.mode = "idle", !.todo = {}, !.at = NoStack, !.said = said]

(* The terminal goes away; CloudFormation goes on with the stack at hand. *)
Interrupt ==
    /\ cli.mode # "idle" /\ faults < MaxFaults
    /\ faults' = faults + 1
    /\ cli' = Ended("interrupted")
    /\ UNCHANGED <<stack, world, commands>>

(* The stacks a command may turn to: in the order of their dependencies, or *)
(* against it.                                                              *)
InReach(s) ==
    \A t \in cli.todo \ {s} :
        IF cli.mode = "deploy" THEN t \notin StackDeps[s] ELSE s \notin StackDeps[t]

MayTurnTo(s) ==
    /\ cli.mode # "idle" /\ cli.at = NoStack /\ s \in cli.todo /\ InReach(s)
    /\ \A t \in cli.todo : InReach(t) => Rank[s] <= Rank[t]

(* The same template as before is not deployed again. *)
Unchanged(s) ==
    /\ stack[s].phase \in Settled
    /\ \A r \in Members[s] : ~Differs(r, stack[s].plan, cli.ask)

SkipStack(s) ==
    /\ MayTurnTo(s)
    /\ \/ /\ cli.mode = "deploy" /\ Unchanged(s)
          /\ stack' = [stack EXCEPT ![s].plan = cli.ask]
       \/ /\ cli.mode = "destroy" /\ stack[s].phase = "absent"
          /\ UNCHANGED stack
    /\ cli' = [cli EXCEPT !.todo = @ \ {s}]
    /\ UNCHANGED <<world, commands, faults>>

TakeStack(s) ==
    /\ MayTurnTo(s) /\ cli.mode = "deploy" /\ ~Unchanged(s)
    /\ stack[s].phase \in Settled \cup {"absent"}
    /\ stack' = [stack EXCEPT ![s] =
          [phase |-> IF @.phase = "absent" THEN "creating" ELSE "updating",
           plan  |-> cli.ask, was |-> @.plan]]
    /\ cli' = [cli EXCEPT !.at = s]
    /\ UNCHANGED <<world, commands, faults>>

-----------------------------------------------------------------------------
(* A stack's operation: what it leads to, what is left to do for it, and    *)
(* what it may turn to next.                                                *)

Target(s) == IF stack[s].phase = "restoring" THEN stack[s].was ELSE stack[s].plan

Due(s, r) ==
    made[r] # NoRequest => Differs(r, made[r], Target(s)) \/ r \in dirty

Ready(s, r) ==
    /\ stack[s].phase \in {"creating", "updating", "restoring"}
    /\ r \in Members[s] /\ Due(s, r)
    /\ \A n \in Needs[r] : made[n] # NoRequest /\ (n \in Members[s] => ~Due(s, n))

Write(r, q) == made' = [made EXCEPT ![r] = q]

Plain == Resource \ {"agentTrigger", "proxyTrigger", "service", "demoUser"}

Put(s, r) ==
    /\ Ready(s, r) /\ r \in Plain
    /\ Write(r, Target(s))
    /\ UNCHANGED <<cli, stack, dirty, repo, run, late, roll, tasks, user, commands, faults>>

(* What a failed operation leaves running: the builds go on without anybody *)
(* waiting for them, and ECS turns a deployment of the service around.      *)
Abandoned(i) ==
    IF run[i] # NoBuild /\ run[i].status = "IN_PROGRESS"
    THEN {[tag |-> run[i].tag, platform |-> run[i].platform]} ELSE {}

LeaveBuilds(s) ==
    IF s = "Build"
    THEN /\ late' = [i \in Image |-> late[i] \cup Abandoned(i)]
         /\ run' = [i \in Image |-> NoBuild]
    ELSE UNCHANGED <<late, run>>

TurnService(s) ==
    IF s # "App" \/ roll \in {NoRequest, made["service"]} THEN UNCHANGED <<roll, tasks>>
    ELSE /\ roll' = made["service"]
         /\ tasks' = IF made["service"] = NoRequest THEN [kept |-> 0, fresh |-> 0]
                     ELSE [kept |-> tasks.fresh, fresh |-> tasks.kept]

(* A stack that was never complete is removed again, a complete one is      *)
(* restored; when that fails too, it is stuck.                              *)
Failing(s) ==
    /\ stack[s].phase \in Busy
    /\ stack' = [stack EXCEPT ![s].phase =
          IF @ = "creating" THEN "deleting" ELSE IF @ = "updating" THEN "restoring"
          ELSE "stuck"]
    /\ LeaveBuilds(s) /\ TurnService(s)
    /\ UNCHANGED <<made, dirty, repo, user, cli, commands>>

Fail(s) ==
    /\ faults < MaxFaults /\ faults' = faults + 1
    /\ Failing(s)

FinishStack(s) ==
    /\ stack[s].phase \in {"creating", "updating", "restoring"}
    /\ \A r \in Members[s] : ~Due(s, r)
    /\ s = "App" => roll = NoRequest
    /\ stack' = [stack EXCEPT ![s] =
          [phase |-> IF @.phase = "restoring" THEN "restored" ELSE "live",
           plan  |-> Target(s), was |-> NoRequest]]
    /\ UNCHANGED <<cli, world, commands, faults>>

-----------------------------------------------------------------------------
(* The image builds: image-build-construct.ts with its inline handlers.     *)

(* on_event: the build runs the project as it is at this moment. *)
StartBuild(i) ==
    /\ Ready("Build", Trigger[i]) /\ run[i] = NoBuild
    /\ run' = [run EXCEPT ![i] =
          [tag |-> Source[made[Project[i]]][i],
           platform |-> Platform(i, made[Project[i]]), status |-> "IN_PROGRESS"]]
    /\ dirty' = dirty \cup {Trigger[i]}
    /\ UNCHANGED <<cli, stack, made, repo, late, roll, tasks, user, commands, faults>>

Pushed(i, b) == [repo EXCEPT ![i][b.tag] = b.platform]

BuildEnds(i, status) ==
    /\ run[i] # NoBuild /\ run[i].status = "IN_PROGRESS"
    /\ run' = [run EXCEPT ![i].status = status]
    /\ repo' = IF status = "SUCCEEDED" THEN Pushed(i, run[i]) ELSE repo
    /\ UNCHANGED <<cli, stack, made, dirty, late, roll, tasks, user, commands, faults>>

(* is_complete, every fifteen seconds. *)
IsComplete(status) == status = "SUCCEEDED"

Raises(status) == status \in {"FAILED", "FAULT", "TIMED_OUT", "STOPPED"}

PollBuild(i) ==
    /\ run[i] # NoBuild /\ IsComplete(run[i].status)
    /\ Write(Trigger[i], Target("Build"))
    /\ dirty' = dirty \ {Trigger[i]}
    /\ run' = [run EXCEPT ![i] = NoBuild]
    /\ UNCHANGED <<cli, stack, repo, late, roll, tasks, user, commands, faults>>

(* Mutant: the provider waits as long as the build runs. *)
ProviderPatience(i) ==
    /\ run[i] # NoBuild /\ run[i].status # "IN_PROGRESS"
    /\ Failing("Build") /\ UNCHANGED faults

(* The build failed, or forty minutes passed: a build that had to queue may *)
(* take longer than its own thirty.                                         *)
BuildFailed(i) ==
    /\ run[i] # NoBuild /\ Raises(run[i].status)
    /\ Failing("Build") /\ UNCHANGED faults

ProviderTimeout(i) ==
    /\ run[i] # NoBuild
    /\ Failing("Build") /\ UNCHANGED faults

(* A build nobody waits for ends: with a push, if its repository is there.  *)
LateBuild(i, b) ==
    /\ b \in late[i]
    /\ late' = [late EXCEPT ![i] = @ \ {b}]
    /\ repo' \in {repo} \cup IF made[Repo[i]] = NoRequest THEN {} ELSE {Pushed(i, b)}
    /\ UNCHANGED <<cli, stack, made, dirty, run, roll, tasks, user, commands, faults>>

-----------------------------------------------------------------------------
(* The service: proxy-construct.ts.  A task starts when its image is there  *)
(* and is for its processor.                                                *)
(* Mutant: ECS may stop every old task first. *)
NoHealthyPercent == 0

MinHealthyPercent == 50
MaxHealthyPercent == 200

Desired(q) == Setting[q].desiredCount
Floor(q)   == (Desired(q) * MinHealthyPercent + 99) \div 100
Ceiling(q) == (Desired(q) * MaxHealthyPercent) \div 100

Cpu(q) == IF Setting[q].cpuArchitecture = "ARM64" THEN "arm64" ELSE "amd64"

Runnable(q) == repo["proxy"][Source[q]["proxy"]] = Cpu(q)

RollStart ==
    /\ Ready("App", "service") /\ roll = NoRequest
    /\ roll' = Target("App")
    /\ UNCHANGED <<cli, stack, made, dirty, repo, run, late, tasks, user, commands, faults>>

TaskUp ==
    /\ roll # NoRequest /\ Runnable(roll)
    /\ tasks.fresh < Desired(roll) /\ tasks.kept + tasks.fresh < Ceiling(roll)
    /\ tasks' = [tasks EXCEPT !.fresh = @ + 1]
    /\ UNCHANGED <<cli, stack, made, dirty, repo, run, late, roll, user, commands, faults>>

TaskDown ==
    /\ roll # NoRequest
    /\ tasks.kept > 0 /\ tasks.kept + tasks.fresh > Floor(roll)
    /\ tasks' = [tasks EXCEPT !.kept = @ - 1]
    /\ UNCHANGED <<cli, stack, made, dirty, repo, run, late, roll, user, commands, faults>>

RollDone ==
    /\ roll # NoRequest
    /\ tasks.kept = 0 /\ tasks.fresh = Desired(roll)
    /\ Write("service", roll)
    /\ roll' = NoRequest
    /\ tasks' = [kept |-> tasks.fresh, fresh |-> 0]
    /\ UNCHANGED <<cli, stack, dirty, repo, run, late, user, commands, faults>>

CircuitBreak ==
    /\ roll # NoRequest /\ ~Runnable(roll) /\ tasks.fresh < Desired(roll)
    /\ stack["App"].phase \in {"creating", "updating", "restoring"}
    /\ Failing("App") /\ UNCHANGED faults

-----------------------------------------------------------------------------
(* The demo user: auth-construct.ts.  The handler creates the user, passes  *)
(* over one that exists, sets the password and only then answers.           *)
(* Mutant: the handler answers when the user is there. *)
CreateUserAndAnswer ==
    /\ Ready("App", "demoUser") /\ user = "none"
    /\ user' = "temporary"
    /\ Write("demoUser", Target("App"))
    /\ UNCHANGED <<cli, stack, dirty, repo, run, late, roll, tasks, commands, faults>>

CreateUser ==
    /\ Ready("App", "demoUser") /\ user = "none"
    /\ user' = "temporary"
    /\ dirty' = dirty \cup {"demoUser"}
    /\ UNCHANGED <<cli, stack, made, repo, run, late, roll, tasks, commands, faults>>

SetPassword ==
    /\ Ready("App", "demoUser") /\ user # "none"
    /\ user' = "permanent"
    /\ Write("demoUser", Target("App"))
    /\ dirty' = dirty \ {"demoUser"}
    /\ UNCHANGED <<cli, stack, repo, run, late, roll, tasks, commands, faults>>

-----------------------------------------------------------------------------
(* Removal: a resource goes after those that need it, a repository with its *)
(* images (emptyOnDelete), the user with its pool.                          *)
Drop(s, r) ==
    /\ stack[s].phase = "deleting" /\ r \in Members[s] /\ made[r] # NoRequest
    /\ \A d \in Members[s] : r \in Needs[d] => made[d] = NoRequest
    /\ Write(r, NoRequest)
    /\ dirty' = dirty \ {r}
    /\ repo' = [i \in Image |->
                  IF r = Repo[i] THEN [t \in Sources |-> "none"] ELSE repo[i]]
    /\ roll' = IF r = "service" THEN NoRequest ELSE roll
    /\ tasks' = IF r = "service" THEN [kept |-> 0, fresh |-> 0] ELSE tasks
    /\ user' = IF r = "auth" THEN "none" ELSE user
    /\ UNCHANGED <<cli, stack, run, late, commands, faults>>

FinishDelete(s) ==
    /\ stack[s].phase = "deleting"
    /\ \A r \in Members[s] : made[r] = NoRequest
    /\ stack' = [stack EXCEPT ![s] =
                   [phase |-> "absent", plan |-> NoRequest, was |-> NoRequest]]
    /\ dirty' = dirty \ Members[s]
    /\ UNCHANGED <<cli, made, repo, run, late, roll, tasks, user, commands, faults>>

(* A stack is removed when nothing imports from it; one that is still being *)
(* removed is waited for.                                                   *)
Removable(s) ==
    /\ stack[s].phase \in Settled \cup {"stuck", "creating", "deleting"}
    /\ \A t \in Stack : s \in Imports[t] => stack[t].phase = "absent"

TakeDelete(s) ==
    /\ MayTurnTo(s) /\ cli.mode = "destroy" /\ Removable(s)
    /\ cli' = [cli EXCEPT !.at = s]
    /\ stack' = [stack EXCEPT ![s].phase = "deleting"]
    /\ IF stack[s].phase = "creating" THEN LeaveBuilds(s) /\ TurnService(s)
       ELSE UNCHANGED <<late, run, roll, tasks>>
    /\ UNCHANGED <<made, dirty, repo, user, commands, faults>>

-----------------------------------------------------------------------------
(* How a command goes on.  CloudFormation refuses an operation on a stack   *)
(* that is busy or stuck, and the removal of exports that are imported.     *)
RefuseStack(s) ==
    /\ MayTurnTo(s)
    /\ IF cli.mode = "deploy" THEN stack[s].phase \in Busy \cup {"stuck"}
       ELSE stack[s].phase # "absent" /\ ~Removable(s)
    /\ cli' = Ended("failed")
    /\ UNCHANGED <<stack, world, commands, faults>>

GoOn ==
    /\ cli.at # NoStack
    /\ LET phase == stack[cli.at].phase
       IN  /\ phase \notin Busy
           /\ cli' = IF phase = (IF cli.mode = "deploy" THEN "live" ELSE "absent")
                     THEN [cli EXCEPT !.todo = @ \ {cli.at}, !.at = NoStack]
                     ELSE Ended("failed")
    /\ UNCHANGED <<stack, world, commands, faults>>

Done ==
    /\ cli.mode # "idle" /\ cli.todo = {}
    /\ cli' = Ended(IF cli.mode = "deploy" THEN "deployed" ELSE "destroyed")
    /\ UNCHANGED <<stack, world, commands, faults>>

-----------------------------------------------------------------------------
(* What happens of itself: the command line, CloudFormation with the        *)
(* provider, ECS.  Commands, failures and the builds may or may not come.   *)
Engine ==
    \/ \E s \in Stack : \/ SkipStack(s) \/ TakeStack(s) \/ TakeDelete(s)
                        \/ RefuseStack(s) \/ FinishStack(s) \/ FinishDelete(s)
    \/ \E s \in Stack : \E r \in Members[s] : Put(s, r) \/ Drop(s, r)
    \/ GoOn \/ Done
    \/ \E i \in Image : \/ StartBuild(i) \/ PollBuild(i)
                        \/ BuildFailed(i) \/ ProviderTimeout(i)
    \/ RollStart \/ TaskUp \/ TaskDown \/ RollDone \/ CircuitBreak
    \/ CreateUser \/ SetPassword

Next ==
    \/ \E q \in Requests : Deploy(q)
    \/ \E all \in BOOLEAN : Destroy(all)
    \/ Interrupt
    \/ \E s \in Stack : Fail(s)
    \/ \E i \in Image : \/ \E status \in Failures \cup {"SUCCEEDED"} : BuildEnds(i, status)
                        \/ \E b \in late[i] : LateBuild(i, b)
    \/ Engine

Spec == Init /\ [][Next]_vars /\ WF_vars(Engine)

-----------------------------------------------------------------------------
TypeOK ==
    /\ cli \in [mode : {"idle", "deploy", "destroy"}, ask : Accepted \cup {NoRequest},
                todo : SUBSET Stack, at : Stack \cup {NoStack},
                said : {"nothing", "deployed", "destroyed", "failed", "refused",
                        "interrupted"}]
    /\ stack \in [Stack -> [phase : Phases, plan : Accepted \cup {NoRequest},
                            was : Accepted \cup {NoRequest}]]
    /\ made \in [Resource -> Accepted \cup {NoRequest}]
    /\ dirty \subseteq Resource
    /\ repo \in [Image -> [Sources -> {"arm64", "amd64", "none"}]]
    /\ run \in [Image -> Waited \cup {NoBuild}]
    /\ late \in [Image -> SUBSET Build]
    /\ roll \in Accepted \cup {NoRequest}
    /\ tasks \in [kept : Nat, fresh : Nat]
    /\ user \in {"none", "temporary", "permanent"}
    /\ commands \in 0..MaxCommands /\ faults \in 0..MaxFaults

(* An image that the agent runtime, the task definition, the service or the *)
(* deployment ECS is busy with names can be pulled, whatever commands,      *)
(* failed or late builds, rollbacks and removals came before: the image     *)
(* comes from one stack, its users are in two others, and nothing but the   *)
(* order of app.ts and the waiting trigger keeps them in step.              *)
References(i) ==
    IF i = "agent" THEN {made["runtime"]}
    ELSE {made["taskDef"], made["service"], roll}

Contract == INSTANCE ImageContract WITH
    Images <- Image, Tags <- Sources,
    pushed <- {x \in Image \X Sources : repo[x[1]][x[2]] # "none"},
    inUse  <- {x \in Image \X Sources :
                  \E q \in References(x[1]) \ {NoRequest} : Source[q][x[1]] = x[2]}

ImagesKept == Contract!Spec

(* What a resource needs to do its work, as the comments of the constructs  *)
(* give it, whatever the template says: the VPC origin wants an attached    *)
(* internet gateway, its managed group appears with the distribution, a     *)
(* pull goes through the endpoints and the S3 gateway under a grant, the    *)
(* provisioner reaches the collection through the endpoints even to delete  *)
(* it.                                                                      *)
WorkNeeds ==
    [agentTrigger |-> {"agentRepo", "agentProject"},
     proxyTrigger |-> {"proxyRepo", "proxyProject"},
     index        |-> {"provisioner", "endpoints", "agentRole", "proxyRole"},
     runtime      |-> {"agentTrigger", "agentGrants", "endpoints", "s3Egress", "index"},
     service      |-> {"proxyTrigger", "proxyGrants", "endpoints", "s3Egress",
                       "listener", "runtime", "auth"},
     demoUser     |-> {"auth"},
     distribution |-> {"igw", "alb", "webAcl"},
     lookup       |-> {"distribution"},
     ingress      |-> {"lookup"}]

(* Whatever exists stands on what it needs to work, at every moment of a    *)
(* deployment, a rollback and a removal.                                    *)
StandsOnItsNeeds ==
    \A r \in DOMAIN WorkNeeds : made[r] # NoRequest =>
        \A n \in WorkNeeds[r] : made[n] # NoRequest

Words == {"text", "padded"}

(* A key of the command line, a resource that carries its setting, and the  *)
(* kinds of values that are taken as they are written.                      *)
Carriers ==
    {<<"cpuArchitecture", "taskDef", Words>>, <<"bedrockModelId", "runtime", Words>>,
     <<"albOriginProtocol", "listener", Words>>,
     <<"albOriginProtocol", "distribution", Words>>,
     <<"albOriginProtocol", "ingress", Words>>,
     <<"availabilityZones", "vpc", {"list", "csv"}>>,
     <<"desiredCount", "service", {"number", "numeral"}>>}

AsWritten(k, v) ==
    CASE k = "albOriginProtocol" -> UpperCase(v)
      [] k = "availabilityZones" -> NonEmpty(v)
      [] OTHER -> v

(* A command that says it deployed has deployed what was asked: a flat key  *)
(* of the command line wins over the object and reaches the resources, each *)
(* is as the request writes it, both images are there, and all tasks are    *)
(* new ones.                                                                *)
AsRequested ==
    cli.mode = "idle" /\ cli.said = "deployed" =>
        LET q == cli.ask
        IN  /\ \A r \in Resource : made[r] # NoRequest /\ ~Differs(r, made[r], q)
            /\ \A i \in Image : repo[i][Source[q][i]] # "none"
            /\ tasks = [kept |-> Desired(q), fresh |-> 0]
            /\ \A c \in Carriers :
                  LET flat == Context[q].flat[c[1]]
                  IN  flat.t \in c[3] =>
                         Setting[made[c[2]]][c[1]] = AsWritten(c[1], flat.v)

(* In a deployment whose stacks agree on the request, what a browser sends  *)
(* in a session gets to the proxy, and every call of the proxy, the agent   *)
(* and the provisioner has an endpoint out of the isolated subnets and a    *)
(* grant of its role; the provisioner's grant is made for an embeddings     *)
(* model without a region prefix.                                           *)
Agreed == \E q \in Accepted :
    \A s \in Stack : stack[s].phase \in Settled /\ stack[s].plan = q

PathWhole ==
    Agreed =>
        /\ \A v \in SessionRequests : Served(v)
        /\ HopOpen(made["distribution"], made["listener"], made["ingress"])
        /\ \A c \in ProxyCalls(made["taskDef"]) :
              Permitted(c, ProxyGrants(made["proxyGrants"]))
        /\ \A c \in AgentCalls(made["runtime"]) :
              Permitted(c, AgentGrants(made["agentGrants"]))
        /\ Setting[made["provisioner"]].bedrockEmbedModelId.geo = "none" =>
              \A c \in ProvisionerCalls(made["provisioner"]) :
                  Permitted(c, ProvisionerGrants(made["provisioner"]))
        /\ PlainCalls \subseteq InterfaceEndpoints \cup GatewayEndpoints

(* What the stack of the service asks for, and asked for before.            *)
Asked == {stack["App"].plan, stack["App"].was} \ {NoRequest}

(* From the moment the service is up until it is removed, half of the       *)
(* smaller of two numbers of tasks answers, the one that its stack asks for *)
(* and the one that it asked for before: through updates, failed rolls and  *)
(* restorations, also when one follows upon the other.                      *)
ServedThroughout ==
    made["service"] # NoRequest =>
        \E q \in Asked : 2 * (tasks.kept + tasks.fresh) >= Desired(q)

(* Whoever is given the site can log in: the password is final before the   *)
(* stack is there, although the user is created first and the handler may   *)
(* fail, and be repeated, in between.                                       *)
DemoUserReady == stack["App"].phase \in Settled => user = "permanent"

(* A command comes to an end and the stacks to rest, whatever the builds    *)
(* do: the provider's timeout, the circuit breaker and the rollbacks see to *)
(* it.                                                                      *)
AtRest == cli.mode = "idle" /\ \A s \in Stack : stack[s].phase \notin Busy

CommandEnds == ~AtRest ~> AtRest

(* build-stack.ts and proxy-construct.ts say that the proxy's image is      *)
(* built for the platform of the task definition: so is the build that the  *)
(* trigger last waited for, once the stack is complete.  (That a late build *)
(* may push over it is another matter.)                                     *)
ImageMatchesPlatform ==
    stack["Build"].phase = "live" =>
        Platform("proxy", made["proxyTrigger"]) = Cpu(stack["Build"].plan)
=============================================================================
