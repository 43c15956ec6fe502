--------------------------- MODULE DeploymentInv ---------------------------
(***************************************************************************)
(* The inductive invariant of Deployment: what a command has behind it,    *)
(* what the phase of a stack says about its resources and those of the     *)
(* stacks it imports from, what a build that is waited for stands on, and  *)
(* which requests the images are there for.                                *)
(***************************************************************************)
EXTENDS Deployment

Working == {"creating", "updating", "restoring"}   \* resources are written
Whole   == Settled \cup {"updating", "restoring"}  \* none is missing

Is(r) == made[r] # NoRequest

(* The image that request q names for i can be pulled. *)
Pullable(q, i) == repo[i][Source[q][i]] # "none"

(* What the stack of the containers of image i is, or was, written from. *)
UserStack == [agent |-> "Agent", proxy |-> "App"]

Plans(i) == {stack[UserStack[i]].plan, stack[UserStack[i]].was}

(* A command that deploys has settled every stack that it is done with, and *)
(* waits for the one it is at.                                              *)
CommandInv ==
    /\ cli.mode = "idle" => cli.at = NoStack
    /\ cli.mode = "deploy" =>
          /\ cli.ask \in Accepted
          /\ \A s \in Stack \ cli.todo :
                stack[s].phase \in Settled /\ stack[s].plan = cli.ask
          /\ cli.at # NoStack /\ stack[cli.at].phase \in {"creating", "updating", "live"}
                => stack[cli.at].plan = cli.ask

(* What the phase of a stack says about its plans and its resources. *)
PhaseInv ==
    \A s \in Stack :
        /\ IF stack[s].phase = "absent"
           THEN /\ stack[s].plan = NoRequest /\ stack[s].was = NoRequest
                /\ \A r \in Members[s] : ~Is(r)
           ELSE stack[s].plan \in Accepted
        /\ stack[s].phase \in {"updating", "restoring"} => stack[s].was \in Accepted
        /\ stack[s].phase \in Whole => \A r \in Members[s] : Is(r)

(* A stack is there only beside the whole of those it imports from; within  *)
(* a stack a resource is there only beside those that it needs.             *)
OrderInv ==
    \A s \in Stack :
        /\ stack[s].phase # "absent" => \A t \in Imports[s] :
              /\ stack[t].phase \notin {"absent", "creating", "deleting"}
              /\ \A n \in Members[t] : Is(n)
        /\ \A r \in Members[s] : Is(r) => \A n \in Needs[r] \cap Members[s] : Is(n)

(* A build is waited for while its stack is worked on, stands on its        *)
(* project, and carries the tag of the stack's target.                      *)
BuildInv ==
    \A i \in Image : run[i] # NoBuild =>
        /\ stack["Build"].phase \in Working
        /\ Trigger[i] \in dirty /\ Is(Project[i])
        /\ run[i].tag = Source[Target("Build")][i]
        /\ run[i].status = "SUCCEEDED" => repo[i][run[i].tag] # "none"

(* Outside of the work on its stack the service is rolled to nothing but    *)
(* what it was, and a roll stands on what the service needs.                *)
RollInv ==
    roll # NoRequest =>
        /\ stack["App"].phase \in Working \/ roll = made["service"]
        /\ \A n \in Needs["service"] \cap Members["App"] : Is(n)

(* The images are there for whoever may come to name them. *)
ImageInv ==
    /\ \A i \in Image : Is(Trigger[i]) => Pullable(made[Trigger[i]], i)
    /\ stack["Build"].phase \in Settled =>
          \A i \in Image : Pullable(stack["Build"].plan, i)
    /\ \A i \in Image : \A q \in (Plans(i) \cup References(i)) \ {NoRequest} : Pullable(q, i)

UserInv ==
    Is("demoUser") /\ "demoUser" \notin dirty => user = "permanent"

IInv ==
    /\ TypeOK /\ CommandInv /\ PhaseInv /\ OrderInv
    /\ BuildInv /\ RollInv /\ ImageInv /\ UserInv /\ DemoUserReady

(* The resources of a stack at rest are as its plan writes them.            *)
WrittenInv ==
    \A s \in Stack : stack[s].phase \in Settled =>
        \A r \in Members[s] : ~Differs(r, made[r], stack[s].plan)

(* What was asked for before is of no account at rest or in the making.     *)
WasInv ==
    stack["App"].phase \in Settled \cup {"absent", "creating"} =>
        stack["App"].was = NoRequest

(* Is the number of tasks of request p one that the stack asks for, or      *)
(* asked for before?                                                        *)
OfAsked(p) == \E q \in Asked : Desired(p) = Desired(q)

AllThere(m) == [kept |-> IF m = NoRequest THEN 0 ELSE Desired(m), fresh |-> 0]

(* The service, and what it is rolled to, have a number of tasks that their *)
(* stack asks for or asked for before.  Where no roll is going on the tasks *)
(* are all there and alike; where one is, half of some such number is.      *)
ServiceInv ==
    /\ roll # NoRequest => stack["App"].phase \notin Settled /\ OfAsked(roll)
    /\ made["service"] # NoRequest => OfAsked(made["service"])
    /\ roll = NoRequest => tasks = AllThere(made["service"])
    /\ roll # NoRequest => ServedThroughout

(* Nothing moves behind a command that said that it deployed.               *)
SaidInv ==
    cli.mode = "idle" /\ cli.said = "deployed" =>
        /\ cli.ask \in Accepted
        /\ \A s \in Stack : stack[s].phase \in Settled /\ stack[s].plan = cli.ask

ServingInv == WrittenInv /\ WasInv /\ ServiceInv /\ SaidInv
=============================================================================
