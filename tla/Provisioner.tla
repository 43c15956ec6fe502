---------------------------- MODULE Provisioner -----------------------------
(***************************************************************************)
(* The Lambda behind the custom resource that provisions OpenSearch        *)
(* Serverless: Create and Update make sure that a collection group, three  *)
(* policies and a collection exist and seed its index; Delete takes them   *)
(* away.  Every call to AWS may fail, before or after it took effect, and  *)
(* take long; the Lambda is killed at its limit, and CloudFormation may    *)
(* deliver the request again to whatever the killed one left.              *)
(*                                                                         *)
(* One action per thing that is made or deleted; it may stand for two or   *)
(* three calls (create, then get and update).  The control plane, the data *)
(* plane and CloudFormation are external: what the handler takes them for. *)
(* Time is counted from the start of the Lambda, in units of half a minute,*)
(* to which the poll interval is rounded up.                               *)
(***************************************************************************)
EXTENDS Naturals, FiniteSets

CONSTANTS
    Docs,           \* the chunks of the bundled documents
    Revisions,      \* values of the endpoint id and the principals
    Slow,           \* times a step may take, with all its calls and retries
    Fast,           \* times a step may take with the fail-fast client
    ActiveWait,     \* COLLECTION_ACTIVE_TIMEOUT_SECONDS
    DataPlaneWait,  \* DATA_PLANE_TIMEOUT_SECONDS
    BackoffMax,     \* DATA_PLANE_BACKOFF_MAX_SECONDS, rounded up
    Limit,          \* the time limit of the Lambda function
    MaxRequests,    \* bound: requests of CloudFormation
    MaxAgain        \* bound: how often one of them is delivered again

ASSUME TimesAssumption ==
    /\ Slow \subseteq Nat /\ Fast \subseteq Nat
    /\ ActiveWait \in Nat /\ DataPlaneWait \in Nat /\ Limit \in Nat
    /\ BackoffMax \in Nat \ {0}
ASSUME BoundsAssumption ==
    /\ MaxRequests \in Nat /\ MaxAgain \in Nat
    /\ Revisions \subseteq Nat \ {0}
    /\ Docs # {}

VARIABLES
    generation, \* NEXTGEN has a collection group, CLASSIC has none
    group, encryption,  \* the group and the encryption policy exist
    network, access,    \* the revision the other two policies were written
                        \* with; 0 if there is none
    collection, \* its status
    index,      \* none; mapped: created by the seeding; dynamic: by an upload
    seeds,      \* per document, how many copies are in the index
    stack,      \* what CloudFormation has made of the resource
    request,    \* the request being handled, or handled last
    requests, again,    \* how many there were; redeliveries of this one
    pc, clock,
    deadline,   \* of the wait the handler is in
    answer,     \* what CloudFormation was told
    seeded,     \* the attribute Seeded of the answer
    fault,      \* history: a call of this run failed
    expired,    \* history: a wait of this run ran out
    swallowed   \* history: the update of a policy failed and was passed over

control == <<group, encryption, network, access, collection>>
data    == <<index, seeds>>
cfn     == <<stack, request, requests, again>>
ghost   == <<fault, expired, swallowed>>
vars    == <<generation, control, data, cfn, pc, clock, deadline, answer,
             seeded, ghost>>

Nothing == [d \in Docs |-> 0]

Init ==
    /\ generation \in {"NEXTGEN", "CLASSIC"}
    /\ group = FALSE /\ encryption = FALSE /\ network = 0 /\ access = 0
    /\ collection = "absent" /\ index = "none" /\ seeds = Nothing
    /\ stack = "none" /\ request = [type |-> "none", revision |-> 0]
    /\ requests = 0 /\ again = 0
    /\ pc = "idle" /\ clock = 0 /\ deadline = 0
    /\ answer = "none" /\ seeded = FALSE
    /\ fault = FALSE /\ expired = FALSE /\ swallowed = FALSE

-----------------------------------------------------------------------------
(***************************************************************************)
(* Steps of the handler                                                    *)
(***************************************************************************)

At(l, durations) ==     \* the step at l is made, and takes its time
    /\ pc = l /\ clock <= Limit
    /\ \E d \in durations : clock' = clock + d

Goto(l) == pc' = l /\ UNCHANGED <<stack, answer>>

(* CloudFormation has the answer, or gives the request up. *)
Told(a) ==
    /\ pc' = "idle" /\ answer' = a
    /\ stack' = IF request.type = "Delete" THEN "none"
                ELSE IF request.type = "Create" /\ a # "ok" THEN "failed"
                ELSE "live"

Answers(a) ==           \* a call that ends after the limit is of no use
    \/ clock' <= Limit /\ Told(a)
    \/ clock' > Limit /\ Goto("late")

Raises == Answers("failed") /\ fault' = TRUE /\ UNCHANGED expired

Fixed == UNCHANGED <<generation, request, requests, again>>

(* Where a run of the handler starts. *)
Start(type) == IF type = "Delete" THEN "find"
               ELSE IF generation = "NEXTGEN" THEN "group" ELSE "encryption"

-----------------------------------------------------------------------------
(***************************************************************************)
(* Create and Update: the control plane.  A conflict means that the thing  *)
(* exists, which is as good as having created it.                          *)
(***************************************************************************)

(* Mutant: a conflict is an error like any other. *)
EnsureGroupOnce ==
    /\ At("group", Slow)
    /\ \/ ~group /\ group' = TRUE /\ Goto("encryption") /\ UNCHANGED <<fault, expired>>
       \/ group /\ Answers("failed") /\ UNCHANGED <<group, fault, expired>>
    /\ UNCHANGED <<encryption, network, access, collection, data, deadline,
                   seeded, swallowed>> /\ Fixed

EnsureGroup ==
    /\ At("group", Slow)
    /\ \/ group' = TRUE /\ Goto("encryption") /\ UNCHANGED <<fault, expired>>
       \/ group' \in {group, TRUE} /\ Raises
    /\ UNCHANGED <<encryption, network, access, collection, data, deadline,
                   seeded, swallowed>> /\ Fixed

EnsureEncryptionPolicy ==
    /\ At("encryption", Slow)
    /\ \/ encryption' = TRUE /\ Goto("network") /\ UNCHANGED <<fault, expired>>
       \/ encryption' \in {encryption, TRUE} /\ Raises
    /\ UNCHANGED <<group, network, access, collection, data, deadline, seeded,
                   swallowed>> /\ Fixed

(* A policy that exists is updated; should that fail, it is passed over. *)
Ensured(policy, next) ==
    \/ /\ policy' = request.revision
       /\ Goto(next) /\ UNCHANGED ghost
    \/ /\ policy # 0 /\ policy' \in {policy, request.revision}
       /\ swallowed' = TRUE
       /\ Goto(next) /\ UNCHANGED <<fault, expired>>
    \/ /\ policy' \in {policy, IF policy = 0 THEN request.revision ELSE policy}
       /\ Raises /\ UNCHANGED swallowed

EnsureNetworkPolicy ==
    /\ At("network", Slow)
    /\ Ensured(network, "access")
    /\ UNCHANGED <<group, encryption, access, collection, data, deadline,
                   seeded>> /\ Fixed

EnsureDataAccessPolicy ==
    /\ At("access", Slow)
    /\ Ensured(access, "create")
    /\ UNCHANGED <<group, encryption, network, collection, data, deadline,
                   seeded>> /\ Fixed

(* Mutant: the status of a new collection is not one the loop knows. *)
CreatedUnknown == IF collection = "absent" THEN "unknown" ELSE collection

Created == IF collection = "absent" THEN "creating" ELSE collection

CreateCollection ==
    /\ At("create", Slow)
    /\ \/ collection' = Created /\ Goto("active") /\ UNCHANGED <<fault, expired>>
       \/ collection' \in {collection, Created} /\ Raises
    /\ deadline' = clock' + ActiveWait
    /\ UNCHANGED <<group, encryption, network, access, data, seeded, swallowed>>
    /\ Fixed

(* Mutant: any status but FAILED is good enough. *)
AwaitAnything ==
    /\ At("active", Slow) /\ clock < deadline
    /\ \/ collection # "failed" /\ Goto("drop") /\ UNCHANGED <<fault, expired>>
       \/ collection = "failed" /\ Answers("failed") /\ UNCHANGED <<fault, expired>>
    /\ deadline' = clock' + DataPlaneWait
    /\ UNCHANGED <<control, data, seeded, swallowed>> /\ Fixed

AwaitActive ==      \* one turn of the loop, and the sleep behind it
    /\ pc = "active" /\ clock <= Limit /\ clock < deadline
    /\ \E d \in Slow :
        \/ /\ collection = "active" /\ clock' = clock + d
           /\ deadline' = clock' + DataPlaneWait
           /\ Goto("drop") /\ UNCHANGED <<fault, expired>>
        \/ /\ collection = "failed" /\ clock' = clock + d
           /\ Answers("failed") /\ UNCHANGED <<deadline, fault, expired>>
        \/ /\ collection \notin {"active", "failed"} /\ clock' = clock + d + 1
           /\ Goto("active") /\ UNCHANGED <<deadline, fault, expired>>
        \/ /\ clock' = clock + d
           /\ Raises /\ UNCHANGED deadline
    /\ UNCHANGED <<control, data, seeded, swallowed>> /\ Fixed

AwaitExpires ==     \* TimeoutError
    /\ pc = "active" /\ clock <= Limit /\ clock >= deadline
    /\ UNCHANGED <<control, data, clock, deadline, seeded, fault, swallowed>>
    /\ Answers("failed") /\ expired' = TRUE
    /\ Fixed

-----------------------------------------------------------------------------
(***************************************************************************)
(* Create and Update: the index and its documents.  What goes wrong here   *)
(* is caught by the handler, which answers all the same.                   *)
(***************************************************************************)

(* A failure in the loop: wait and start over, or give up at the deadline.  *)
(* The backoff is any wait up to its cap, and none goes beyond the deadline.*)
TryAgain(d) ==
    \/ clock + d < deadline
       /\ \E b \in 1..BackoffMax :
            /\ clock + d + b <= deadline
            /\ clock' = clock + d + b
       /\ Goto("drop")
    \/ clock + d >= deadline
       /\ clock' = clock + d
       /\ Goto("sops")

DropIndex ==        \* exists, delete
    /\ pc = "drop" /\ clock <= Limit
    /\ \E d \in Slow :
        \/ /\ clock' = clock + d
           /\ index' = "none" /\ seeds' = Nothing
           /\ Goto("index") /\ UNCHANGED fault
        \/ /\ UNCHANGED data \/ (index' = "none" /\ seeds' = Nothing)
           /\ TryAgain(d) /\ fault' = TRUE
    /\ UNCHANGED <<control, deadline, seeded, expired, swallowed>> /\ Fixed

(* Mutant: an index that has appeared meanwhile is taken for the new one. *)
CreateIndexIfMissing ==
    /\ pc = "index" /\ clock <= Limit
    /\ \E d \in Slow : clock' = clock + d
    /\ index' = IF index = "none" THEN "mapped" ELSE index
    /\ Goto("embed")
    /\ UNCHANGED <<control, seeds, deadline, seeded, ghost>> /\ Fixed

CreateIndex ==      \* create, which raises if an upload was faster
    /\ pc = "index" /\ clock <= Limit
    /\ \E d \in Slow :
        \/ /\ index = "none" /\ index' = "mapped" /\ clock' = clock + d
           /\ Goto("embed") /\ UNCHANGED fault
        \/ /\ index' \in {index, IF index = "none" THEN "mapped" ELSE index}
           /\ TryAgain(d) /\ fault' = TRUE
    /\ UNCHANGED <<control, seeds, deadline, seeded, expired, swallowed>>
    /\ Fixed

EmbedDocuments ==   \* all of them, before any is sent
    /\ At("embed", Slow)
    /\ \/ Goto("bulk") /\ UNCHANGED fault
       \/ Goto("sops") /\ fault' = TRUE
    /\ UNCHANGED <<control, data, deadline, seeded, expired, swallowed>>
    /\ Fixed

BulkIndex ==        \* it may index some, and raise for the others
    /\ At("bulk", Slow)
    /\ \E some \in SUBSET Docs :
        /\ seeds' = [d \in Docs |-> seeds[d] + IF d \in some THEN 1 ELSE 0]
        /\ \/ some = Docs /\ seeded' = TRUE /\ UNCHANGED fault
           \/ fault' = TRUE /\ UNCHANGED seeded
    /\ Goto("sops")
    /\ UNCHANGED <<control, index, deadline, expired, swallowed>> /\ Fixed

StoreSopPdfs ==     \* never raises; then the handler answers
    /\ At("sops", Slow)
    /\ Answers("ok")
    /\ UNCHANGED <<control, data, deadline, seeded, ghost>> /\ Fixed

-----------------------------------------------------------------------------
(***************************************************************************)
(* Delete.  Whatever fails is passed over.  The policies and the group     *)
(* cannot go while the collection is there.                                *)
(***************************************************************************)

InUse == collection # "absent"

FindCollection ==
    /\ At("find", Fast)
    /\ \/ Goto(IF InUse THEN "delete" ELSE "delete access") /\ UNCHANGED fault
       \/ Goto("delete access") /\ fault' = TRUE
    /\ UNCHANGED <<control, data, deadline, seeded, expired, swallowed>>
    /\ Fixed

(* Mutant: the policies are deleted at once. *)
DeleteCollectionOnly ==
    /\ At("delete", Fast)
    /\ collection' = IF InUse THEN "deleting" ELSE collection
    /\ Goto("delete access")
    /\ UNCHANGED <<group, encryption, network, access, data, deadline, seeded,
                   ghost>> /\ Fixed

DeleteCollection ==
    /\ At("delete", Fast)
    /\ \/ /\ collection' = IF InUse THEN "deleting" ELSE collection
          /\ Goto("gone") /\ UNCHANGED fault
       \/ /\ collection' \in {collection, IF InUse THEN "deleting" ELSE collection}
          /\ Goto("delete access") /\ fault' = TRUE
    /\ deadline' = clock' + ActiveWait
    /\ UNCHANGED <<group, encryption, network, access, data, seeded, expired,
                   swallowed>> /\ Fixed

(* Mutant: the wait for the collection to go has no end. *)
AwaitGoneForever ==
    /\ pc = "gone" /\ clock <= Limit
    /\ \E d \in Fast :
        \/ ~InUse /\ clock' = clock + d /\ Goto("delete access")
        \/ InUse /\ clock' = clock + d + 1 /\ Goto("gone")
    /\ UNCHANGED <<control, data, deadline, seeded, ghost>> /\ Fixed

AwaitGone ==
    /\ pc = "gone" /\ clock <= Limit /\ clock < deadline
    /\ \E d \in Fast :
        \/ ~InUse /\ clock' = clock + d /\ Goto("delete access") /\ UNCHANGED fault
        \/ InUse /\ clock' = clock + d + 1 /\ Goto("gone") /\ UNCHANGED fault
        \/ clock' = clock + d /\ Goto("delete access") /\ fault' = TRUE
    /\ UNCHANGED <<control, data, deadline, seeded, expired, swallowed>>
    /\ Fixed

GoneExpires ==
    /\ pc = "gone" /\ clock <= Limit /\ clock >= deadline
    /\ Goto("delete access") /\ expired' = TRUE
    /\ UNCHANGED <<control, data, clock, deadline, seeded, fault, swallowed>>
    /\ Fixed

(* Gone, or not: refused as in use, or failed. *)
Deleted(thing, none) ==
    \/ thing' = (IF InUse THEN thing ELSE none) /\ UNCHANGED fault
    \/ thing' \in {thing, IF InUse THEN thing ELSE none} /\ fault' = TRUE

DeleteAccessPolicy ==
    /\ At("delete access", Fast) /\ Deleted(access, 0) /\ Goto("delete network")
    /\ UNCHANGED <<group, encryption, network, collection, data, deadline,
                   seeded, expired, swallowed>> /\ Fixed

DeleteNetworkPolicy ==
    /\ At("delete network", Fast) /\ Deleted(network, 0)
    /\ Goto("delete encryption")
    /\ UNCHANGED <<group, encryption, access, collection, data, deadline,
                   seeded, expired, swallowed>> /\ Fixed

DeleteEncryptionPolicy ==
    /\ At("delete encryption", Fast) /\ Deleted(encryption, FALSE)
    /\ IF generation = "NEXTGEN" THEN Goto("delete group") ELSE Answers("ok")
    /\ UNCHANGED <<group, network, access, collection, data, deadline, seeded,
                   expired, swallowed>> /\ Fixed

DeleteGroup ==      \* its id is looked up by its name first
    /\ At("delete group", Fast) /\ Deleted(group, FALSE)
    /\ Answers("ok")
    /\ UNCHANGED <<encryption, network, access, collection, data, deadline,
                   seeded, expired, swallowed>> /\ Fixed

-----------------------------------------------------------------------------
(***************************************************************************)
(* CloudFormation and the Lambda service, the control plane, the uploads   *)
(***************************************************************************)

Request(type, revision) ==
    /\ pc = "idle" /\ requests < MaxRequests
    /\ type = "Create" => stack # "live"
    /\ type = "Update" => stack = "live"
    /\ type = "Delete" => stack # "none"
    /\ request' = [type |-> type, revision |-> revision]
    /\ requests' = requests + 1 /\ again' = 0
    /\ pc' = Start(type) /\ clock' = 0 /\ deadline' = 0
    /\ answer' = "none" /\ seeded' = FALSE
    /\ fault' = FALSE /\ expired' = FALSE /\ swallowed' = FALSE
    /\ UNCHANGED <<generation, control, data, stack>>

OverLimit == pc # "idle" /\ clock > Limit

Killed ==           \* and the request is given up, or delivered again
    /\ OverLimit
    /\ \/ /\ Told("killed") /\ UNCHANGED <<again, clock, deadline, seeded, ghost>>
       \/ /\ again < MaxAgain /\ again' = again + 1
          /\ pc' = Start(request.type) /\ clock' = 0 /\ deadline' = 0
          /\ seeded' = FALSE
          /\ fault' = FALSE /\ expired' = FALSE /\ swallowed' = FALSE
          /\ UNCHANGED <<stack, answer>>
    /\ UNCHANGED <<generation, request, requests, control, data>>

CollectionSettles ==
    /\ \/ collection = "creating" /\ collection' \in {"active", "failed"}
          /\ UNCHANGED data
       \/ collection = "deleting" /\ collection' = "absent"
          /\ index' = "none" /\ seeds' = Nothing
    /\ UNCHANGED <<generation, group, encryption, network, access, cfn, pc,
                   clock, deadline, answer, seeded, ghost>>

Upload ==           \* writing to no index may create one
    /\ collection = "active" /\ index = "none" /\ index' = "dynamic"
    /\ UNCHANGED <<generation, control, seeds, cfn, pc, clock, deadline, answer,
                   seeded, ghost>>

Provision ==
    \/ EnsureGroup \/ EnsureEncryptionPolicy \/ EnsureNetworkPolicy
    \/ EnsureDataAccessPolicy \/ CreateCollection \/ AwaitActive \/ AwaitExpires
    \/ DropIndex \/ CreateIndex \/ EmbedDocuments \/ BulkIndex \/ StoreSopPdfs

Teardown ==
    \/ FindCollection \/ DeleteCollection \/ AwaitGone \/ GoneExpires
    \/ DeleteAccessPolicy \/ DeleteNetworkPolicy \/ DeleteEncryptionPolicy
    \/ DeleteGroup

Idle == pc = "idle" /\ UNCHANGED vars

Next ==
    \/ Provision \/ Teardown \/ Killed \/ CollectionSettles \/ Upload \/ Idle
    \/ \E type \in {"Create", "Update", "Delete"}, r \in Revisions :
          Request(type, r)

Spec == Init /\ [][Next]_vars

-----------------------------------------------------------------------------
TypeOK ==
    /\ generation \in {"NEXTGEN", "CLASSIC"}
    /\ group \in BOOLEAN /\ encryption \in BOOLEAN
    /\ network \in {0} \cup Revisions /\ access \in {0} \cup Revisions
    /\ collection \in {"absent", "creating", "active", "failed", "deleting"}
    /\ index \in {"none", "mapped", "dynamic"} /\ seeds \in [Docs -> Nat]
    /\ stack \in {"none", "live", "failed"}
    /\ request.type \in {"none", "Create", "Update", "Delete"}
    /\ request.revision \in {0} \cup Revisions
    /\ requests \in 0..MaxRequests /\ again \in 0..MaxAgain
    /\ clock \in Nat /\ deadline \in Nat
    /\ answer \in {"none", "ok", "failed", "killed"} /\ seeded \in BOOLEAN
    /\ fault \in BOOLEAN /\ expired \in BOOLEAN /\ swallowed \in BOOLEAN

Provisioned == request.type \in {"Create", "Update"} /\ answer = "ok"

(* CloudFormation is told that the resource is there only if the agent can  *)
(* use it: the collection is active, with all that it needs, whatever       *)
(* earlier requests left behind; and the policies are those of this request *)
(* unless an update of one failed, which the code passes over.              *)
SuccessIsUsable ==
    Provisioned =>
        /\ collection = "active" /\ encryption
        /\ generation = "NEXTGEN" => group
        /\ network # 0 /\ access # 0
        /\ swallowed \/ (network = request.revision /\ access = request.revision)

(* The index never has a document twice, however often the request is       *)
(* delivered, and Seeded = "true" means that it has the vector mapping and  *)
(* every document, although uploads write to it meanwhile.                  *)
SeedsOnce ==
    /\ \A d \in Docs : seeds[d] <= 1
    /\ Provisioned /\ seeded =>
          index = "mapped" /\ \A d \in Docs : seeds[d] = 1

(* A Delete answers with success, in time: it is never killed, whatever     *)
(* hangs, so the removal of the stack does not wait for it.                 *)
DeleteAnswers ==
    request.type = "Delete" => ~OverLimit /\ answer \in {"none", "ok"}

(* A Delete in which nothing failed and no wait ran out leaves nothing,     *)
(* also of a Create that stopped halfway.                                   *)
CleanDelete ==
    request.type = "Delete" /\ answer = "ok" /\ ~fault /\ ~expired =>
        /\ collection = "absent" /\ ~encryption /\ network = 0 /\ access = 0
        /\ generation = "NEXTGEN" => ~group

(* Every step may be repeated: a Create or an Update fails for a call that  *)
(* failed, a wait that ran out or a collection that AOSS reports as failed, *)
(* never for what an earlier request has left.                              *)
FailsForAReason ==
    answer = "failed" => fault \/ expired \/ collection = "failed"
=============================================================================
