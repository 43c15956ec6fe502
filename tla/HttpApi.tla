------------------------------ MODULE HttpApi -------------------------------
(***************************************************************************)
(* Login and Uploads together, on the tasks of the proxy.  Both need the   *)
(* session cookie; an upload holds the event loop of its task, where no    *)
(* other handler takes a step meanwhile; and with a task goes what it had  *)
(* in memory, half an upload and the count of attempts.                    *)
(***************************************************************************)
EXTENDS Uploads

CONSTANTS
    MaxRequests,    \* bound: requests of the browser and of other users
    MaxTime,        \* bound of the clock
    MaxFaults       \* bound: tasks that end, and seedings

ASSUME ApiAssumption ==
    MaxRequests \in Nat /\ MaxTime \in Nat /\ MaxFaults \in Nat

VARIABLES requests, faults

bounds == <<requests, faults>>
vars == <<loginVars, uploadVars, bounds>>

Init == LoginInit /\ UploadInit /\ requests = 0 /\ faults = 0

Asks == requests < MaxRequests /\ requests' = requests + 1 /\ UNCHANGED faults
Faulty == faults < MaxFaults /\ faults' = faults + 1 /\ UNCHANGED requests

Browse(b, t) ==
    /\ Open(b, t) \/ SignIn(b, t) \/ SignOut(b, t)
    /\ Asks /\ UNCHANGED uploadVars

Pick(b, t, text) ==     \* the page is there, the session may have expired
    /\ page[b] = "app"
    /\ \E u \in Uploaded : SendUpload(u, t, text, SignedIn)
    /\ Asks /\ UNCHANGED loginVars

Others(t) == Free(t) /\ OthersTry(t) /\ Asks /\ UNCHANGED uploadVars

Respond(b) ==
    /\ req[b].at \notin {"none", "answered"} /\ Free(req[b].task)
    /\ Handle(b) /\ UNCHANGED <<uploadVars, bounds>>

Arrive(b) == Receive(b) /\ UNCHANGED <<uploadVars, bounds>>

Process(u) == Ingest(u) /\ UNCHANGED <<loginVars, bounds>>

Pass == clock < MaxTime /\ Tick /\ UNCHANGED <<uploadVars, bounds>>

(* Replaced by a deployment, or by its health check, which gets no answer   *)
(* either while an upload holds the loop.                                   *)
Replace(t) == ForgetTask(t) /\ LoseUploads(t) /\ Faulty

Storage ==
    \/ (\E u \in Uploaded : Expire(u)) /\ UNCHANGED bounds
    \/ DropIndex /\ Faulty
    \/ CreateIndex /\ UNCHANGED bounds

Next ==
    \/ \E b \in Tabs, t \in Tasks : Browse(b, t)
    \/ \E b \in Tabs, t \in Tasks, text \in Texts : Pick(b, t, text)
    \/ \E t \in Tasks : Others(t) \/ Replace(t)
    \/ \E b \in Tabs : Respond(b) \/ Arrive(b)
    \/ \E u \in Uploaded : Process(u)
    \/ Storage /\ UNCHANGED loginVars
    \/ Pass

Spec == Init /\ [][Next]_vars

-----------------------------------------------------------------------------
TypeOK ==
    /\ clock \in Nat /\ issued \in Nat
    /\ attempts \in [Tasks -> SUBSET Attempt] /\ tries \in [Tasks -> Nat]
    /\ passed \in [Tasks -> SUBSET Attempt]
    /\ blocked \in [Tasks -> SUBSET Attempt]
    /\ jar.csrf \in 0..issued /\ jar.csrfUntil \in Nat /\ jar.sessionUntil \in Nat
    /\ page \in [Tabs -> {"none", "login", "app", "error"}]
    /\ form \in [Tabs -> 0..issued] /\ latest \in Tabs \cup {NoTab}
    /\ \A b \in Tabs : page[b] = "login" <=> form[b] # 0
    /\ \A t \in Tasks : loop[t] # NoUpload =>
          uploads[loop[t]].task = t
          /\ uploads[loop[t]].at \in {"original", "text", "embed", "bulk"}
    /\ bucket \cap outdated = {} /\ mapping \in {"none", "mapped", "dynamic"}
    /\ requests \in 0..MaxRequests /\ faults \in 0..MaxFaults
=============================================================================
