----------------------------- MODULE HttpApiInv ------------------------------
(***************************************************************************)
(* The inductive invariant of HttpApi, in five parts: the limiter, the     *)
(* forms with the requests, the event loop with the uploads, the answers   *)
(* to the uploads, the bounds.                                             *)
(***************************************************************************)
EXTENDS HttpApi

(* The list of a task holds all that it let through within the last window. *)
LimitInv ==
    /\ clock \in Nat
    /\ attempts \in [Tasks -> SUBSET Attempt] /\ tries \in [Tasks -> Nat]
    /\ passed \in [Tasks -> SUBSET Attempt]
    /\ blocked \in [Tasks -> SUBSET Attempt]
    /\ \A t \in Tasks :
        /\ IsFiniteSet(passed[t])
        /\ \A a \in passed[t] \cup blocked[t] : a.n <= tries[t] /\ a.at <= clock
        /\ attempts[t] \subseteq passed[t]
        /\ \A a \in passed[t] : clock - a.at < Window => a \in attempts[t]
    /\ LimitIsExact

(* The cookie is the token of the form that arrived last, as long as that   *)
(* form is shown; what a request carries is what the browser held.          *)
Flight == [at : {"open", "post", "logout", "auth", "verify"}, task : Tasks,
           session : BOOLEAN, token : Nat, cookie : Nat, fresh : BOOLEAN]
FormAnswer == [status : Nat, sets : {"csrf"}, cookie : Nat, token : Nat]
PlainAnswer == [status : Nat, sets : {"nothing", "session", "signout"}]
Answered == [at : {"answered"}, task : Tasks, fresh : BOOLEAN,
             answer : FormAnswer \cup PlainAnswer]

FormInv ==
    /\ clock \in Nat /\ issued \in Nat
    /\ jar \in [csrf : 0..issued, csrfUntil : Nat, sessionUntil : Nat]
    /\ page \in [Tabs -> {"none", "login", "app", "error"}]
    /\ form \in [Tabs -> 0..issued] /\ latest \in Tabs \cup {NoTab}
    /\ req \in [Tabs -> {NoRequest} \cup Flight \cup Answered]
    /\ \A b \in Tabs :
        /\ page[b] = "login" <=> form[b] # 0
        /\ latest = b /\ page[b] = "login" => form[b] = jar.csrf
        /\ req[b] \in Flight /\ req[b].at = "post" /\ req[b].fresh => Matches(req[b])
        /\ req[b] \in Answered =>
            /\ req[b].answer.status = 403 => ~req[b].fresh
            /\ req[b].answer.sets = "csrf" =>
                  /\ req[b].answer.token = req[b].answer.cookie
                  /\ req[b].answer.token \in 1..issued

(* The upload that holds a loop is one of that task, past its beginning.    *)
Begun == [at : {"sent", "original", "text", "embed", "bulk", "answered", "lost"},
          task : Tasks, text : Texts, session : BOOLEAN, key : BOOLEAN]

LoopInv ==
    /\ loop \in [Tasks -> Uploaded \cup {NoUpload}]
    /\ uploads \in [Uploaded -> {NotYet} \cup Begun]
    /\ bucket \subseteq Uploaded /\ outdated \subseteq Uploaded
    /\ mapping \in {"none", "mapped", "dynamic"}
    /\ bucket \cap outdated = {}
    /\ \A u \in outdated : uploads[u].at \in {"answered", "lost"}
    /\ \A t \in Tasks : loop[t] # NoUpload =>
          uploads[loop[t]].task = t
          /\ uploads[loop[t]].at \in {"original", "text", "embed", "bulk"}

(* An upload is answered once, at its end; what the answer says of the text *)
(* and of the chunks holds from then on, but for what expires or is dropped.*)
UploadAnswer == {NoAnswer} \cup [status : {400, 401}]
                \cup [status : {200}, textKey : BOOLEAN, indexed : BOOLEAN]

AnswerInv ==
    /\ told \in [Uploaded -> UploadAnswer] /\ DOMAIN index = Uploaded
    /\ \A u \in Uploaded :
        /\ uploads[u].at # "answered" => told[u] = NoAnswer
        /\ uploads[u].at \in {"embed", "bulk"} /\ uploads[u].key => u \in bucket
        /\ told[u].status = 200 =>
            /\ told[u].textKey => u \in bucket \cup outdated
            /\ told[u].indexed /\ u \notin wiped =>
                  index[u] = ToSet(Chunks(uploads[u].text))

CountInv == requests \in 0..MaxRequests /\ faults \in 0..MaxFaults

IInv == LimitInv /\ FormInv /\ LoopInv /\ AnswerInv /\ CountInv
=============================================================================
