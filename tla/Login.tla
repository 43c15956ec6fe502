------------------------------- MODULE Login --------------------------------
(***************************************************************************)
(* Signing in: the login form of the proxy, its POST with the limit on     *)
(* attempts and the double-submit CSRF token, the session cookie, and the  *)
(* tabs of one browser, which share its cookies.                           *)
(*                                                                         *)
(* A request carries the cookies the browser held when it left, its answer *)
(* changes the cookies when it arrives, and in between other tabs send and *)
(* receive.  The attempts are counted in the memory of a task, by address; *)
(* behind the load balancer that is an address of the balancer, which other*)
(* users' attempts share.  The steps of a handler end where it awaits a    *)
(* worker thread.  Authentication is on, as the deployment has it.         *)
(***************************************************************************)
EXTENDS Naturals, FiniteSets

CONSTANTS
    Tasks,          \* the proxy tasks behind the load balancer
    Tabs,           \* of one browser
    MaxAttempts,    \* _LOGIN_MAX_ATTEMPTS
    Window,         \* _LOGIN_WINDOW_SECONDS
    CsrfAge,        \* max_age of the CSRF cookie
    SessionAge      \* ExpiresIn of the ID token, and of its cookie

NoTab == "no tab"

ASSUME LoginAssumption ==
    /\ MaxAttempts \in Nat /\ Window \in Nat \ {0}
    /\ CsrfAge \in Nat /\ SessionAge \in Nat
    /\ NoTab \notin Tabs

VARIABLES
    clock,
    attempts,   \* _login_attempts of the balancer's address, per task
    jar,        \* the cookies: the CSRF token (0: none), and when each expires
    page,       \* what a tab shows
    form,       \* the csrf_token in a tab's form; 0 is none
    req,        \* a tab's request, where its handler is, and then its answer
    issued,     \* CSRF tokens issued so far; every one is fresh
    tries,      \* history: per task, POSTs that asked _check_login_rate_limit
    passed,     \* history: per task, the attempts it let through
    blocked,    \* history: per task, the attempt it refused last; {} is none
    latest      \* history: the tab whose login form arrived last, if no login
                \* has been completed since

limiter   == <<attempts, tries, passed, blocked>>
browser   == <<jar, page, form, latest>>
loginVars == <<clock, limiter, browser, req, issued>>

NoRequest == [at |-> "none"]
Attempt == [n : Nat \ {0}, at : Nat]

LoginInit ==
    /\ clock = 0
    /\ attempts = [t \in Tasks |-> {}] /\ tries = [t \in Tasks |-> 0]
    /\ passed = [t \in Tasks |-> {}] /\ blocked = [t \in Tasks |-> {}]
    /\ jar = [csrf |-> 0, csrfUntil |-> 0, sessionUntil |-> 0]
    /\ page = [b \in Tabs |-> "none"] /\ form = [b \in Tabs |-> 0]
    /\ req = [b \in Tabs |-> NoRequest]
    /\ issued = 0 /\ latest = NoTab

-----------------------------------------------------------------------------
(***************************************************************************)
(* The browser                                                             *)
(***************************************************************************)

(* What a request carries: the cookies that have not expired. *)
CsrfCookie == IF clock < jar.csrfUntil THEN jar.csrf ELSE 0
SignedIn == clock < jar.sessionUntil

Sends(b, t, what) ==
    /\ req[b].at = "none"
    /\ req' = [req EXCEPT ![b] =
                  [at |-> what, task |-> t, session |-> SignedIn,
                   token |-> form[b], cookie |-> CsrfCookie,
                   fresh |-> latest = b /\ clock < jar.csrfUntil]]
    /\ UNCHANGED <<clock, limiter, browser, issued>>

Open(b, t) == Sends(b, t, "open")       \* GET /, which may lead to the form
SignIn(b, t) == page[b] = "login" /\ Sends(b, t, "post")
SignOut(b, t) == page[b] = "app" /\ Sends(b, t, "logout")

(* Set-Cookie, and the page, when the answer arrives. *)
Receive(b) ==
    /\ req[b].at = "answered"
    /\ LET answer == req[b].answer
           shows(p, token) == /\ page' = [page EXCEPT ![b] = p]
                              /\ form' = [form EXCEPT ![b] = token]
       IN
        \/ /\ answer.sets = "csrf"
           /\ jar' = [jar EXCEPT !.csrf = answer.cookie,
                                 !.csrfUntil = clock + CsrfAge]
           /\ shows("login", answer.token) /\ latest' = b
        \/ /\ answer.sets = "session"
           /\ jar' = [csrf |-> 0, csrfUntil |-> 0,
                      sessionUntil |-> clock + SessionAge]
           /\ shows("app", 0) /\ latest' = NoTab
        \/ /\ answer.sets = "signout"
           /\ jar' = [jar EXCEPT !.sessionUntil = 0]
           /\ shows("none", 0) /\ UNCHANGED latest
        \/ /\ answer.sets = "nothing"
           /\ shows(IF answer.status = 500 THEN "error" ELSE "app", 0)
           /\ UNCHANGED <<jar, latest>>
    /\ req' = [req EXCEPT ![b] = NoRequest]
    /\ UNCHANGED <<clock, limiter, issued>>

-----------------------------------------------------------------------------
(***************************************************************************)
(* The handlers                                                            *)
(***************************************************************************)

Answers(b, answer) ==
    req' = [req EXCEPT ![b] = [at |-> "answered", task |-> @.task,
                               fresh |-> @.fresh, answer |-> answer]]

NoForm(b, status, sets) ==      \* a redirection, the page, an internal error
    /\ Answers(b, [status |-> status, sets |-> sets])
    /\ UNCHANGED issued

(* Mutant: an error renders the form without a token. *)
FormWithoutToken(b, status) ==
    /\ issued' = issued + 1
    /\ Answers(b, [status |-> status, sets |-> "csrf", cookie |-> issued + 1,
                   token |-> IF status = 200 THEN issued + 1 ELSE 0])

(* Mutant: an error renders the form as it was posted. *)
FormAsPosted(b, status) ==
    /\ issued' = issued + 1
    /\ Answers(b, [status |-> status, sets |-> "csrf", cookie |-> issued + 1,
                   token |-> IF status = 200 THEN issued + 1 ELSE req[b].token])

(* The form, at first and after every error: a fresh token, in it and in a  *)
(* cookie.                                                                  *)
Form(b, status) ==
    /\ issued' = issued + 1
    /\ Answers(b, [status |-> status, sets |-> "csrf", cookie |-> issued + 1,
                   token |-> issued + 1])

(* _session_token: no cookie, or one that does not verify, or does not for  *)
(* what happens to the keys (see JwksCache).                                *)
Verified(session) == IF session THEN {TRUE, FALSE} ELSE {FALSE}

(* index and auth_login_form, which redirect to each other. *)
AuthLoginForm(b) ==
    /\ req[b].at = "open"
    /\ \/ TRUE \in Verified(req[b].session)
          /\ NoForm(b, 200, "nothing")
       \/ FALSE \in Verified(req[b].session) /\ Form(b, 200)
    /\ UNCHANGED <<clock, limiter, browser>>

AuthLogout(b) ==
    /\ req[b].at = "logout"
    /\ NoForm(b, 302, "signout")
    /\ UNCHANGED <<clock, limiter, browser>>

(* Mutant: an attempt is counted before it is refused. *)
CheckCountsAll(t, allowed) ==
    LET now    == [n |-> tries[t] + 1, at |-> clock]
        recent == {a \in attempts[t] : clock - a.at < Window}
    IN  /\ allowed <=> Cardinality(recent) < MaxAttempts
        /\ tries' = [tries EXCEPT ![t] = @ + 1]
        /\ attempts' = [attempts EXCEPT ![t] = recent \cup {now}]
        /\ passed' = [passed EXCEPT ![t] = IF allowed THEN @ \cup {now} ELSE @]
        /\ blocked' = [blocked EXCEPT ![t] = IF allowed THEN @ ELSE {now}]

CheckLoginRateLimit(t, allowed) ==
    LET now    == [n |-> tries[t] + 1, at |-> clock]
        recent == {a \in attempts[t] : clock - a.at < Window}
    IN  /\ allowed <=> Cardinality(recent) < MaxAttempts
        /\ tries' = [tries EXCEPT ![t] = @ + 1]
        /\ attempts' = [attempts EXCEPT ![t] =
                           IF allowed THEN recent \cup {now} ELSE recent]
        /\ passed' = [passed EXCEPT ![t] = IF allowed THEN @ \cup {now} ELSE @]
        /\ blocked' = [blocked EXCEPT ![t] = IF allowed THEN @ ELSE {now}]

Matches(r) == r.token # 0 /\ r.cookie # 0 /\ r.token = r.cookie

AuthLoginSubmit(b) ==   \* until it awaits initiate_auth
    /\ req[b].at = "post"
    /\ \/ /\ CheckLoginRateLimit(req[b].task, FALSE)
          /\ Form(b, 429)
       \/ /\ CheckLoginRateLimit(req[b].task, TRUE)
          /\ \/ Form(b, 400)    \* an invalid form; later, an empty field
             \/ ~Matches(req[b]) /\ Form(b, 403)
             \/ /\ Matches(req[b])
                /\ req' = [req EXCEPT ![b].at = "auth"] /\ UNCHANGED issued
    /\ UNCHANGED <<clock, browser>>

InitiateAuth(b) ==      \* a time-out of the client is none of its errors
    /\ req[b].at = "auth"
    /\ \/ req' = [req EXCEPT ![b].at = "verify"] /\ UNCHANGED issued
       \/ \E status \in {401, 503} : Form(b, status)
       \/ NoForm(b, 500, "nothing")
    /\ UNCHANGED <<clock, limiter, browser>>

VerifyIdToken(b) ==
    /\ req[b].at = "verify"
    /\ \/ NoForm(b, 303, "session")
       \/ Form(b, 503)
    /\ UNCHANGED <<clock, limiter, browser>>

Handle(b) ==
    \/ AuthLoginForm(b) \/ AuthLogout(b)
    \/ AuthLoginSubmit(b) \/ InitiateAuth(b) \/ VerifyIdToken(b)

-----------------------------------------------------------------------------
(***************************************************************************)
(* Around them                                                             *)
(***************************************************************************)

OthersTry(t) ==         \* a POST of another user, by the same address
    /\ \E allowed \in BOOLEAN : CheckLoginRateLimit(t, allowed)
    /\ UNCHANGED <<clock, browser, req, issued>>

Tick == clock' = clock + 1 /\ UNCHANGED <<limiter, browser, req, issued>>

(* A task ends, and another takes its place: what it had in memory is gone, *)
(* and its requests end with an error of the network.                       *)
ForgetTask(t) ==
    /\ attempts' = [attempts EXCEPT ![t] = {}]
    /\ tries' = [tries EXCEPT ![t] = 0]
    /\ passed' = [passed EXCEPT ![t] = {}]
    /\ blocked' = [blocked EXCEPT ![t] = {}]
    /\ LET cut == {b \in Tabs : req[b].at \notin {"none", "answered"}
                                /\ req[b].task = t}
       IN  /\ req' = [b \in Tabs |-> IF b \in cut THEN NoRequest ELSE req[b]]
           /\ page' = [b \in Tabs |-> IF b \in cut THEN "error" ELSE page[b]]
           /\ form' = [b \in Tabs |-> IF b \in cut THEN 0 ELSE form[b]]
    /\ UNCHANGED <<clock, jar, latest, issued>>

-----------------------------------------------------------------------------
(* The limit is exact: of the attempts a task has let through, none is the  *)
(* (MaxAttempts + 1)th within a window; and the attempt it refused last     *)
(* came when MaxAttempts others had passed within one, so that refusals     *)
(* themselves never prolong a lock-out.                                     *)
Within(a, others) == {o \in others : o.n < a.n /\ a.at - o.at < Window}

LimitIsExact ==
    \A t \in Tasks :
        /\ \A a \in passed[t] :
              Cardinality(Within(a, passed[t])) < MaxAttempts
        /\ \A a \in blocked[t] :
              Cardinality(Within(a, passed[t])) >= MaxAttempts

(* Tabs do not lock each other out: "Your session expired" answers a form   *)
(* only if another tab's form arrived after it, a login was completed since,*)
(* or the cookie expired.  A form shown with an error serves for the retry. *)
FreshFormServes ==
    \A b \in Tabs :
        req[b].at = "answered" /\ req[b].answer.status = 403 => ~req[b].fresh
=============================================================================
