---------------------------- MODULE HttpApiProofs ----------------------------
(***************************************************************************)
(* What HttpApi guarantees for any number of tasks, tabs and requests: its *)
(* types, the exactness of the limit, that a fresh form serves, and that   *)
(* the answer to an upload is true.                                        *)
(***************************************************************************)
EXTENDS HttpApiInv, FiniteSetTheorems, WellFoundedInduction, TLAPS

-----------------------------------------------------------------------------
(***************************************************************************)
(* The limiter                                                             *)
(***************************************************************************)

(* A step asks the limiter, lets time pass, ends a task, or does nothing to *)
(* the limiter.                                                             *)
LEMMA LimiterSteps ==
    ASSUME FormInv, [Next]_vars
    PROVE  \/ UNCHANGED <<clock, limiter>>
           \/ \E t \in Tasks, allowed \in BOOLEAN :
                 CheckLoginRateLimit(t, allowed) /\ UNCHANGED clock
           \/ Tick
           \/ \E t \in Tasks : ForgetTask(t)
<1> DEFINE Asked == \E t \in Tasks, allowed \in BOOLEAN :
                       CheckLoginRateLimit(t, allowed) /\ UNCHANGED clock
<1>1. ASSUME NEW b \in Tabs, NEW t \in Tasks, Browse(b, t)
      PROVE  UNCHANGED <<clock, limiter>>
  BY <1>1 DEF Browse, Open, SignIn, SignOut, Sends
<1>2. ASSUME NEW b \in Tabs, NEW t \in Tasks, NEW text \in Texts, Pick(b, t, text)
      PROVE  UNCHANGED <<clock, limiter>>
  BY <1>2 DEF Pick, loginVars
<1>3. ASSUME NEW t \in Tasks, Others(t) PROVE Asked
  BY <1>3 DEF Others, OthersTry
<1>4. ASSUME NEW b \in Tabs, Arrive(b) PROVE UNCHANGED <<clock, limiter>>
  BY <1>4 DEF Arrive, Receive
<1>5. ASSUME NEW b \in Tabs, Respond(b)
      PROVE  UNCHANGED <<clock, limiter>> \/ Asked
  <2>1. CASE AuthLoginSubmit(b)
    <3>1. req[b].task \in Tasks
      BY <2>1 DEF AuthLoginSubmit, FormInv, Flight, Answered, NoRequest
    <3> QED BY <2>1, <3>1 DEF AuthLoginSubmit
  <2>2. CASE ~AuthLoginSubmit(b)
    BY <1>5, <2>2 DEF Respond, Handle, AuthLoginForm, AuthLogout, InitiateAuth,
        VerifyIdToken
  <2> QED BY <2>1, <2>2
<1>6. ASSUME NEW u \in Uploaded, Process(u) PROVE UNCHANGED <<clock, limiter>>
  BY <1>6 DEF Process, loginVars
<1>7. ASSUME NEW t \in Tasks, Replace(t) PROVE ForgetTask(t)
  BY <1>7 DEF Replace
<1>8. CASE Storage /\ UNCHANGED loginVars
  BY <1>8 DEF loginVars
<1>9. CASE Pass
  BY <1>9 DEF Pass
<1>10. CASE UNCHANGED vars
  BY <1>10 DEF vars, loginVars
<1> QED BY <1>1, <1>2, <1>3, <1>4, <1>5, <1>6, <1>7, <1>8, <1>9, <1>10 DEF Next

(* What an attempt sees within a window depends on earlier ones only.       *)
LEMMA LimitAsked ==
    ASSUME LimitInv, NEW t \in Tasks, NEW allowed \in BOOLEAN,
           CheckLoginRateLimit(t, allowed), UNCHANGED clock
    PROVE  LimitInv'
<1> DEFINE now    == [n |-> tries[t] + 1, at |-> clock]
           recent == {a \in attempts[t] : clock - a.at < Window}
<1>1. /\ now \in Attempt /\ now.n = tries[t] + 1 /\ now.at = clock
      /\ now \notin passed[t] /\ tries[t] \in Nat
  BY DEF LimitInv, Attempt
<1>2. /\ allowed <=> Cardinality(recent) < MaxAttempts
      /\ tries' = [tries EXCEPT ![t] = tries[t] + 1]
      /\ attempts' = [attempts EXCEPT ![t] =
                         IF allowed THEN recent \cup {now} ELSE recent]
      /\ passed' = [passed EXCEPT ![t] =
                         IF allowed THEN passed[t] \cup {now} ELSE passed[t]]
      /\ blocked' = [blocked EXCEPT ![t] = IF allowed THEN blocked[t] ELSE {now}]
  BY DEF CheckLoginRateLimit
<1>3. recent \subseteq Attempt
  BY DEF LimitInv
<1>4. /\ attempts' \in [Tasks -> SUBSET Attempt] /\ tries' \in [Tasks -> Nat]
      /\ passed' \in [Tasks -> SUBSET Attempt]
      /\ blocked' \in [Tasks -> SUBSET Attempt]
  <2>1. attempts' \in [Tasks -> SUBSET Attempt]
    BY <1>1, <1>2, <1>3 DEF LimitInv
  <2>2. passed' \in [Tasks -> SUBSET Attempt]
    BY <1>1, <1>2 DEF LimitInv
  <2>3. blocked' \in [Tasks -> SUBSET Attempt]
    BY <1>1, <1>2 DEF LimitInv
  <2>4. tries' \in [Tasks -> Nat]
    BY <1>1, <1>2 DEF LimitInv
  <2> QED BY <2>1, <2>2, <2>3, <2>4
<1>5. Within(now, passed[t]) = recent
  BY <1>1 DEF LimitInv, Within, Attempt
<1>6. \A a \in passed[t] \cup blocked[t] :
         Within(a, passed[t] \cup {now}) = Within(a, passed[t])
  BY <1>1 DEF LimitInv, Within, Attempt
<1>7. Within(now, passed[t] \cup {now}) = recent
  BY <1>1, <1>5 DEF Within
<1>8. ASSUME NEW s \in Tasks
      PROVE  /\ IsFiniteSet(passed'[s])
             /\ \A a \in passed'[s] \cup blocked'[s] :
                   a.n <= tries'[s] /\ a.at <= clock'
             /\ attempts'[s] \subseteq passed'[s]
             /\ \A a \in passed'[s] : clock' - a.at < Window => a \in attempts'[s]
             /\ \A a \in passed'[s] :
                   Cardinality(Within(a, passed'[s])) < MaxAttempts
             /\ \A a \in blocked'[s] :
                   Cardinality(Within(a, passed'[s])) >= MaxAttempts
  <2>1. CASE s # t
    BY <1>2, <2>1 DEF LimitInv, LimitIsExact
  <2>2. CASE s = t /\ allowed
    <3>1. /\ passed'[s] = passed[t] \cup {now} /\ blocked'[s] = blocked[t]
          /\ attempts'[s] = recent \cup {now} /\ tries'[s] = tries[t] + 1
      BY <1>2, <2>2 DEF LimitInv
    <3>2. IsFiniteSet(passed'[s])
      <4>1. IsFiniteSet(passed[t])
        BY DEF LimitInv
      <4>2. IsFiniteSet(passed[t] \cup {now})
        BY <4>1, FS_AddElement
      <4> QED BY <3>1, <4>2
    <3>3. \A a \in passed'[s] \cup blocked'[s] : a.n <= tries'[s] /\ a.at <= clock'
      BY <3>1, <1>1 DEF LimitInv, Attempt
    <3>4. attempts'[s] \subseteq passed'[s]
      BY <3>1 DEF LimitInv
    <3>5. \A a \in passed'[s] : clock' - a.at < Window => a \in attempts'[s]
      BY <3>1 DEF LimitInv
    <3>6. \A a \in passed'[s] : Cardinality(Within(a, passed'[s])) < MaxAttempts
      BY <3>1, <1>2, <1>6, <1>7, <2>2 DEF LimitInv, LimitIsExact
    <3>7. \A a \in blocked'[s] : Cardinality(Within(a, passed'[s])) >= MaxAttempts
      BY <3>1, <1>6 DEF LimitInv, LimitIsExact
    <3> QED BY <3>2, <3>3, <3>4, <3>5, <3>6, <3>7
  <2>3. CASE s = t /\ ~allowed
    <3>1. /\ passed'[s] = passed[t] /\ blocked'[s] = {now}
          /\ attempts'[s] = recent /\ tries'[s] = tries[t] + 1
      BY <1>2, <2>3 DEF LimitInv
    <3>2. IsFiniteSet(recent)
      BY FS_Subset DEF LimitInv
    <3>3. Cardinality(recent) \in Nat
      BY <3>2, FS_CardinalityType
    <3>4. \A a \in passed'[s] \cup blocked'[s] : a.n <= tries'[s] /\ a.at <= clock'
      BY <3>1, <1>1 DEF LimitInv, Attempt
    <3>5. \A a \in passed'[s] : clock' - a.at < Window => a \in attempts'[s]
      BY <3>1 DEF LimitInv
    <3>6. \A a \in blocked'[s] : Cardinality(Within(a, passed'[s])) >= MaxAttempts
      <4>1. Cardinality(recent) >= MaxAttempts
        BY <3>3, <1>2, <2>3, LoginAssumption
      <4> QED BY <3>1, <4>1, <1>5
    <3> QED BY <3>1, <3>4, <3>5, <3>6 DEF LimitInv, LimitIsExact
  <2> QED BY <2>1, <2>2, <2>3
<1>9. clock' \in Nat
  BY DEF LimitInv
<1>10. LimitIsExact'
  BY <1>8 DEF LimitIsExact, Within
<1> QED BY <1>4, <1>8, <1>9, <1>10 DEF LimitInv

LEMMA LimitTick == ASSUME LimitInv, Tick PROVE LimitInv'
<1>1. clock' = clock + 1 /\ UNCHANGED limiter
  BY DEF Tick
<1>2. ASSUME NEW s \in Tasks
      PROVE  /\ IsFiniteSet(passed'[s])
             /\ \A a \in passed'[s] \cup blocked'[s] :
                   a.n <= tries'[s] /\ a.at <= clock'
             /\ attempts'[s] \subseteq passed'[s]
             /\ \A a \in passed'[s] : clock' - a.at < Window => a \in attempts'[s]
  BY <1>1, LoginAssumption DEF LimitInv, limiter, Attempt
<1>3. LimitIsExact'
  BY <1>1 DEF LimitInv, LimitIsExact, limiter, Within
<1> QED BY <1>1, <1>2, <1>3 DEF LimitInv, limiter

LEMMA LimitForget ==
    ASSUME LimitInv, NEW t \in Tasks, ForgetTask(t) PROVE LimitInv'
<1>1. /\ attempts' = [attempts EXCEPT ![t] = {}]
      /\ tries' = [tries EXCEPT ![t] = 0]
      /\ passed' = [passed EXCEPT ![t] = {}]
      /\ blocked' = [blocked EXCEPT ![t] = {}]
      /\ clock' = clock
  BY DEF ForgetTask
<1>2. /\ attempts' \in [Tasks -> SUBSET Attempt] /\ tries' \in [Tasks -> Nat]
      /\ passed' \in [Tasks -> SUBSET Attempt]
      /\ blocked' \in [Tasks -> SUBSET Attempt]
  BY <1>1 DEF LimitInv
<1>3. IsFiniteSet({})
  BY FS_EmptySet
<1>4. ASSUME NEW s \in Tasks
      PROVE  /\ IsFiniteSet(passed'[s])
             /\ \A a \in passed'[s] \cup blocked'[s] :
                   a.n <= tries'[s] /\ a.at <= clock'
             /\ attempts'[s] \subseteq passed'[s]
             /\ \A a \in passed'[s] : clock' - a.at < Window => a \in attempts'[s]
             /\ \A a \in passed'[s] :
                   Cardinality(Within(a, passed'[s])) < MaxAttempts
             /\ \A a \in blocked'[s] :
                   Cardinality(Within(a, passed'[s])) >= MaxAttempts
  <2>1. CASE s = t
    BY <1>1, <1>3, <2>1 DEF LimitInv
  <2>2. CASE s # t
    BY <1>1, <2>2 DEF LimitInv, LimitIsExact
  <2> QED BY <2>1, <2>2
<1>5. LimitIsExact'
  BY <1>4 DEF LimitIsExact, Within
<1> QED BY <1>1, <1>2, <1>4, <1>5 DEF LimitInv

LEMMA LimitNext == ASSUME LimitInv, FormInv, [Next]_vars PROVE LimitInv'
<1>1. CASE UNCHANGED <<clock, limiter>>
  <2>1. LimitIsExact'
    BY <1>1 DEF LimitInv, LimitIsExact, limiter, Within
  <2> QED BY <1>1, <2>1 DEF LimitInv, limiter
<1> QED BY <1>1, LimiterSteps, LimitAsked, LimitTick, LimitForget

-----------------------------------------------------------------------------
(***************************************************************************)
(* The forms                                                               *)
(***************************************************************************)

(* What is sent is what the browser holds; only the POST's match matters.   *)
LEMMA FormSends ==
    ASSUME FormInv, NEW b \in Tabs, NEW t \in Tasks,
           NEW what \in {"open", "post", "logout"}, Sends(b, t, what),
           what = "post" => page[b] = "login"
    PROVE  FormInv'
<1> DEFINE sent == [at |-> what, task |-> t, session |-> SignedIn,
                    token |-> form[b], cookie |-> CsrfCookie,
                    fresh |-> latest = b /\ clock < jar.csrfUntil]
<1>1. /\ req' = [req EXCEPT ![b] = sent]
      /\ UNCHANGED <<clock, jar, page, form, latest, issued>>
  BY DEF Sends, browser
<1>2. sent \in Flight /\ sent \notin Answered
  BY DEF FormInv, Flight, Answered, SignedIn, CsrfCookie
<1>3. sent.at = "post" /\ sent.fresh => Matches(sent)
  BY DEF FormInv, CsrfCookie, Matches
<1>4. req' \in [Tabs -> {NoRequest} \cup Flight \cup Answered]
  BY <1>1, <1>2 DEF FormInv
<1>5. ASSUME NEW c \in Tabs
      PROVE  /\ req'[c] \in Flight /\ req'[c].at = "post" /\ req'[c].fresh
                => Matches(req'[c])
             /\ req'[c] \in Answered =>
                 /\ req'[c].answer.status = 403 => ~req'[c].fresh
                 /\ req'[c].answer.sets = "csrf" =>
                       /\ req'[c].answer.token = req'[c].answer.cookie
                       /\ req'[c].answer.token \in 1..issued'
  BY <1>1, <1>2, <1>3 DEF FormInv
<1> QED BY <1>1, <1>4, <1>5 DEF FormInv, Matches

(* A handler moves its request on, or answers it: without a form, or with   *)
(* one of a fresh token; 403 only if the tokens did not match.              *)
WellAnswered(r, last) ==
    /\ r \in Flight => r.at # "post"
    /\ r \in Answered =>
        /\ r.answer.status = 403 => ~r.fresh
        /\ r.answer.sets = "csrf" => /\ r.answer.token = r.answer.cookie
                                     /\ r.answer.token \in 1..last

LEMMA FormHandled ==
    ASSUME FormInv, NEW b \in Tabs, NEW r \in Flight \cup Answered,
           req' = [req EXCEPT ![b] = r], WellAnswered(r, issued'),
           issued' \in {issued, issued + 1}, UNCHANGED <<clock, browser>>
    PROVE  FormInv'
<1>1. UNCHANGED <<clock, jar, page, form, latest>>
  BY DEF browser
<1>2. issued \in Nat
  BY DEF FormInv
<1>3. issued' \in Nat /\ \A n \in Nat : n <= issued => n <= issued'
  BY <1>2
<1>4. 0..issued \subseteq 0..issued' /\ 1..issued \subseteq 1..issued'
  BY <1>2, <1>3
<1>5. req' \in [Tabs -> {NoRequest} \cup Flight \cup Answered]
  BY DEF FormInv
<1>6. ASSUME NEW c \in Tabs
      PROVE  /\ req'[c] \in Flight /\ req'[c].at = "post" /\ req'[c].fresh
                => Matches(req'[c])
             /\ req'[c] \in Answered =>
                 /\ req'[c].answer.status = 403 => ~req'[c].fresh
                 /\ req'[c].answer.sets = "csrf" =>
                       /\ req'[c].answer.token = req'[c].answer.cookie
                       /\ req'[c].answer.token \in 1..issued'
  <2>1. CASE c = b
    BY <2>1 DEF FormInv, WellAnswered
  <2>2. CASE c # b
    BY <1>4, <2>2 DEF FormInv
  <2> QED BY <2>1, <2>2
<1>7. /\ jar' \in [csrf : 0..issued', csrfUntil : Nat, sessionUntil : Nat]
      /\ form' \in [Tabs -> 0..issued']
  BY <1>1, <1>4 DEF FormInv
<1> QED BY <1>1, <1>3, <1>5, <1>6, <1>7 DEF FormInv, Matches

LEMMA FormMoves ==
    ASSUME FormInv, NEW b \in Tabs, req[b] \in Flight, NEW where \in {"auth", "verify"},
           req' = [req EXCEPT ![b].at = where], UNCHANGED <<clock, browser, issued>>
    PROVE  FormInv'
<1> DEFINE r == [req[b] EXCEPT !.at = where]
<1>1. r \in Flight /\ r.at = where
  BY DEF Flight
<1>2. r \notin Answered
  BY <1>1 DEF Answered
<1>3. req' = [req EXCEPT ![b] = r]
  OBVIOUS
<1>4. WellAnswered(r, issued')
  BY <1>1, <1>2 DEF WellAnswered
<1> HIDE DEF r
<1> QED BY <1>1, <1>3, <1>4, FormHandled

LEMMA FormShown ==
    ASSUME FormInv, NEW b \in Tabs, req[b] \in Flight, NEW status \in Nat,
           Form(b, status), status = 403 => ~req[b].fresh, UNCHANGED <<clock, browser>>
    PROVE  FormInv'
<1> DEFINE a == [status |-> status, sets |-> "csrf", cookie |-> issued + 1,
                 token |-> issued + 1]
           r == [at |-> "answered", task |-> req[b].task,
                 fresh |-> req[b].fresh, answer |-> a]
<1>1. req' = [req EXCEPT ![b] = r] /\ issued' = issued + 1
  BY DEF Form, Answers
<1>2. a \in FormAnswer /\ issued \in Nat
  BY DEF FormInv, FormAnswer
<1>3. r \in Answered /\ r \notin Flight
  BY <1>2 DEF Flight, Answered
<1>4. issued + 1 \in 1..issued'
  BY <1>1, <1>2
<1>5. WellAnswered(r, issued')
  BY <1>3, <1>4 DEF WellAnswered
<1> HIDE DEF r
<1> QED BY <1>1, <1>3, <1>5, FormHandled

LEMMA NoFormShown ==
    ASSUME FormInv, NEW b \in Tabs, req[b] \in Flight, NEW status \in Nat, status # 403,
           NEW kind, kind \in {"nothing", "session", "signout"},
           NoForm(b, status, kind), UNCHANGED <<clock, browser>>
    PROVE  FormInv'
<1> DEFINE a == [status |-> status, sets |-> kind]
           r == [at |-> "answered", task |-> req[b].task,
                 fresh |-> req[b].fresh, answer |-> a]
<1>1. req' = [req EXCEPT ![b] = r] /\ issued' = issued
  BY DEF NoForm, Answers
<1>2. a \in PlainAnswer
  BY DEF PlainAnswer
<1>3. r \in Answered /\ r \notin Flight
  BY <1>2 DEF Flight, Answered
<1>4. WellAnswered(r, issued')
  BY <1>3 DEF WellAnswered
<1> HIDE DEF r
<1> QED BY <1>1, <1>3, <1>4, FormHandled

(* The answer brings the cookie together with the form it is for.           *)
LEMMA FormReceived == ASSUME FormInv, NEW b \in Tabs, Receive(b) PROVE FormInv'
<1> DEFINE answer == req[b].answer
<1>1. req[b] \in Answered
  <2>1. req[b].at = "answered"
    BY DEF Receive
  <2>2. req[b] \in {NoRequest} \cup Flight \cup Answered
    BY DEF FormInv
  <2> QED BY <2>1, <2>2 DEF Flight, NoRequest
<1>2. /\ answer \in FormAnswer \cup PlainAnswer
      /\ answer.sets = "csrf" => /\ answer.token = answer.cookie
                                 /\ answer.token \in 1..issued
  BY <1>1 DEF FormInv, Answered
<1>3. req' = [req EXCEPT ![b] = NoRequest] /\ clock' = clock /\ issued' = issued
  BY DEF Receive
<1>4. NoRequest \notin Flight /\ NoRequest \notin Answered
  BY DEF NoRequest, Flight, Answered
<1>5. PICK p \in {"none", "login", "app", "error"}, n \in 0..issued :
        /\ page' = [page EXCEPT ![b] = p] /\ form' = [form EXCEPT ![b] = n]
        /\ p = "login" <=> n # 0
        /\ jar' \in [csrf : 0..issued, csrfUntil : Nat, sessionUntil : Nat]
        /\ \/ jar'.csrf = n /\ latest' = b
           \/ latest' = NoTab
           \/ jar'.csrf = jar.csrf /\ latest' = latest /\ p # "login"
  <2>1. CASE answer.sets = "csrf"
    <3>1. /\ jar' = [jar EXCEPT !.csrf = answer.cookie, !.csrfUntil = clock + CsrfAge]
          /\ page' = [page EXCEPT ![b] = "login"]
          /\ form' = [form EXCEPT ![b] = answer.token] /\ latest' = b
      BY <2>1 DEF Receive
    <3>2. /\ answer.token \in 0..issued /\ answer.token # 0
          /\ answer.cookie = answer.token
      <4>1. answer.token \in 1..issued /\ answer.token = answer.cookie
        BY <1>2, <2>1
      <4> QED BY <4>1 DEF FormInv
    <3>3. clock + CsrfAge \in Nat
      BY LoginAssumption DEF FormInv
    <3> HIDE DEF answer
    <3>4. /\ jar' \in [csrf : 0..issued, csrfUntil : Nat, sessionUntil : Nat]
          /\ jar'.csrf = answer.token
      BY <3>1, <3>2, <3>3 DEF FormInv
    <3> QED BY <3>1, <3>2, <3>4
  <2>2. CASE answer.sets = "session"
    <3>1. /\ jar' = [csrf |-> 0, csrfUntil |-> 0, sessionUntil |-> clock + SessionAge]
          /\ page' = [page EXCEPT ![b] = "app"]
          /\ form' = [form EXCEPT ![b] = 0] /\ latest' = NoTab
      BY <2>2 DEF Receive
    <3>2. jar' \in [csrf : 0..issued, csrfUntil : Nat, sessionUntil : Nat]
          /\ 0 \in 0..issued
      BY <3>1, LoginAssumption DEF FormInv
    <3> QED BY <3>1, <3>2
  <2>3. CASE answer.sets \in {"signout", "nothing"}
    <3>1. /\ jar' \in {jar, [jar EXCEPT !.sessionUntil = 0]} /\ latest' = latest
          /\ \E p \in {"none", "app", "error"} : page' = [page EXCEPT ![b] = p]
          /\ form' = [form EXCEPT ![b] = 0]
      BY <2>3 DEF Receive
    <3>2. /\ jar' \in [csrf : 0..issued, csrfUntil : Nat, sessionUntil : Nat]
          /\ jar'.csrf = jar.csrf /\ 0 \in 0..issued
      BY <3>1 DEF FormInv
    <3> QED BY <3>1, <3>2
  <2> QED BY <2>1, <2>2, <2>3 DEF Receive
<1>6. /\ page' \in [Tabs -> {"none", "login", "app", "error"}]
      /\ form' \in [Tabs -> 0..issued] /\ latest' \in Tabs \cup {NoTab}
      /\ req' \in [Tabs -> {NoRequest} \cup Flight \cup Answered]
  BY <1>3, <1>5 DEF FormInv
<1>7. ASSUME NEW c \in Tabs
      PROVE  /\ page'[c] = "login" <=> form'[c] # 0
             /\ latest' = c /\ page'[c] = "login" => form'[c] = jar'.csrf
  BY <1>5, LoginAssumption DEF FormInv
<1>8. ASSUME NEW c \in Tabs
      PROVE  /\ req'[c] \in Flight /\ req'[c].at = "post" /\ req'[c].fresh
                => Matches(req'[c])
             /\ req'[c] \in Answered =>
                 /\ req'[c].answer.status = 403 => ~req'[c].fresh
                 /\ req'[c].answer.sets = "csrf" =>
                       /\ req'[c].answer.token = req'[c].answer.cookie
                       /\ req'[c].answer.token \in 1..issued'
  <2>1. CASE c = b
    BY <1>3, <1>4, <2>1 DEF FormInv
  <2>2. CASE c # b
    BY <1>3, <2>2 DEF FormInv
  <2> QED BY <2>1, <2>2
<1> QED BY <1>3, <1>5, <1>6, <1>7, <1>8 DEF FormInv, Matches

LEMMA FormForget ==
    ASSUME FormInv, NEW t \in Tasks, ForgetTask(t) PROVE FormInv'
<1> DEFINE cut == {b \in Tabs : req[b].at \notin {"none", "answered"}
                                /\ req[b].task = t}
<1>1. /\ req' = [b \in Tabs |-> IF b \in cut THEN NoRequest ELSE req[b]]
      /\ page' = [b \in Tabs |-> IF b \in cut THEN "error" ELSE page[b]]
      /\ form' = [b \in Tabs |-> IF b \in cut THEN 0 ELSE form[b]]
      /\ UNCHANGED <<clock, jar, latest, issued>>
  BY DEF ForgetTask
<1> HIDE DEF cut
<1>2. NoRequest \notin Flight /\ NoRequest \notin Answered
  BY DEF NoRequest, Flight, Answered
<1>3. /\ page' \in [Tabs -> {"none", "login", "app", "error"}]
      /\ form' \in [Tabs -> 0..issued]
      /\ req' \in [Tabs -> {NoRequest} \cup Flight \cup Answered]
  BY <1>1 DEF FormInv
<1>4. ASSUME NEW c \in Tabs
      PROVE  /\ page'[c] = "login" <=> form'[c] # 0
             /\ latest' = c /\ page'[c] = "login" => form'[c] = jar'.csrf
  BY <1>1 DEF FormInv
<1>5. ASSUME NEW c \in Tabs
      PROVE  /\ req'[c] \in Flight /\ req'[c].at = "post" /\ req'[c].fresh
                => Matches(req'[c])
             /\ req'[c] \in Answered =>
                 /\ req'[c].answer.status = 403 => ~req'[c].fresh
                 /\ req'[c].answer.sets = "csrf" =>
                       /\ req'[c].answer.token = req'[c].answer.cookie
                       /\ req'[c].answer.token \in 1..issued'
  <2>1. CASE c \in cut
    BY <1>1, <1>2, <2>1
  <2>2. CASE c \notin cut
    BY <1>1, <2>2 DEF FormInv
  <2> QED BY <2>1, <2>2
<1> QED BY <1>1, <1>3, <1>4, <1>5 DEF FormInv, Matches

LEMMA FormSame ==
    ASSUME FormInv, clock' \in Nat, UNCHANGED <<browser, req, issued>>
    PROVE  FormInv'
BY DEF FormInv, browser, Matches

(* 403 is the answer to a POST of two tokens that do not match.             *)
LEMMA FormRespond == ASSUME FormInv, NEW b \in Tabs, Respond(b) PROVE FormInv'
<1>1. req[b] \in Flight
  <2>1. req[b].at \notin {"none", "answered"}
    BY DEF Respond
  <2>2. req[b] \in {NoRequest} \cup Flight \cup Answered
    BY DEF FormInv
  <2> QED BY <2>1, <2>2 DEF Answered, NoRequest
<1>2. CASE AuthLoginForm(b)
  <2>1. /\ NoForm(b, 200, "nothing") \/ Form(b, 200)
        /\ UNCHANGED <<clock, browser>>
    BY <1>2 DEF AuthLoginForm
  <2> QED BY <1>1, <2>1, FormShown, NoFormShown
<1>3. CASE AuthLogout(b)
  BY <1>1, <1>3, NoFormShown DEF AuthLogout
<1>4. CASE AuthLoginSubmit(b)
  <2>1. req[b].at = "post" /\ UNCHANGED <<clock, browser>>
    BY <1>4 DEF AuthLoginSubmit
  <2>2. req[b].fresh => Matches(req[b])
    BY <1>1, <2>1 DEF FormInv
  <2>3. \/ Form(b, 429) \/ Form(b, 400)
        \/ ~Matches(req[b]) /\ Form(b, 403)
        \/ req' = [req EXCEPT ![b].at = "auth"] /\ UNCHANGED issued
    BY <1>4 DEF AuthLoginSubmit
  <2>4. CASE Form(b, 429) \/ Form(b, 400)
    BY <1>1, <2>1, <2>4, FormShown
  <2>5. CASE ~Matches(req[b]) /\ Form(b, 403)
    BY <1>1, <2>1, <2>2, <2>5, FormShown
  <2>6. CASE req' = [req EXCEPT ![b].at = "auth"] /\ UNCHANGED issued
    BY <1>1, <2>1, <2>6, FormMoves
  <2> QED BY <2>3, <2>4, <2>5, <2>6
<1>5. CASE InitiateAuth(b)
  <2>1. UNCHANGED <<clock, browser>>
    BY <1>5 DEF InitiateAuth
  <2>2. \/ req' = [req EXCEPT ![b].at = "verify"] /\ UNCHANGED issued
        \/ Form(b, 401) \/ Form(b, 503) \/ NoForm(b, 500, "nothing")
    BY <1>5 DEF InitiateAuth
  <2>3. CASE req' = [req EXCEPT ![b].at = "verify"] /\ UNCHANGED issued
    BY <1>1, <2>1, <2>3, FormMoves
  <2>4. CASE Form(b, 401) \/ Form(b, 503)
    BY <1>1, <2>1, <2>4, FormShown
  <2>5. CASE NoForm(b, 500, "nothing")
    BY <1>1, <2>1, <2>5, NoFormShown
  <2> QED BY <2>2, <2>3, <2>4, <2>5
<1>6. CASE VerifyIdToken(b)
  <2>1. /\ NoForm(b, 303, "session") \/ Form(b, 503)
        /\ UNCHANGED <<clock, browser>>
    BY <1>6 DEF VerifyIdToken
  <2> QED BY <1>1, <2>1, FormShown, NoFormShown
<1> QED BY <1>2, <1>3, <1>4, <1>5, <1>6 DEF Respond, Handle

LEMMA FormNext == ASSUME FormInv, [Next]_vars PROVE FormInv'
<1>1. clock \in Nat
  BY DEF FormInv
<1>2. ASSUME NEW b \in Tabs, NEW t \in Tasks, Browse(b, t) PROVE FormInv'
  <2>1. CASE Open(b, t)
    BY <2>1, FormSends DEF Open
  <2>2. CASE SignIn(b, t)
    BY <2>2, FormSends DEF SignIn
  <2>3. CASE SignOut(b, t)
    BY <2>3, FormSends DEF SignOut
  <2> QED BY <1>2, <2>1, <2>2, <2>3 DEF Browse
<1>3. ASSUME NEW b \in Tabs, NEW t \in Tasks, NEW text \in Texts, Pick(b, t, text)
      PROVE  FormInv'
  BY <1>1, <1>3, FormSame DEF Pick, loginVars
<1>4. ASSUME NEW t \in Tasks, Others(t) PROVE FormInv'
  BY <1>1, <1>4, FormSame DEF Others, OthersTry
<1>5. ASSUME NEW t \in Tasks, Replace(t) PROVE FormInv'
  BY <1>5, FormForget DEF Replace
<1>6. ASSUME NEW b \in Tabs, Respond(b) PROVE FormInv'
  BY <1>6, FormRespond
<1>7. ASSUME NEW b \in Tabs, Arrive(b) PROVE FormInv'
  BY <1>7, FormReceived DEF Arrive
<1>8. ASSUME NEW u \in Uploaded, Process(u) PROVE FormInv'
  BY <1>1, <1>8, FormSame DEF Process, loginVars
<1>9. CASE Storage /\ UNCHANGED loginVars
  BY <1>1, <1>9, FormSame DEF loginVars
<1>10. CASE Pass
  BY <1>1, <1>10, FormSame DEF Pass, Tick
<1>11. CASE UNCHANGED vars
  BY <1>1, <1>11, FormSame DEF vars, loginVars
<1> QED BY <1>2, <1>3, <1>4, <1>5, <1>6, <1>7, <1>8, <1>9, <1>10, <1>11 DEF Next

-----------------------------------------------------------------------------
(***************************************************************************)
(* The event loop and the uploads                                          *)
(***************************************************************************)

LEMMA LoopSame ==
    ASSUME LoopInv, UNCHANGED uploadVars PROVE LoopInv'
BY DEF LoopInv, uploadVars, storage

(* A handler moves its own upload; it holds the loop, takes it or leaves it.*)
LEMMA LoopMoves ==
    ASSUME LoopInv, NEW u \in Uploaded, uploads[u] \in Begun,
           NEW r \in Begun, uploads' = [uploads EXCEPT ![u] = r],
           r.task = uploads[u].task, uploads[u].at \notin {"answered", "lost"},
           \/ /\ r.at \in {"original", "text", "embed", "bulk"}
              /\ loop' \in {loop, [loop EXCEPT ![r.task] = u]}
           \/ loop' = [t \in Tasks |-> IF loop[t] = u THEN NoUpload ELSE loop[t]],
           bucket' \in {bucket, bucket \cup {u}}, outdated' = outdated,
           mapping' \in {"none", "mapped", "dynamic"}
    PROVE  LoopInv'
<1>1. uploads' \in [Uploaded -> {NotYet} \cup Begun]
  BY DEF LoopInv
<1>2. /\ u \notin outdated
      /\ bucket' \subseteq Uploaded /\ outdated' \subseteq Uploaded
      /\ bucket' \cap outdated' = {}
  BY DEF LoopInv
<1>3. \A v \in outdated' : uploads'[v].at \in {"answered", "lost"}
  BY <1>2 DEF LoopInv
<1>4. loop' \in [Tasks -> Uploaded \cup {NoUpload}]
  BY DEF LoopInv, Begun
<1>5. ASSUME NEW t \in Tasks, loop'[t] # NoUpload
      PROVE  /\ uploads'[loop'[t]].task = t
             /\ uploads'[loop'[t]].at \in {"original", "text", "embed", "bulk"}
  <2>1. CASE r.at \in {"original", "text", "embed", "bulk"} /\ loop' = loop
    BY <1>5, <2>1 DEF LoopInv
  <2>2. CASE /\ r.at \in {"original", "text", "embed", "bulk"}
             /\ loop' = [loop EXCEPT ![r.task] = u]
    BY <1>5, <2>2 DEF LoopInv
  <2>3. CASE loop' = [s \in Tasks |-> IF loop[s] = u THEN NoUpload ELSE loop[s]]
    BY <1>5, <2>3 DEF LoopInv
  <2> QED BY <2>1, <2>2, <2>3
<1> QED BY <1>1, <1>2, <1>3, <1>4, <1>5 DEF LoopInv

LEMMA LoopIngest ==
    ASSUME LoopInv, NEW u \in Uploaded, Ingest(u) PROVE LoopInv'
<1>1. /\ uploads[u].at \in {"sent", "original", "text", "embed", "bulk"}
      /\ uploads[u] \in Begun
  <2>1. uploads[u].at \in {"sent", "original", "text", "embed", "bulk"}
    BY DEF Ingest, Upload, StoreInS3, StoreTextInS3, EmbedChunks, IndexInOpenSearch
  <2>2. uploads[u] \in {NotYet} \cup Begun
    BY DEF LoopInv
  <2> QED BY <2>1, <2>2 DEF NotYet
<1>2. mapping \in {"none", "mapped", "dynamic"}
  BY DEF LoopInv
<1>3. ASSUME NEW where \in {"sent", "original", "text", "embed", "bulk", "answered", "lost"}
      PROVE  /\ [uploads[u] EXCEPT !.at = where] \in Begun
             /\ [uploads[u] EXCEPT !.at = where].at = where
             /\ [uploads[u] EXCEPT !.at = where].task = uploads[u].task
             /\ [uploads EXCEPT ![u].at = where]
                  = [uploads EXCEPT ![u] = [uploads[u] EXCEPT !.at = where]]
  BY <1>1 DEF Begun
<1>4. ASSUME NEW answer, Replies(u, answer), outdated' = outdated,
             bucket' = bucket, mapping' \in {"none", "mapped", "dynamic"}
      PROVE  LoopInv'
  <2> DEFINE r == [uploads[u] EXCEPT !.at = "answered"]
  <2>1. /\ r \in Begun /\ r.at = "answered" /\ r.task = uploads[u].task
        /\ uploads' = [uploads EXCEPT ![u] = r]
    BY <1>3, <1>4 DEF Replies
  <2>2. loop' = [t \in Tasks |-> IF loop[t] = u THEN NoUpload ELSE loop[t]]
    BY <1>4 DEF Replies
  <2> HIDE DEF r
  <2> QED BY <1>1, <1>4, <2>1, <2>2, LoopMoves
<1>5. ASSUME NEW where \in {"text", "bulk"}, Goes(u, where), UNCHANGED storage
      PROVE  LoopInv'
  <2> DEFINE r == [uploads[u] EXCEPT !.at = where]
  <2>1. /\ r \in Begun /\ r.at = where /\ r.task = uploads[u].task
        /\ uploads' = [uploads EXCEPT ![u] = r]
    BY <1>3, <1>5 DEF Goes
  <2>2. loop' = loop /\ outdated' = outdated /\ bucket' = bucket /\ mapping' = mapping
    BY <1>5 DEF Goes, storage
  <2> HIDE DEF r
  <2> QED BY <1>1, <1>2, <2>1, <2>2, LoopMoves
<1>6. CASE Upload(u)
  <2>1. CASE Refuses(u, 401) \/ Refuses(u, 400)
    BY <1>2, <1>4, <2>1 DEF Refuses, storage
  <2>2. CASE /\ loop' = [loop EXCEPT ![uploads[u].task] = u]
             /\ uploads' = [uploads EXCEPT ![u].at = "original"]
             /\ UNCHANGED storage
    <3> DEFINE r == [uploads[u] EXCEPT !.at = "original"]
    <3>1. /\ r \in Begun /\ r.at = "original" /\ r.task = uploads[u].task
          /\ uploads' = [uploads EXCEPT ![u] = r]
      BY <1>3, <2>2
    <3> HIDE DEF r
    <3>2. loop' = [loop EXCEPT ![r.task] = u]
      BY <2>2, <3>1
    <3> QED BY <1>1, <1>2, <2>2, <3>1, <3>2, LoopMoves DEF storage
  <2> QED BY <1>6, <2>1, <2>2 DEF Upload
<1>7. CASE StoreInS3(u)
  BY <1>5, <1>7 DEF StoreInS3
<1>8. CASE StoreTextInS3(u)
  <2>1. PICK key \in BOOLEAN :
          uploads' = [uploads EXCEPT ![u].at = "embed", ![u].key = key]
    BY <1>8 DEF StoreTextInS3
  <2> DEFINE r == [uploads[u] EXCEPT !.at = "embed", !.key = key]
  <2>2. /\ r \in Begun /\ r.at = "embed" /\ r.task = uploads[u].task
    BY <1>1 DEF Begun
  <2>3. uploads' = [uploads EXCEPT ![u] = r]
    BY <2>1 DEF LoopInv
  <2>4. loop' = loop /\ outdated' = outdated /\ bucket' \in {bucket, bucket \cup {u}}
        /\ mapping' = mapping
    BY <1>8 DEF StoreTextInS3
  <2> HIDE DEF r
  <2> QED BY <1>1, <1>2, <2>2, <2>3, <2>4, LoopMoves
<1>9. CASE EmbedChunks(u)
  BY <1>2, <1>4, <1>5, <1>9 DEF EmbedChunks, Done, storage
<1>10. CASE IndexInOpenSearch(u)
  <2>1. /\ \E answer : Replies(u, answer)
        /\ bucket' = bucket /\ outdated' = outdated
        /\ mapping' \in {mapping, "dynamic"}
    BY <1>10 DEF IndexInOpenSearch, Done
  <2> QED BY <1>2, <1>4, <2>1
<1> QED BY <1>6, <1>7, <1>8, <1>9, <1>10 DEF Ingest

LEMMA LoopSent ==
    ASSUME LoopInv, NEW u \in Uploaded, NEW t \in Tasks, NEW text \in Texts,
           SendUpload(u, t, text, SignedIn)
    PROVE  LoopInv'
<1> DEFINE r == [at |-> "sent", task |-> t, text |-> text, session |-> SignedIn,
                 key |-> FALSE]
<1>1. uploads[u].at = "none" /\ uploads' = [uploads EXCEPT ![u] = r]
      /\ UNCHANGED <<loop, bucket, mapping, outdated>>
  BY DEF SendUpload, storage
<1>2. r \in Begun
  BY DEF Begun, SignedIn
<1> HIDE DEF r
<1>3. uploads' \in [Uploaded -> {NotYet} \cup Begun]
  BY <1>1, <1>2 DEF LoopInv
<1>4. \A v \in outdated' : uploads'[v].at \in {"answered", "lost"}
  BY <1>1 DEF LoopInv
<1>5. \A s \in Tasks : loop'[s] # NoUpload =>
         uploads'[loop'[s]].task = s
         /\ uploads'[loop'[s]].at \in {"original", "text", "embed", "bulk"}
  BY <1>1 DEF LoopInv
<1> QED BY <1>1, <1>3, <1>4, <1>5 DEF LoopInv

LEMMA LoopLost ==
    ASSUME LoopInv, NEW t \in Tasks, LoseUploads(t) PROVE LoopInv'
<1> DEFINE ends(u) == uploads[u].at \notin {"none", "answered", "lost"}
                      /\ uploads[u].task = t
<1>1. /\ uploads' = [u \in Uploaded |-> IF ends(u)
                        THEN [uploads[u] EXCEPT !.at = "lost"] ELSE uploads[u]]
      /\ loop' = [loop EXCEPT ![t] = NoUpload]
      /\ UNCHANGED <<bucket, mapping, outdated>>
  BY DEF LoseUploads, storage
<1>2. ASSUME NEW u \in Uploaded
      PROVE  /\ uploads'[u] \in {NotYet} \cup Begun
             /\ uploads[u].at \in {"answered", "lost"} =>
                   uploads'[u].at \in {"answered", "lost"}
             /\ uploads[u].at \in {"original", "text", "embed", "bulk"}
                /\ uploads[u].task # t => uploads'[u] = uploads[u]
  <2>1. CASE ends(u)
    <3>1. uploads'[u] = [uploads[u] EXCEPT !.at = "lost"]
      BY <1>1, <2>1
    <3>2. uploads[u] \in Begun
      BY <2>1 DEF LoopInv, NotYet
    <3> QED BY <2>1, <3>1, <3>2 DEF Begun
  <2>2. CASE ~ends(u)
    <3>1. uploads'[u] = uploads[u]
      BY <1>1, <2>2
    <3> QED BY <3>1 DEF LoopInv
  <2> QED BY <2>1, <2>2
<1> HIDE DEF ends
<1>3. uploads' \in [Uploaded -> {NotYet} \cup Begun]
  BY <1>1, <1>2
<1>4. loop' \in [Tasks -> Uploaded \cup {NoUpload}]
  BY <1>1 DEF LoopInv
<1>5. \A v \in outdated' : uploads'[v].at \in {"answered", "lost"}
  BY <1>1, <1>2 DEF LoopInv
<1>6. ASSUME NEW s \in Tasks, loop'[s] # NoUpload
      PROVE  uploads'[loop'[s]].task = s
             /\ uploads'[loop'[s]].at \in {"original", "text", "embed", "bulk"}
  <2>1. s # t /\ loop'[s] = loop[s] /\ loop[s] \in Uploaded
    BY <1>1, <1>6 DEF LoopInv
  <2>2. uploads[loop[s]].task = s
        /\ uploads[loop[s]].at \in {"original", "text", "embed", "bulk"}
    BY <1>6, <2>1 DEF LoopInv
  <2>3. uploads'[loop[s]] = uploads[loop[s]]
    BY <1>2, <2>1, <2>2
  <2> QED BY <2>1, <2>2, <2>3
<1> QED BY <1>1, <1>3, <1>4, <1>5, <1>6 DEF LoopInv

LEMMA LoopNext == ASSUME LoopInv, [Next]_vars PROVE LoopInv'
<1>1. ASSUME NEW b \in Tabs, NEW t \in Tasks, Browse(b, t) PROVE LoopInv'
  BY <1>1, LoopSame DEF Browse
<1>2. ASSUME NEW b \in Tabs, NEW t \in Tasks, NEW text \in Texts, Pick(b, t, text)
      PROVE  LoopInv'
  BY <1>2, LoopSent DEF Pick
<1>3. ASSUME NEW t \in Tasks, Others(t) PROVE LoopInv'
  BY <1>3, LoopSame DEF Others
<1>4. ASSUME NEW t \in Tasks, Replace(t) PROVE LoopInv'
  BY <1>4, LoopLost DEF Replace
<1>5. ASSUME NEW b \in Tabs, Respond(b) \/ Arrive(b) PROVE LoopInv'
  BY <1>5, LoopSame DEF Respond, Arrive
<1>6. ASSUME NEW u \in Uploaded, Process(u) PROVE LoopInv'
  BY <1>6, LoopIngest DEF Process
<1>7. CASE Storage
  <2>1. ASSUME NEW u \in Uploaded, Expire(u) PROVE LoopInv'
    BY <2>1 DEF Expire, LoopInv
  <2>2. CASE DropIndex
    BY <2>2 DEF DropIndex, LoopInv
  <2>3. CASE CreateIndex
    BY <2>3 DEF CreateIndex, LoopInv
  <2> QED BY <1>7, <2>1, <2>2, <2>3 DEF Storage
<1>8. CASE Pass \/ UNCHANGED vars
  BY <1>8, LoopSame DEF Pass, vars
<1> QED BY <1>1, <1>2, <1>3, <1>4, <1>5, <1>6, <1>7, <1>8 DEF Next

-----------------------------------------------------------------------------
(***************************************************************************)
(* The chunks.  Length and Chunks are loops, written as recursive          *)
(* functions.  A loop that can always take its next step has its values,   *)
(* and only these, by the least number at which it would not; and so what  *)
(* each step keeps, the last value has.                                    *)
(***************************************************************************)

(* A set of numbers has a least one. *)
LEMMA Least ==
    ASSUME NEW T, T \subseteq Nat, T # {}
    PROVE  \E n \in T : \A m \in T : ~(m < n)
<1>1. IsWellFoundedOn({p \in Nat \X Nat : p[1] < p[2]}, Nat)
  BY NatLessThanWellFounded DEF OpToRel
<1>2. \E n \in T : \A m \in T : ~(<<m, n>> \in {p \in Nat \X Nat : p[1] < p[2]})
  BY <1>1, WFMin
<1> QED
  BY <1>2

(* The values of a loop: f[n] is that of step for f[n - 1] and n. *)
Runs(f, k, S, base, step) ==
    f[0] = base /\ \A n \in 1..k : f[n - 1] \in S => f[n] = step[<<f[n - 1], n>>]

LEMMA Recursion ==
    ASSUME NEW N \in Nat, NEW S, NEW base \in S, NEW step \in [S \X (1..N) -> S]
    PROVE  \E f \in [0..N -> S] : Runs(f, N, S, base, step)
<1> DEFINE Bad == {k \in 0..N : ~ \E f \in [0..k -> S] : Runs(f, k, S, base, step)}
<1>1. SUFFICES ASSUME Bad # {} PROVE FALSE
  <2>1. N \in 0..N
    OBVIOUS
  <2> QED BY <1>1, <2>1
<1>2. PICK k \in Bad : \A m \in Bad : ~(m < k)
  <2> Bad \subseteq Nat
    OBVIOUS
  <2> HIDE DEF Bad
  <2> QED BY <1>1, Least
<1>3. k \in 0..N /\ k \in Nat
  OBVIOUS
<1>4. CASE k = 0
  <2> DEFINE f == [n \in 0..0 |-> base]
  <2>1. f \in [0..k -> S] /\ f[0] = base
    BY <1>4
  <2>2. Runs(f, k, S, base, step)
    BY <1>4, <2>1 DEF Runs
  <2> QED BY <2>1, <2>2
<1>5. CASE k # 0
  <2>1. k - 1 \in 0..N /\ k - 1 < k /\ k - 1 \in Nat
    BY <1>3, <1>5
  <2>2. k - 1 \notin Bad
    BY <1>2, <2>1
  <2>3. PICK f \in [0..(k - 1) -> S] : Runs(f, k - 1, S, base, step)
    BY <2>1, <2>2
  <2> DEFINE g == [n \in 0..k |-> IF n = k THEN step[<<f[k - 1], k>>] ELSE f[n]]
  <2>4. f[k - 1] \in S /\ <<f[k - 1], k>> \in S \X (1..N)
    BY <2>1, <1>3, <1>5
  <2>5. \A n \in 0..k : n # k => n \in 0..(k - 1)
    BY <1>3
  <2>6. g \in [0..k -> S]
    BY <2>4, <2>5
  <2>7. g[0] = base
    BY <2>3, <1>3, <1>5 DEF Runs
  <2>8. ASSUME NEW n \in 1..k PROVE g[n] = step[<<g[n - 1], n>>]
    <3>1. n - 1 \in 0..k /\ n - 1 # k /\ n \in 0..k
      BY <1>3
    <3>2. g[n - 1] = f[n - 1]
      BY <3>1
    <3>3. CASE n = k
      BY <3>1, <3>2, <3>3
    <3>4. CASE n # k
      <4>1. n \in 1..(k - 1)
        BY <3>4, <1>3
      <4>2. n - 1 \in 0..(k - 1)
        BY <1>3
      <4> QED BY <2>3, <3>1, <3>2, <3>4, <4>1, <4>2 DEF Runs
    <3> QED BY <3>3, <3>4
  <2>9. Runs(g, k, S, base, step)
    <3> HIDE DEF g
    <3> QED BY <2>7, <2>8 DEF Runs
  <2> HIDE DEF g
  <2> QED BY <2>6, <2>9
<1> QED BY <1>4, <1>5

(* Whatever takes the same steps from the same beginning goes the same way. *)
LEMMA Agree ==
    ASSUME NEW N \in Nat, NEW S, NEW base, NEW step,
           NEW f \in [0..N -> S], Runs(f, N, S, base, step),
           NEW g, Runs(g, N, S, base, step)
    PROVE  \A n \in 0..N : g[n] = f[n]
<1> DEFINE Bad == {n \in 0..N : g[n] # f[n]}
<1>1. SUFFICES ASSUME Bad # {} PROVE FALSE
  OBVIOUS
<1>2. PICK n \in Bad : \A m \in Bad : ~(m < n)
  <2> Bad \subseteq Nat
    OBVIOUS
  <2> HIDE DEF Bad
  <2> QED BY <1>1, Least
<1>3. n \in 0..N /\ n # 0
  BY DEF Runs
<1>4. n \in 1..N /\ n - 1 \in 0..N /\ n - 1 < n
  BY <1>3
<1>5. n - 1 \notin Bad
  BY <1>2, <1>4
<1>6. g[n] = f[n]
  BY <1>4, <1>5 DEF Runs
<1> QED BY <1>6

(* What is added up, one paragraph after the other, is the length. *)
Sums(g, text, chunk) ==
    /\ g[0] = -Separator
    /\ \A n \in 1..Len(chunk) : g[n] = g[n - 1] + Separator + text[chunk[n]]

LEMMA SumsAgree ==
    ASSUME NEW text \in Seq(Nat), NEW chunk \in Seq(1..Len(text))
    PROVE  \E f \in [0..Len(chunk) -> Int] :
              /\ Sums(f, text, chunk)
              /\ \A g : Sums(g, text, chunk) => g[Len(chunk)] = f[Len(chunk)]
<1> DEFINE N == Len(chunk)
           step == [x \in Int \X (1..N) |-> x[1] + Separator + text[chunk[x[2]]]]
<1>1. N \in Nat /\ -Separator \in Int /\ Separator \in Int /\ N \in 0..N
  BY UploadsAssumption
<1>2. step \in [Int \X (1..N) -> Int]
  BY <1>1
<1>3. PICK f \in [0..N -> Int] : Runs(f, N, Int, -Separator, step)
  <2> HIDE DEF N, step
  <2> QED BY <1>1, <1>2, Recursion
<1>4. \A n \in 1..N : f[n] = f[n - 1] + Separator + text[chunk[n]]
  <2>1. ASSUME NEW n \in 1..N PROVE f[n] = f[n - 1] + Separator + text[chunk[n]]
    <3>1. n - 1 \in 0..N
      BY <1>1
    <3>2. f[n] = step[<<f[n - 1], n>>]
      <4> HIDE DEF step, N
      <4> QED BY <1>3, <3>1 DEF Runs
    <3>3. <<f[n - 1], n>> \in Int \X (1..N)
      BY <3>1
    <3> QED BY <3>2, <3>3
  <2> QED BY <2>1
<1>5. Sums(f, text, chunk)
  BY <1>3, <1>4 DEF Runs, Sums
<1>6. ASSUME NEW g, Sums(g, text, chunk) PROVE g[N] = f[N]
  <2>1. \A n \in 1..N : g[n] = g[n - 1] + Separator + text[chunk[n]]
    BY <1>6 DEF Sums
  <2>2. ASSUME NEW n \in 1..N, g[n - 1] \in Int PROVE g[n] = step[<<g[n - 1], n>>]
    BY <2>1, <2>2
  <2> HIDE DEF step, N
  <2>3. Runs(g, N, Int, -Separator, step)
    BY <1>6, <2>2 DEF Runs, Sums
  <2>4. \A n \in 0..N : g[n] = f[n]
    <3> DEFINE S == Int
               base == -Separator
    <3>1. /\ N \in Nat /\ f \in [0..N -> S] /\ Runs(f, N, S, base, step)
          /\ Runs(g, N, S, base, step)
      BY <1>1, <1>3, <2>3
    <3> HIDE DEF S, base
    <3> QED BY <3>1, Agree
  <2> QED BY <1>1, <2>4
<1> QED BY <1>5, <1>6

LEMMA LengthIsSum ==
    ASSUME NEW text \in Seq(Nat), NEW chunk \in Seq(1..Len(text))
    PROVE  /\ Length(text, chunk) \in Int
           /\ \A g : Sums(g, text, chunk) => Length(text, chunk) = g[Len(chunk)]
<1> DEFINE N == Len(chunk)
           upTo == CHOOSE f : f = [n \in 0..N |-> IF n = 0 THEN -Separator
                                    ELSE f[n - 1] + Separator + text[chunk[n]]]
<1>1. N \in Nat /\ N \in 0..N
  OBVIOUS
<1>2. PICK f \in [0..N -> Int] :
        /\ Sums(f, text, chunk)
        /\ \A g : Sums(g, text, chunk) => g[N] = f[N]
  BY SumsAgree
<1>3. f = [n \in 0..N |-> IF n = 0 THEN -Separator
                           ELSE f[n - 1] + Separator + text[chunk[n]]]
  <2>1. \A n \in 0..N : n # 0 => n \in 1..N
    BY <1>1
  <2> QED BY <1>2, <2>1 DEF Sums
<1>4. upTo = [n \in 0..N |-> IF n = 0 THEN -Separator
                              ELSE upTo[n - 1] + Separator + text[chunk[n]]]
  <2> HIDE DEF N
  <2> QED BY <1>3
<1>5. Length(text, chunk) = upTo[N]
  BY DEF Length
<1> HIDE DEF upTo
<1>6. Sums(upTo, text, chunk)
  <2>1. \A n \in 1..N : n \in 0..N /\ n # 0
    BY <1>1
  <2>2. upTo[0] = -Separator
    BY <1>4, <1>1
  <2> QED BY <1>4, <2>1, <2>2 DEF Sums
<1>7. upTo[N] = f[N] /\ f[N] \in Int
  BY <1>1, <1>2, <1>6
<1> QED BY <1>2, <1>5, <1>7

LEMMA LengthAppend ==
    ASSUME NEW text \in Seq(Nat), NEW chunk \in Seq(1..Len(text)), NEW p \in 1..Len(text)
    PROVE  Length(text, Append(chunk, p)) = Length(text, chunk) + Separator + text[p]
<1> DEFINE N == Len(chunk)
           long == Append(chunk, p)
<1>1. N \in Nat /\ Len(long) = N + 1 /\ long \in Seq(1..Len(text)) /\ long[N + 1] = p
      /\ \A n \in 1..N : long[n] = chunk[n]
  OBVIOUS
<1> HIDE DEF long
<1>2. PICK g \in [0..Len(long) -> Int] : Sums(g, text, long)
  BY <1>1, SumsAgree
<1>3. Length(text, long) = g[N + 1]
  BY <1>1, <1>2, LengthIsSum
<1>4. Sums(g, text, chunk)
  <2>1. \A n \in 1..N : n \in 1..(N + 1)
    BY <1>1
  <2> QED BY <1>1, <1>2, <2>1 DEF Sums
<1>5. Length(text, chunk) = g[N]
  BY <1>4, LengthIsSum
<1>6. g[N + 1] = g[N] + Separator + text[p]
  <2>1. N + 1 \in 1..(N + 1) /\ (N + 1) - 1 = N
    BY <1>1
  <2>2. g[N + 1] = g[(N + 1) - 1] + Separator + text[long[N + 1]]
    BY <1>1, <1>2, <2>1 DEF Sums
  <2> QED BY <1>1, <2>1, <2>2
<1> QED BY <1>3, <1>5, <1>6 DEF long

(* The first n paragraphs are each in one of the chunks, at one position of *)
(* the sequence, and only a chunk of one paragraph is over the limit.       *)
Placed(text, chunks, n) ==
    /\ chunks \in Seq(Seq(1..n))
    /\ \A p \in 1..n : \E k \in 1..Len(chunks) :
          /\ p \in Range(chunks[k])
          /\ \A j \in 1..Len(chunks) : p \in Range(chunks[j]) => j = k
    /\ \A k \in 1..Len(chunks) :
          Len(chunks[k]) > 1 => Length(text, chunks[k]) <= ChunkMax

LEMMA OneMore ==
    ASSUME NEW m \in Nat, NEW c \in Seq(1..m)
    PROVE  /\ c \in Seq(1..(m + 1)) /\ Range(c) \subseteq 1..m
           /\ Append(c, m + 1) \in Seq(1..(m + 1))
           /\ Range(Append(c, m + 1)) = Range(c) \cup {m + 1}
<1> DEFINE T == 1..m
           U == 1..(m + 1)
<1>1. c \in Seq(T) /\ T \subseteq U /\ m + 1 \in U
  OBVIOUS
<1> HIDE DEF T, U
<1>2. DOMAIN c = 1..Len(c) /\ Len(c) \in Nat /\ \A i \in 1..Len(c) : c[i] \in T
  BY <1>1
<1>3. c \in Seq(U) /\ Append(c, m + 1) \in Seq(U)
  BY <1>1
<1>4. Range(c) \subseteq T
  BY <1>2 DEF Range
<1>5. /\ DOMAIN Append(c, m + 1) = 1..(Len(c) + 1)
      /\ Append(c, m + 1)[Len(c) + 1] = m + 1
      /\ \A i \in 1..Len(c) : Append(c, m + 1)[i] = c[i]
  BY <1>1
<1>6. 1..(Len(c) + 1) = 1..Len(c) \cup {Len(c) + 1}
  BY <1>2
<1>7. Range(Append(c, m + 1)) = Range(c) \cup {m + 1}
  BY <1>2, <1>5, <1>6 DEF Range
<1> QED BY <1>3, <1>4, <1>7 DEF T, U

LEMMA AddedType ==
    ASSUME NEW text, NEW m \in Nat, NEW chunks \in Seq(Seq(1..m)), NEW p \in 1..m
    PROVE  Added(text, chunks, p) \in Seq(Seq(1..m))
<1>1. CASE chunks # <<>> /\ Fits(text, Last(chunks), p)
  <2>1. Len(chunks) \in 1..Len(chunks) /\ chunks[Len(chunks)] \in Seq(1..m)
    BY <1>1
  <2>2. Append(chunks[Len(chunks)], p) \in Seq(1..m)
    BY <2>1
  <2>3. Added(text, chunks, p) = [chunks EXCEPT ![Len(chunks)] = Append(chunks[Len(chunks)], p)]
    BY <1>1 DEF Added
  <2> QED BY <2>1, <2>2, <2>3
<1>2. CASE ~(chunks # <<>> /\ Fits(text, Last(chunks), p))
  <2> DEFINE T == Seq(1..m)
  <2>1. <<p>> \in T /\ chunks \in Seq(T)
    OBVIOUS
  <2>2. Added(text, chunks, p) = Append(chunks, <<p>>)
    BY <1>2 DEF Added
  <2> HIDE DEF T
  <2>3. Append(chunks, <<p>>) \in Seq(T)
    BY <2>1
  <2> QED BY <2>2, <2>3 DEF T
<1> QED BY <1>1, <1>2

LEMMA AddedPlaces ==
    ASSUME NEW text \in Seq(Nat), NEW m \in Nat, m + 1 \in 1..Len(text),
           NEW chunks, Placed(text, chunks, m)
    PROVE  Placed(text, Added(text, chunks, m + 1), m + 1)
<1> DEFINE K == Len(chunks)
           more == Added(text, chunks, m + 1)
<1>1. /\ chunks \in Seq(Seq(1..m)) /\ K \in Nat
      /\ \A k \in 1..K : chunks[k] \in Seq(1..m)
  BY DEF Placed
<1>2. \A k \in 1..K : /\ chunks[k] \in Seq(1..(m + 1))
                      /\ Range(chunks[k]) \subseteq 1..m
                      /\ Append(chunks[k], m + 1) \in Seq(1..(m + 1))
                      /\ Range(Append(chunks[k], m + 1)) = Range(chunks[k]) \cup {m + 1}
  <2>1. ASSUME NEW c \in Seq(1..m)
        PROVE  /\ c \in Seq(1..(m + 1)) /\ Range(c) \subseteq 1..m
               /\ Append(c, m + 1) \in Seq(1..(m + 1))
               /\ Range(Append(c, m + 1)) = Range(c) \cup {m + 1}
    BY OneMore
  <2> HIDE DEF K
  <2> QED BY <1>1, <2>1
<1>3. more \in Seq(Seq(1..(m + 1)))
  <2>1. chunks \in Seq(Seq(1..(m + 1)))
    BY <1>1, <1>2
  <2> QED BY <2>1, AddedType
<1>4. m + 1 \notin 1..m /\ \A p \in 1..(m + 1) : p # m + 1 => p \in 1..m
  OBVIOUS
<1>5. ASSUME NEW p \in 1..m
      PROVE  \E k \in 1..K : p \in Range(chunks[k])
                /\ \A j \in 1..K : p \in Range(chunks[j]) => j = k
  BY DEF Placed
<1>6. CASE chunks # <<>> /\ Fits(text, Last(chunks), m + 1)
  <2>1. K \in 1..K /\ K # 0
    BY <1>1, <1>6
  <2>2. /\ more = [chunks EXCEPT ![K] = Append(chunks[K], m + 1)]
        /\ Last(chunks) = chunks[K]
    BY <1>6 DEF Added, Last
  <2>3. /\ Len(more) = K /\ more[K] = Append(chunks[K], m + 1)
        /\ \A k \in 1..K : k # K => more[k] = chunks[k]
    BY <1>1, <2>1, <2>2
  <2> HIDE DEF more, K
  <2>4. \A k \in 1..K : Range(more[k]) = IF k = K THEN Range(chunks[k]) \cup {m + 1}
                                                  ELSE Range(chunks[k])
    BY <1>2, <2>1, <2>3
  <2>5. ASSUME NEW p \in 1..(m + 1)
        PROVE  \E k \in 1..K : p \in Range(more[k])
                  /\ \A j \in 1..K : p \in Range(more[j]) => j = k
    <3>1. CASE p = m + 1
      BY <1>2, <1>4, <2>1, <2>4, <3>1
    <3>2. CASE p # m + 1
      <4>1. PICK k \in 1..K : p \in Range(chunks[k])
                /\ \A j \in 1..K : p \in Range(chunks[j]) => j = k
        BY <1>4, <1>5, <3>2
      <4>2. \A j \in 1..K : p \in Range(more[j]) <=> p \in Range(chunks[j])
        BY <2>4, <3>2
      <4> QED BY <4>1, <4>2
    <3> QED BY <3>1, <3>2
  <2>6. Length(text, more[K]) <= ChunkMax
    <3>1. chunks[K] \in Seq(1..Len(text))
      <4>1. 1..m \subseteq 1..Len(text)
        OBVIOUS
      <4> QED BY <1>1, <2>1, <4>1
    <3>2. /\ Length(text, chunks[K]) \in Int /\ text[m + 1] \in Int /\ Separator \in Int
          /\ Length(text, more[K]) = Length(text, chunks[K]) + Separator + text[m + 1]
      BY <2>3, <3>1, LengthIsSum, LengthAppend, UploadsAssumption
    <3>3. Length(text, chunks[K]) + text[m + 1] + Separator <= ChunkMax
      BY <1>6, <2>2 DEF Fits
    <3> QED BY <3>2, <3>3, UploadsAssumption
  <2>7. \A k \in 1..K : Len(more[k]) > 1 => Length(text, more[k]) <= ChunkMax
    <3>1. \A k \in 1..K : Len(chunks[k]) > 1 => Length(text, chunks[k]) <= ChunkMax
      BY DEF Placed, K
    <3> QED BY <2>3, <2>6, <3>1
  <2> QED BY <1>3, <2>3, <2>5, <2>7 DEF Placed, more
<1>7. CASE ~(chunks # <<>> /\ Fits(text, Last(chunks), m + 1))
  <2>1. more = Append(chunks, <<m + 1>>)
    BY <1>7 DEF Added
  <2>2. /\ Len(more) = K + 1 /\ more[K + 1] = <<m + 1>>
        /\ \A k \in 1..K : more[k] = chunks[k]
    BY <1>1, <2>1
  <2> HIDE DEF more, K
  <2>3. /\ K + 1 \in 1..(K + 1) /\ K + 1 \notin 1..K
        /\ \A k \in 1..(K + 1) : k = K + 1 \/ k \in 1..K
        /\ 1..K \subseteq 1..(K + 1)
    BY <1>1
  <2>4. Range(more[K + 1]) = {m + 1} /\ Len(more[K + 1]) = 1
    BY <2>2 DEF Range
  <2>5. ASSUME NEW p \in 1..(m + 1)
        PROVE  \E k \in 1..(K + 1) : p \in Range(more[k])
                  /\ \A j \in 1..(K + 1) : p \in Range(more[j]) => j = k
    <3>1. CASE p = m + 1
      BY <1>2, <1>4, <2>2, <2>3, <2>4, <3>1
    <3>2. CASE p # m + 1
      BY <1>4, <1>5, <2>2, <2>3, <2>4, <3>2
    <3> QED BY <3>1, <3>2
  <2>6. \A k \in 1..(K + 1) : Len(more[k]) > 1 => Length(text, more[k]) <= ChunkMax
    <3>1. \A k \in 1..K : Len(chunks[k]) > 1 => Length(text, chunks[k]) <= ChunkMax
      BY DEF Placed, K
    <3>2. ASSUME NEW k \in 1..(K + 1), Len(more[k]) > 1
          PROVE  Length(text, more[k]) <= ChunkMax
      <4>1. k # K + 1
        <5>1. CASE k = K + 1
          <6>1. Len(more[k]) = 1
            BY <2>4, <5>1
          <6> QED BY <3>2, <6>1
        <5> QED BY <5>1
      <4>2. k \in 1..K /\ more[k] = chunks[k]
        BY <2>2, <2>3, <4>1
      <4> QED BY <3>1, <3>2, <4>2
    <3> QED BY <3>2
  <2> QED BY <1>3, <2>2, <2>5, <2>6 DEF Placed, more
<1> QED BY <1>6, <1>7

LEMMA ChunksPlaced ==
    ASSUME NEW text \in Seq(Nat) PROVE Placed(text, Chunks(text), Len(text))
<1> DEFINE N == Len(text)
           S == Seq(Seq(1..N))
           step == [x \in S \X (1..N) |-> Added(text, x[1], x[2])]
           first == CHOOSE f : f = [n \in 0..N |-> IF n = 0 THEN <<>>
                                     ELSE Added(text, f[n - 1], n)]
<1>1. N \in Nat /\ N \in 0..N /\ <<>> \in S
  OBVIOUS
<1>2. step \in [S \X (1..N) -> S]
  BY <1>1, AddedType
<1>3. PICK f \in [0..N -> S] : Runs(f, N, S, <<>>, step)
  <2> HIDE DEF N, S, step
  <2> QED BY <1>1, <1>2, Recursion
<1>4. \A n \in 1..N : f[n] = Added(text, f[n - 1], n)
  <2>1. ASSUME NEW n \in 1..N PROVE f[n] = Added(text, f[n - 1], n)
    <3>1. n - 1 \in 0..N
      BY <1>1
    <3> HIDE DEF S
    <3>2. f[n] = step[<<f[n - 1], n>>]
      <4> HIDE DEF step, N
      <4> QED BY <1>3, <3>1 DEF Runs
    <3>3. <<f[n - 1], n>> \in S \X (1..N)
      BY <3>1
    <3> QED BY <3>2, <3>3
  <2> QED BY <2>1
<1>5. f = [n \in 0..N |-> IF n = 0 THEN <<>> ELSE Added(text, f[n - 1], n)]
  <2>1. \A n \in 0..N : n # 0 => n \in 1..N
    BY <1>1
  <2>2. f[0] = <<>>
    BY <1>3 DEF Runs
  <2> QED BY <1>4, <2>1, <2>2
<1>6. first = [n \in 0..N |-> IF n = 0 THEN <<>> ELSE Added(text, first[n - 1], n)]
  <2> HIDE DEF N
  <2> QED BY <1>5
<1>7. Chunks(text) = first[N]
  BY DEF Chunks
<1> HIDE DEF first, S, step
<1> DEFINE Bad == {n \in 0..N : ~Placed(text, first[n], n)}
<1>8. SUFFICES ASSUME Bad # {} PROVE FALSE
  BY <1>1, <1>7
<1>9. PICK n \in Bad : \A m \in Bad : ~(m < n)
  <2> Bad \subseteq Nat
    OBVIOUS
  <2> HIDE DEF Bad
  <2> QED BY <1>8, Least
<1>10. n \in 0..N /\ ~Placed(text, first[n], n)
  OBVIOUS
<1>11. CASE n = 0
  <2>1. first[n] = <<>>
    BY <1>6, <1>10, <1>11
  <2>2. Placed(text, <<>>, 0)
    BY DEF Placed
  <2> QED BY <1>10, <1>11, <2>1, <2>2
<1>12. CASE n # 0
  <2>1. PICK m \in Nat : n = m + 1 /\ m \in 0..N /\ m < n /\ m = n - 1
    <3>1. n - 1 \in Nat /\ n = (n - 1) + 1 /\ n - 1 \in 0..N /\ n - 1 < n
      BY <1>10, <1>12
    <3> QED BY <3>1
  <2>2. first[n] = Added(text, first[m], m + 1)
    BY <1>6, <1>10, <1>12, <2>1
  <2>3. m \notin Bad
    BY <1>9, <2>1
  <2>4. Placed(text, first[m], m)
    BY <2>1, <2>3
  <2>5. m + 1 \in 1..Len(text)
    BY <1>10, <2>1
  <2> QED BY <1>10, <2>1, <2>2, <2>4, <2>5, AddedPlaces
<1> QED BY <1>11, <1>12

(* The chunks of a text let every paragraph be found once.                  *)
LEMMA ChunksFindAll ==
    ASSUME NEW text \in Seq(Nat) PROVE FindsAll(text, ToSet(Chunks(text)))
<1> DEFINE C == Chunks(text)
           all == ToSet(C)
<1>1. Placed(text, C, Len(text)) /\ DOMAIN text = 1..Len(text)
  BY ChunksPlaced
<1> HIDE DEF C
<1>2. /\ \A k \in 1..Len(C) : C[k] \in all
      /\ \A c \in all : \E k \in 1..Len(C) : c = C[k]
  BY <1>1 DEF Placed, ToSet
<1> HIDE DEF all
<1>3. ASSUME NEW p \in DOMAIN text
      PROVE  Cardinality({c \in all : p \in Range(c)}) = 1
  <2>1. PICK k \in 1..Len(C) : /\ p \in Range(C[k])
                               /\ \A j \in 1..Len(C) : p \in Range(C[j]) => j = k
    BY <1>1 DEF Placed
  <2>2. {c \in all : p \in Range(c)} = {C[k]}
    BY <1>2, <2>1
  <2> QED BY <2>2, FS_Singleton
<1>4. \A c \in all : Len(c) > 1 => Length(text, c) <= ChunkMax
  BY <1>1, <1>2 DEF Placed
<1> QED BY <1>3, <1>4 DEF FindsAll, all, C

-----------------------------------------------------------------------------
(***************************************************************************)
(* The answers                                                             *)
(***************************************************************************)

(* What a handler does with its own upload keeps what was told of the rest. *)
LEMMA AnswerMoves ==
    ASSUME LoopInv, AnswerInv, NEW u \in Uploaded, uploads[u] \in Begun,
           uploads[u].at \notin {"answered", "lost"},
           NEW r \in Begun, uploads' = [uploads EXCEPT ![u] = r],
           r.at \in {"embed", "bulk"} /\ r.key => u \in bucket',
           bucket \subseteq bucket', UNCHANGED <<outdated, wiped>>,
           DOMAIN index' = Uploaded, \A v \in Uploaded : v # u => index'[v] = index[v],
           \/ told' = told /\ r.at # "answered"
           \/ \E answer \in UploadAnswer :
                /\ told' = [told EXCEPT ![u] = answer] /\ r.at = "answered"
                /\ answer.status = 200 =>
                      /\ answer.textKey => u \in bucket'
                      /\ answer.indexed => index'[u] = ToSet(Chunks(r.text))
    PROVE  AnswerInv'
<1>1. told[u] = NoAnswer /\ NoAnswer.status # 200 /\ NoAnswer \in UploadAnswer
  BY DEF AnswerInv, NoAnswer, UploadAnswer
<1>2. told' \in [Uploaded -> UploadAnswer]
  BY DEF AnswerInv
<1>3. ASSUME NEW v \in Uploaded
      PROVE  /\ uploads'[v].at # "answered" => told'[v] = NoAnswer
             /\ uploads'[v].at \in {"embed", "bulk"} /\ uploads'[v].key => v \in bucket'
             /\ told'[v].status = 200 =>
                 /\ told'[v].textKey => v \in bucket' \cup outdated'
                 /\ told'[v].indexed /\ v \notin wiped' =>
                       index'[v] = ToSet(Chunks(uploads'[v].text))
  <2>1. CASE v # u
    <3>1. uploads'[v] = uploads[v] /\ told'[v] = told[v] /\ index'[v] = index[v]
      BY <2>1 DEF LoopInv, AnswerInv
    <3> QED BY <3>1 DEF AnswerInv
  <2>2. CASE v = u
    <3>1. uploads'[v] = r
      BY <2>2 DEF LoopInv
    <3>2. CASE told' = told /\ r.at # "answered"
      BY <1>1, <2>2, <3>1, <3>2
    <3>3. CASE r.at = "answered"
      <4>1. PICK answer \in UploadAnswer :
              /\ told' = [told EXCEPT ![u] = answer]
              /\ answer.status = 200 =>
                    /\ answer.textKey => u \in bucket'
                    /\ answer.indexed => index'[u] = ToSet(Chunks(r.text))
        BY <3>3
      <4>2. told'[v] = answer
        BY <2>2, <4>1 DEF AnswerInv
      <4> QED BY <2>2, <3>1, <3>3, <4>1, <4>2
    <3> QED BY <3>2, <3>3
  <2> QED BY <2>1, <2>2
<1> QED BY <1>2, <1>3 DEF AnswerInv

LEMMA AnswerIngest ==
    ASSUME LoopInv, AnswerInv, NEW u \in Uploaded, Ingest(u) PROVE AnswerInv'
<1>1. /\ uploads[u].at \in {"sent", "original", "text", "embed", "bulk"}
      /\ uploads[u] \in Begun
  <2>1. uploads[u].at \in {"sent", "original", "text", "embed", "bulk"}
    BY DEF Ingest, Upload, StoreInS3, StoreTextInS3, EmbedChunks, IndexInOpenSearch
  <2>2. uploads[u] \in {NotYet} \cup Begun
    BY DEF LoopInv
  <2> QED BY <2>1, <2>2 DEF NotYet
<1>2. ASSUME NEW where \in {"sent", "original", "text", "embed", "bulk", "answered", "lost"}
      PROVE  /\ [uploads[u] EXCEPT !.at = where] \in Begun
             /\ [uploads[u] EXCEPT !.at = where].at = where
             /\ [uploads[u] EXCEPT !.at = where].key = uploads[u].key
             /\ [uploads[u] EXCEPT !.at = where].text = uploads[u].text
             /\ [uploads EXCEPT ![u].at = where]
                  = [uploads EXCEPT ![u] = [uploads[u] EXCEPT !.at = where]]
  BY <1>1 DEF Begun
<1>3. ASSUME NEW where \in {"original", "text", "bulk"},
             uploads' = [uploads EXCEPT ![u].at = where],
             where = "bulk" => uploads[u].at = "embed", UNCHANGED <<told, storage>>
      PROVE  AnswerInv'
  <2> DEFINE r == [uploads[u] EXCEPT !.at = where]
  <2>1. /\ r \in Begun /\ r.at = where /\ r.key = uploads[u].key
        /\ uploads' = [uploads EXCEPT ![u] = r]
    BY <1>2, <1>3
  <2> HIDE DEF r
  <2>2. r.at \in {"embed", "bulk"} /\ r.key => u \in bucket'
    BY <1>3, <2>1 DEF AnswerInv, storage
  <2>3. /\ DOMAIN index' = Uploaded /\ index' = index /\ bucket' = bucket
        /\ UNCHANGED <<outdated, wiped>> /\ told' = told /\ r.at # "answered"
    BY <1>3, <2>1 DEF AnswerInv, storage
  <2> QED BY <1>1, <2>1, <2>2, <2>3, AnswerMoves
<1>4. ASSUME NEW answer \in UploadAnswer, Replies(u, answer),
             UNCHANGED <<bucket, outdated, wiped>>,
             DOMAIN index' = Uploaded, \A v \in Uploaded : v # u => index'[v] = index[v],
             answer.status = 200 =>
                /\ answer.textKey => u \in bucket
                /\ answer.indexed => index'[u] = ToSet(Chunks(uploads[u].text))
      PROVE  AnswerInv'
  <2> DEFINE r == [uploads[u] EXCEPT !.at = "answered"]
  <2>1. /\ r \in Begun /\ r.at = "answered" /\ r.text = uploads[u].text
        /\ uploads' = [uploads EXCEPT ![u] = r]
    BY <1>2, <1>4 DEF Replies
  <2>2. told' = [told EXCEPT ![u] = answer]
    BY <1>4 DEF Replies
  <2> HIDE DEF r
  <2>3. /\ answer.status = 200 =>
              /\ answer.textKey => u \in bucket'
              /\ answer.indexed => index'[u] = ToSet(Chunks(r.text))
        /\ bucket \subseteq bucket' /\ (r.at \in {"embed", "bulk"} /\ r.key => u \in bucket')
    BY <1>4, <2>1
  <2> QED BY <1>1, <1>4, <2>1, <2>2, <2>3, AnswerMoves
<1>5. ASSUME NEW indexed \in BOOLEAN, Done(u, indexed),
             uploads[u].at \in {"embed", "bulk"},
             UNCHANGED <<bucket, outdated, wiped>>,
             DOMAIN index' = Uploaded, \A v \in Uploaded : v # u => index'[v] = index[v],
             indexed => index'[u] = ToSet(Chunks(uploads[u].text))
      PROVE  AnswerInv'
  <2> DEFINE answer == [status |-> 200, textKey |-> uploads[u].key, indexed |-> indexed]
  <2>1. uploads[u].key \in BOOLEAN
    BY <1>1 DEF Begun
  <2>2. answer \in UploadAnswer
    BY <2>1 DEF UploadAnswer
  <2>3. Replies(u, answer)
    BY <1>5 DEF Done
  <2>4. answer.textKey => u \in bucket
    BY <1>5 DEF AnswerInv
  <2>5. answer.indexed => index'[u] = ToSet(Chunks(uploads[u].text))
    BY <1>5
  <2> HIDE DEF answer
  <2> QED BY <1>4, <1>5, <2>2, <2>3, <2>4, <2>5
<1>6. ASSUME NEW status \in {400, 401}, Refuses(u, status) PROVE AnswerInv'
  <2> DEFINE answer == [status |-> status]
  <2>1. answer \in UploadAnswer /\ answer.status # 200
    BY DEF UploadAnswer
  <2>2. Replies(u, answer) /\ UNCHANGED storage
    BY <1>6 DEF Refuses
  <2> HIDE DEF answer
  <2>3. UNCHANGED <<bucket, outdated, wiped, index>> /\ DOMAIN index' = Uploaded
    BY <2>2 DEF storage, AnswerInv
  <2> QED BY <1>4, <2>1, <2>2, <2>3
<1>7. CASE Upload(u)
  BY <1>3, <1>6, <1>7 DEF Upload
<1>8. CASE StoreInS3(u)
  BY <1>3, <1>8 DEF StoreInS3, Goes
<1>9. CASE StoreTextInS3(u)
  <2>1. PICK key \in BOOLEAN :
          /\ bucket' \in IF key THEN {bucket \cup {u}} ELSE {bucket, bucket \cup {u}}
          /\ uploads' = [uploads EXCEPT ![u].at = "embed", ![u].key = key]
    BY <1>9 DEF StoreTextInS3
  <2> DEFINE r == [uploads[u] EXCEPT !.at = "embed", !.key = key]
  <2>2. r \in Begun /\ r.at = "embed" /\ (r.key <=> key)
    BY <1>1 DEF Begun
  <2>3. uploads' = [uploads EXCEPT ![u] = r]
    BY <2>1 DEF LoopInv
  <2> HIDE DEF r
  <2>4. (key => u \in bucket') /\ bucket \subseteq bucket'
    BY <2>1
  <2>5. /\ UNCHANGED <<outdated, wiped, told, index>> /\ DOMAIN index' = Uploaded
    BY <1>9 DEF StoreTextInS3, AnswerInv
  <2> QED BY <1>1, <2>2, <2>3, <2>4, <2>5, AnswerMoves
<1>10. CASE EmbedChunks(u)
  <2>1. uploads[u].at = "embed" /\ UNCHANGED <<bucket, outdated, wiped, index>>
        /\ DOMAIN index' = Uploaded
    BY <1>10 DEF EmbedChunks, storage, AnswerInv
  <2>2. CASE Goes(u, "bulk")
    BY <1>3, <1>10, <2>1, <2>2 DEF EmbedChunks, Goes
  <2>3. CASE Done(u, FALSE)
    BY <1>5, <2>1, <2>3
  <2> QED BY <1>10, <2>2, <2>3 DEF EmbedChunks
<1>11. CASE IndexInOpenSearch(u)
  <2> DEFINE all == ToSet(Chunks(uploads[u].text))
  <2>1. PICK some \in SUBSET all :
          /\ index' = [index EXCEPT ![u] = some]
          /\ (some = all /\ Done(u, TRUE)) \/ Done(u, FALSE)
    BY <1>11 DEF IndexInOpenSearch
  <2>2. /\ uploads[u].at = "bulk" /\ UNCHANGED <<bucket, outdated, wiped>>
        /\ DOMAIN index' = Uploaded /\ index'[u] = some
        /\ \A v \in Uploaded : v # u => index'[v] = index[v]
    BY <1>11, <2>1 DEF IndexInOpenSearch, AnswerInv
  <2>3. CASE some = all /\ Done(u, TRUE)
    <3> HIDE DEF all
    <3>1. index'[u] = all
      BY <2>2, <2>3
    <3> QED BY <1>5, <2>2, <2>3, <3>1 DEF all
  <2>4. CASE Done(u, FALSE)
    BY <1>5, <2>2, <2>4
  <2> QED BY <2>1, <2>3, <2>4
<1> QED BY <1>7, <1>8, <1>9, <1>10, <1>11 DEF Ingest

LEMMA AnswerSent ==
    ASSUME LoopInv, AnswerInv, NEW u \in Uploaded, NEW t \in Tasks, NEW text \in Texts,
           SendUpload(u, t, text, SignedIn)
    PROVE  AnswerInv'
<1> DEFINE r == [at |-> "sent", task |-> t, text |-> text, session |-> SignedIn,
                 key |-> FALSE]
<1>1. /\ uploads[u].at = "none" /\ uploads' = [uploads EXCEPT ![u] = r]
      /\ UNCHANGED <<told, bucket, index, outdated, wiped>> /\ r.at = "sent"
  BY DEF SendUpload, storage
<1>2. told[u] = NoAnswer /\ NoAnswer.status # 200
  BY <1>1 DEF AnswerInv, NoAnswer
<1> HIDE DEF r
<1>3. \A v \in Uploaded : v # u => uploads'[v] = uploads[v]
  BY <1>1 DEF LoopInv
<1>4. uploads'[u] = r
  BY <1>1 DEF LoopInv
<1> QED BY <1>1, <1>2, <1>3, <1>4 DEF AnswerInv

LEMMA AnswerLost ==
    ASSUME LoopInv, AnswerInv, NEW t \in Tasks, LoseUploads(t) PROVE AnswerInv'
<1>1. UNCHANGED <<told, bucket, index, outdated, wiped>>
  BY DEF LoseUploads, storage
<1>2. ASSUME NEW u \in Uploaded
      PROVE  /\ uploads'[u].at \in {uploads[u].at, "lost"}
             /\ uploads'[u].at # "lost" \/ uploads[u].at = "answered" =>
                   uploads'[u] = uploads[u]
             /\ uploads'[u].at = "lost" => uploads[u].at # "answered"
  <2>1. CASE uploads[u].at \notin {"none", "answered", "lost"} /\ uploads[u].task = t
    <3>1. uploads'[u] = [uploads[u] EXCEPT !.at = "lost"]
      BY <2>1 DEF LoseUploads
    <3>2. uploads[u] \in Begun
      BY <2>1 DEF LoopInv, NotYet
    <3> QED BY <2>1, <3>1, <3>2 DEF Begun
  <2>2. CASE ~(uploads[u].at \notin {"none", "answered", "lost"} /\ uploads[u].task = t)
    <3>1. uploads'[u] = uploads[u]
      BY <2>2 DEF LoseUploads
    <3> QED BY <3>1
  <2> QED BY <2>1, <2>2
<1>3. NoAnswer.status # 200
  BY DEF NoAnswer
<1> QED BY <1>1, <1>2, <1>3 DEF AnswerInv

LEMMA AnswerStored ==
    ASSUME LoopInv, AnswerInv, Storage PROVE AnswerInv'
<1>1. ASSUME NEW u \in Uploaded, Expire(u) PROVE AnswerInv'
  BY <1>1 DEF Expire, AnswerInv
<1>2. CASE DropIndex
  <2>1. /\ index' = [u \in Uploaded |-> {}] /\ UNCHANGED <<uploads, told, bucket, outdated>>
        /\ \A u \in Uploaded : u \notin wiped' => index'[u] = index[u] /\ u \notin wiped
    BY <1>2 DEF DropIndex
  <2> QED BY <2>1 DEF AnswerInv
<1>3. CASE CreateIndex
  BY <1>3 DEF CreateIndex, AnswerInv
<1> QED BY <1>1, <1>2, <1>3 DEF Storage

LEMMA AnswerSame ==
    ASSUME AnswerInv, UNCHANGED uploadVars PROVE AnswerInv'
BY DEF AnswerInv, uploadVars, storage

LEMMA AnswerNext == ASSUME LoopInv, AnswerInv, [Next]_vars PROVE AnswerInv'
<1>1. ASSUME NEW b \in Tabs, NEW t \in Tasks, Browse(b, t) PROVE AnswerInv'
  BY <1>1, AnswerSame DEF Browse
<1>2. ASSUME NEW b \in Tabs, NEW t \in Tasks, NEW text \in Texts, Pick(b, t, text)
      PROVE  AnswerInv'
  BY <1>2, AnswerSent DEF Pick
<1>3. ASSUME NEW t \in Tasks, Others(t) PROVE AnswerInv'
  BY <1>3, AnswerSame DEF Others
<1>4. ASSUME NEW t \in Tasks, Replace(t) PROVE AnswerInv'
  BY <1>4, AnswerLost DEF Replace
<1>5. ASSUME NEW b \in Tabs, Respond(b) \/ Arrive(b) PROVE AnswerInv'
  BY <1>5, AnswerSame DEF Respond, Arrive
<1>6. ASSUME NEW u \in Uploaded, Process(u) PROVE AnswerInv'
  BY <1>6, AnswerIngest DEF Process
<1>7. CASE Storage
  BY <1>7, AnswerStored
<1>8. CASE Pass \/ UNCHANGED vars
  BY <1>8, AnswerSame DEF Pass, vars
<1> QED BY <1>1, <1>2, <1>3, <1>4, <1>5, <1>6, <1>7, <1>8 DEF Next

-----------------------------------------------------------------------------
(***************************************************************************)
(* The invariant, and what follows                                         *)
(***************************************************************************)

LEMMA CountNext == ASSUME CountInv, [Next]_vars PROVE CountInv'
<1>1. CASE UNCHANGED bounds
  BY <1>1 DEF CountInv, bounds
<1>2. CASE Asks \/ Faulty
  BY <1>2, ApiAssumption DEF CountInv, Asks, Faulty
<1> QED BY <1>1, <1>2 DEF Next, Browse, Pick, Others, Replace, Respond, Arrive,
          Process, Storage, Pass, vars

LEMMA Initial == ASSUME Init PROVE IInv
<1> USE DEF Init, LoginInit, UploadInit
<1>1. LimitInv
  <2>1. IsFiniteSet({})
    BY FS_EmptySet
  <2>2. LimitIsExact
    BY DEF LimitIsExact
  <2> QED BY <2>1, <2>2 DEF LimitInv
<1>2. FormInv
  <2>1. NoRequest \notin Flight /\ NoRequest \notin Answered
    BY DEF NoRequest, Flight, Answered
  <2> QED BY <2>1, LoginAssumption DEF FormInv
<1>3. LoopInv
  BY DEF LoopInv
<1>4. AnswerInv
  BY DEF AnswerInv, UploadAnswer, NotYet, NoAnswer
<1>5. CountInv
  BY ApiAssumption DEF CountInv
<1> QED BY <1>1, <1>2, <1>3, <1>4, <1>5 DEF IInv

THEOREM Inductive == Spec => []IInv
<1>1. Init => IInv
  BY Initial
<1>2. IInv /\ [Next]_vars => IInv'
  BY LimitNext, FormNext, LoopNext, AnswerNext, CountNext DEF IInv
<1> QED BY <1>1, <1>2, PTL DEF Spec

(* Every variable keeps its type: a form shown has a token, and an upload   *)
(* that holds the event loop of a task is one of that task.                 *)
THEOREM TypeCorrect == Spec => []TypeOK
<1>1. IInv => TypeOK
  BY DEF IInv, LimitInv, FormInv, LoopInv, CountInv, TypeOK
<1> QED BY <1>1, Inductive, PTL

(* _check_login_rate_limit lets no more than MaxAttempts through in any     *)
(* window, and refuses only when that many went through in one.             *)
THEOREM LimitHolds == Spec => []LimitIsExact
<1>1. IInv => LimitIsExact
  BY DEF IInv, LimitInv
<1> QED BY <1>1, Inductive, PTL

(* The latest form of the browser is never answered "Your session expired", *)
(* whatever its other tabs do, as long as its cookie lasts and no login is  *)
(* completed.                                                               *)
THEOREM FormsServe == Spec => []FreshFormServes
<1>1. IInv => FreshFormServes
  <2> SUFFICES ASSUME IInv, NEW b \in Tabs, req[b].at = "answered",
                      req[b].answer.status = 403
               PROVE  ~req[b].fresh
    BY DEF FreshFormServes
  <2>1. req[b] \in Answered
    <3>1. req[b] \in {NoRequest} \cup Flight \cup Answered
      BY DEF IInv, FormInv
    <3> QED BY <3>1 DEF Flight, NoRequest
  <2> QED BY <2>1 DEF IInv, FormInv
<1> QED BY <1>1, Inductive, PTL

(* Whatever tasks end and whatever is seeded anew: an upload answered with  *)
(* a textKey has its text in the bucket until it expires, and one that is   *)
(* said to be indexed has, as long as the index is the one that was         *)
(* written, each of its paragraphs in exactly one chunk, and only a chunk   *)
(* of a single paragraph is over the limit of _chunk_text.                  *)
THEOREM AnswersTrue == Spec => []AnswerIsTrue
<1>1. ASSUME IInv PROVE AnswerIsTrue
  <2> SUFFICES ASSUME NEW u \in Uploaded, told[u].status = 200
               PROVE  /\ told[u].textKey => u \in bucket \cup outdated
                      /\ told[u].indexed /\ u \notin wiped /\ mapping = "mapped" =>
                            FindsAll(uploads[u].text, index[u])
    BY DEF AnswerIsTrue
  <2>1. /\ told[u].textKey => u \in bucket \cup outdated
        /\ told[u].indexed /\ u \notin wiped =>
              index[u] = ToSet(Chunks(uploads[u].text))
    BY <1>1 DEF IInv, AnswerInv
  <2>2. uploads[u].at = "answered"
    <3>1. NoAnswer.status # 200
      BY DEF NoAnswer
    <3> QED BY <1>1, <3>1 DEF IInv, AnswerInv
  <2>3. uploads[u] \in Begun
    BY <1>1, <2>2 DEF IInv, LoopInv, NotYet
  <2>4. uploads[u].text \in Seq(Nat)
    BY <2>3, UploadsAssumption DEF Begun
  <2> QED BY <2>1, <2>4, ChunksFindAll
<1> QED BY <1>1, Inductive, PTL
=============================================================================
