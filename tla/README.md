# TLA+ models of the private AI agent sample

The repository deploys a legal-contract assistant: a browser page talks over one
WebSocket to a proxy container, the proxy invokes an agent on AgentCore Runtime,
the agent searches a vector collection (OpenSearch Serverless NextGen) that scales
to zero, and a CDK application with a Lambda custom resource provisions it all.
This directory holds the TLA+ modules that model its behaviour, the TLC instances
that check them and the TLAPS proofs about them. Paths below are relative to
`src/cdk/` of the repository unless they start with `src/`.

    tlc -workers 2 -config WsProxySafety.cfg MCWsProxy     # a model check
    tlapm WsProxyProofs.tla                                # a proof

`PROJECT.json` is the index: components, runs, mutants, the map from definitions
to source lines, findings, hazards and theorems.

## 1. The system

| Component | State it keeps | Operations | Talks to |
|---|---|---|---|
| **WebSocket endpoint** (`container/proxy/app.py` 538-836) | per connection: `authed`, `active`, `closed`, `_send_lock`, the keepalive task | accept and authenticate, receive and handle a message (ping, pong, auth, query, audit), run a query, ping, close | page (frames), bridge (queue), token verification, S3 for an audit's text |
| **Agent bridge** (`container/proxy/agentcore_client.py`) | per query: a daemon thread, an `asyncio.Queue`, a deadline of 150 s | invoke the agent, read its SSE stream, put tokens / an exception / the end marker on the queue; take them with a deadline | AgentCore Runtime, endpoint |
| **Token verification** (`container/proxy/auth.py`) | `_JWKS_CACHE`, `_JWKS_FETCHED_AT`: two module globals shared by worker threads | `verify_token` (with `_fetch_jwks`), `initiate_auth` | Cognito (JWKS, InitiateAuth) |
| **Login** (`app.py` 108-125, 154-186, 270-372, `auth.py` 63-103) | `_login_attempts` per address and task, the CSRF cookie, the session cookie | login page, POST login, logout | browser, Cognito, verification |
| **HTTP API** (`app.py` 134-138, 375-456) | none | health, config, index page, `/invocations` (buffered query, 60 s) | bridge, login |
| **Uploads** (`app.py` 466-525, `documents.py`) | objects in S3, chunks in the index | store the file, extract and store its text, chunk, embed and index it; fetch a text for an audit | S3, Bedrock, OpenSearch |
| **Page** (`container/proxy/static/index.html`) | globals `ws`, `awaiting`, `pendingSend`, `currentAgentBubble`, `currentIsAudit`, `auditStatusNode`, the open timer | submit a question, start an audit, reconnect, handle frames and the events of a socket, upload | endpoint, uploads, login |
| **Agent entrypoint** (`container/agent/agent_core.py`, `agent_runtime.py`) | per runtime: the agent object | run a turn, stream its deltas | language model, retriever |
| **Retriever** (`container/agent/retriever.py`) | none between calls but the clients | embed, search, wait out a cold start, run a callback once if the caller passed one | Bedrock, OpenSearch |
| **Provisioner** (`seed/provisioner_handler.py`) | the collection, its group and policies, the index and the seed documents, the SOP files | Create, Update and Delete of the custom resource | AOSS control and data plane, S3, CloudFormation |
| **Configuration** (`lib/config.ts`) | none | resolve the CDK context, or refuse it | stacks |
| **Image builds** (`lib/construct/image-build-construct.ts`, `lib/build-stack.ts`) | a repository, a project and a trigger per image; the builds | start, poll, give up | CodeBuild, ECR, CloudFormation |
| **CDK stacks** (`bin/app.ts`, `lib/*-stack.ts`, `lib/construct/`) | six stacks with their resources, the running tasks, the demo user | deploy, update, roll back, remove | CloudFormation, ECS, Cognito |
| **Scripts** (`scripts/`) | none | deploy, destroy, sweep what was retained | CDK, AWS |

How they interact. The page and the endpoint share one socket per page load.
The endpoint handles one message to its end before it receives the next; next to
it on the same event loop runs its keepalive, which writes to the same socket.
Each query has a thread of its own that feeds the endpoint through a queue and that
nobody joins. Verifications run on threads (`asyncio.to_thread`) over two globals
without a lock. Only `complete` carries a query id, so page and proxy agree on
which answer a token belongs to by position alone. Uploads and the provisioner
write the index the retriever searches. Login and upload are handlers on the
same event loops: the first awaits worker threads, the second blocks. The stacks
decide what all of the above run on, what they may call, and through which
endpoint.

### What is hard here, and what makes each part correct

* **Endpoint and bridge.** Two tasks write one socket; a thread races a deadline;
  the client may leave in the middle of a write; the agent may fail or hang. Correct
  means: answers are never interleaved with each other or with a ping; every query
  gets at most one last frame, and it tells the truth; nothing happens before
  authentication; every query and every handler ends; a thread left behind
  has been cut off on purpose.
* **Token verification.** Check, fetch, bind, stamp, read back and look up are
  separate steps of several threads; a miss clears a dict *in place* that others may
  hold. Correct means: a key just rotated in is found, a key withdrawn dies in
  bounded time, every call ends.
* **Page.** Seven globals, handlers in any order, close events of a socket
  that has already been replaced. Correct means: no question is sent twice, a bubble
  shows its own answer, no wait is shown for ever.
* **Retriever.** Deadline, backoff, read timeout and warm-up are four independent
  times. Correct means: a bounded wait, an honest `RetrievalTimeout`, one notice of a
  cold start to the user (which the deployed agent does not give).
* **Uploads.** Three best-effort steps whose failure may follow their effect, run
  synchronously on the event loop of a task that may be replaced in the middle; an
  index that is deleted and made again by another actor. Correct means: a text key only
  for a text that can be fetched from any task; `indexed` only if each paragraph can be found
  in one chunk.
* **Login.** A sliding window in the memory of a task, which does not count refused attempts
  and which users behind one address share; a CSRF cookie shared by tabs. Correct
  means: no more than the limit in a window and no lock-out beyond it, no lock-out by
  another tab.
* **Provisioner.** Requests may be repeated after a time-out in the middle; errors
  of single steps are swallowed; a re-seed deletes the index others use. Correct
  means: a Create that succeeds leaves a collection one may reach, every step is
  repeatable, a Delete answers always.
* **Deployments.** Six stacks that only `addDependency` and their imports keep in order, made,
  changed, restored and removed by an engine that works in any order the templates allow;
  two builds that may fail, hang, or end after their operation has been rolled back; a
  rolling update with a circuit breaker inside an update of a stack that may be rolled
  back itself; a user who is made in two calls. A setting may be given in three ways
  and reaches up to three constructs. Correct means: whatever exists stands on what it
  needs, an image that is named can be pulled, a command that says it deployed has
  deployed what was asked, the site stays served, and a command ends.

Each of these is a line-by-line entry under "hazards" in `PROJECT.json`, with the
property that covers it or the reason why none does.

## 2. The modules

| Module | Models | State and actions |
|---|---|---|
| `Frames` | the frames of the wire protocol | kind, the query a frame answers (history: the code sends it in `complete` only), `seq` / `tokenCount`, which delta a token carries |
| `StreamProtocol` | **abstract**: what the proxy promises to the reader of one socket | one variable, the frames written; welcome first; status, tokens 0, 1, 2, ..., one last frame; nothing in between; no query twice |
| `WsProxy` | endpoint, bridge threads, keepalive and client of one connection | see below |
| `WsProxyInv` | the inductive invariant of `WsProxy` | |
| `WsProxyProofs` | the theorems about `WsProxy` | |
| `StreamProtocolProofs` | what the promise implies for its readers | |
| `JwksCache` | `_fetch_jwks` and `verify_token` on several threads, a pool that rotates its key | one action per access to a global: check, fetch, bind, stamp, read back, look up, clear |
| `JwksCacheProofs` | its inductive invariant and the theorems | |
| `Retriever` | one retrieval, in seconds | start, search (found, failed or cold, any duration), sleep, give up |
| `RetrieverProofs` | the theorems about `Retriever` | |
| `SpaClient` | the page, its sockets and the proxy behind them | one action per handler of the page; the proxy answers in the order `WsProxy` keeps |
| `SpaClientProofs` | its inductive invariant and the theorems | |
| `Provisioner` | the Lambda of the custom resource, CloudFormation, the control plane and the uploads around it | one action per thing the handler makes or deletes; see below |
| `ProvisionerProofs` | the theorems about `Provisioner` | |
| `Login` | login form, POST, limiter, CSRF and session cookies, the tabs of a browser | one action per request sent, answer received and part of a handler between two awaits |
| `Uploads` | `/api/upload`, the bucket, the index, their lifecycle and re-seeding | one action per best-effort step; `Chunks` is the loop of `_chunk_text` as a recursive function |
| `HttpApi` | **composes** `Login` and `Uploads` on the tasks of the proxy, which may be replaced | an upload holds the event loop of its task |
| `HttpApiInv`, `HttpApiProofs` | its inductive invariant and the theorems | |
| `Config` | `resolveConfig`: the context of the CDK, with JavaScript's distinctions, to the settings or an error | operators |
| `Stacks` | what the constructs ask for: resources, their stack, references, and the settings each is written from | operators, extends `Config` |
| `Access` | who reaches what: web ACL, behaviours, VPC origin, listener and ingress; endpoints and grants of the three roles | operators, extends `Stacks` |
| `Deployment` | commands, stacks, builds, the rolling service and the demo user over time | see below |
| `ImageContract` | **abstract**: what the image repositories promise to whatever runs containers | the images there, the images named |
| `DeploymentInv`, `DeploymentProofs` | its two inductive invariants and the theorems | |
| `MCWsProxy`, `MCJwksCache`, `MCRetriever`, `MCSpaClient`, `MCProvisioner`, `MCHttpApi`, `MCDeployment` | instances for TLC | |

**WsProxy.** `pc` is where the endpoint task is: `accept`, `recv` (in
`receive_text`), `send` (in `send_json`, waiting for the lock or writing the frame
`out`), `poll` and `wait` (at the top of the loop of `stream_tokens`, in
`queue.get`), `ended`, `rejected`. `lock` is `_send_lock` with its FIFO
waiters; `ka` is the keepalive; `worker[q]`, `produced[q]` and `queue[q]` are the
thread of query q, what it has read from the agent, and its queue. What a coroutine does
between two awaits is one step, because nothing else runs on the event loop
meanwhile. Threads are not so bound: their puts interleave with everything. A frame
is written in the step that releases the lock; a write after the client has gone
is lost in a buffer or raises, and once one has raised the framework refuses
the socket (`wsOpen`). Awaits during which the connection is idle
to all others (`verify_token`, `fetch_text_from_s3`) belong to the step that
receives the message; verifications themselves are the subject of `JwksCache`.
The thread of the model may produce, raise, end or stand still for ever, which is what
the deployed entrypoint, without a time limit of its own, may do. The cancellation of the
keepalive in the `finally` block is one step with the end of the handler, and the
invariant `LockInv` is why that is sound: nobody else is at the lock then.

**JwksCache.** The dicts are objects: binding the global to a new dict and clearing
a dict in place are different things to a thread that holds one, and that
difference is the finding `jwks_miss`. A thread's own steps take no time against
a clock that counts minutes; only a fetch does, at most `FetchMax` (the
`timeout=10` of `urlopen`).

**Retriever.** `clock` counts from the moment the deadline is set. A search takes
any time up to the client's timeout and may come back cold from a collection that is
up (`_is_cold_start_signal` takes any connection error, timeout or 503 for one):
the history variable `spurious` marks those. `caller` is who calls: a direct caller with a
callback for cold starts, as the tests are, or the tool of the deployed agent, which hands on a
context variable that nothing sets (`CallbackSet`).

**SpaClient.** The browser's rules are modelled as they are used: no message event from
a socket that is not open, one close event per socket, possibly after its
replacement. The proxy part is external to the page and takes from `WsProxy` the
order of its frames and the fact that a message taken is answered. The
history variables `impatient`, `late` and `cut` name the three situations in which
the code does put an answer into the wrong bubble; outside of them it never does.

**Provisioner.** `pc` names the step `handler` is at; a step that fails may have
taken effect all the same (its answer was lost). `generation`, `group`,
`encryption`, `network`, `access` and `collection` are what AOSS holds; the two policies
that carry data of the request (the endpoint id, the principals) are numbers of
its revision. `index` tells an index with the vector mapping from one that an upload
brought up by writing to none. `clock` counts half minutes since the Lambda
started; an answer after `Limit` is no answer (`late`), and the request is
then given up or delivered again to whatever the killed attempt left (`Killed`). The
history variables `fault`, `expired` and `swallowed` say whether the current attempt
met a failed call, a wait that ran out, or a failed update of a policy,
which the code passes over. That a bulk request is sent once is taken of the client library; what
the library itself resends is outside the repository.

**Login, Uploads, HttpApi.** A request of a tab carries the cookies that the browser
held when it left (`Sends`), its answer sets cookies and shows a page when it arrives
(`Receive`), and in between other tabs do the same. `req[b]` is where the handler of
the tab's request is: before its first step, in `initiate_auth`, in `verify_token`, or
answered. `attempts[t]` is the list `_login_attempts` holds in task t for the address of the
load balancer, which is what `request.client.host` is there: uvicorn is started without
trusted forwarding addresses, so that all users share it (`OthersTry`). `passed`, `blocked`
and `tries` are history. `_session_token` may refuse any session, for reasons that are
`JwksCache`'s subject. An upload holds `loop[t]` from the extraction of its text to its
answer, because no `await` is in between; meanwhile no other handler of the task steps, and
neither does its health check, so that the task may be replaced (`Replace`), which forgets its
attempts and loses its requests. A text is the sequence of the lengths of its paragraphs,
a chunk the sequence of the positions it holds. An index written to when there is none comes
into being without its vector mapping (`dynamic`). Copies that the OpenSearch
client makes by sending a bulk request again are not told apart.

**Config, Stacks, Access.** A context value is a record that says what JavaScript finds
(`undefined`, a number, a numeral, a blank string, ...), and `Resolved` gives what
`resolveConfig` returns, `Accepts` when it throws. `Stacks` lists 32 resources with the
template references between them (`Needs`), the imports between stacks, and for each
resource the settings and sources it is written from (`Differs` tells whether an update changes
it). `Access` reads the settings the same constructs write: which behaviour a path takes,
whether the web ACL blocks it, whether origin, listener and ingress agree on protocol
and port, which calls each role may make and whether an endpoint carries them.

**Deployment.** `cli` is the command that runs, `stack[s]` the phase of a stack with
the request it is being brought to and the one it was at, `made[r]` the request a
resource was last written from, `dirty` the resources whose change was begun. `repo`,
`run` and `late` are the images, the build each trigger waits for and the builds that
nobody waits for any more; `roll` and `tasks` the rolling update; `user` the demo user.
`Deploy`, `Destroy` and `Interrupt` are what a person does; `SkipStack`, `TakeStack`, `GoOn`
and `Done` the CDK toolkit; `Put`, `Drop`, `Fail` and the restoring phases CloudFormation, in any
order that the references allow; `StartBuild`, `PollBuild` and `BuildFailed` the trigger's
two handlers, with `ProviderTimeout` after the provider's forty minutes and `LateBuild` for the
build that goes on; `RollStart`, `TaskUp`, `TaskDown`, `RollDone` and `CircuitBreak`
the service; `CreateUser` and `SetPassword` the custom resource of the user.
What CloudFormation, CodeBuild, ECR and ECS do is external and modelled from how the
constructs use it.

## 3. The runs

| Run | Question | Bounds, and why they are enough | Result |
|---|---|---|---|
| `ws_safety` | Does a connection keep the wire protocol, whatever interleaves? | two messages of any of nine kinds, two tokens, one ping, the deployed settings with each cookie and local mock mode. Two queries are what it takes for one to run into the next (an orphaned thread beside a live query); two tokens for an order among tokens; one ping to race a status frame. Beyond that the theorems take over | 1.1 million states, holds |
| `ws_live` | Does every query, message and handler come to an end? | two messages, one token, one ping, logged in: an agent that hangs in the first query with a second message waiting | holds |
| `jwks` | What do unlocked globals cost? | two threads, one rotation, a clock of 3 with a lifetime of 2 and fetches of up to 1: enough for two fetches to end together on either side of the rotation and for the cache to expire afterwards. With a bound of the lifetime alone `RetiredKeysDie` is violated once a third call may use what two fetches left behind, which is why the property adds the length of a fetch | holds |
| `jwks_miss` | Is a token of a published key ever refused? | three threads, because a call has two tries and each has to be spoilt by another; time stands still | **violated** |
| `retriever` | Is the wait bounded and the answer honest? | the code's own 60 s ceiling and 1 to 5 s backoff, the default read timeout of 30 s, every warm-up from 0 to 95 s, which is past anything a retrieval can see | holds |
| `retriever_told` | Is the user of the deployed agent told of a cold start, as a comment says? | the same times, called by the tool | **violated** |
| `spa` | Does the page keep answers apart? | three turns, three sockets, one token: a queued turn, the one that overtakes it and the one after; a socket, its replacement, and a close event of the first | holds |
| `spa_audit` | Is an audit's status node resolved, as a comment says? | two turns on one socket | **violated** |
| `http` | Are the limit, the forms and the answers of uploads right with several tabs, users, uploads and tasks? | two tabs and two tasks for every race of two; a limit of 2 among four requests of the browser and of others, so that it is reached, refused at and left behind by the window of 2; a clock of 3, beyond window, cookies and sessions; two uploads, of a text whose first paragraph is over the chunk limit of 10, whose next two would only fit without their separator and whose last two just do, or of no text; one fault: a task replaced or the index seeded anew. Tasks and tabs are symmetric | 1.96 million states, holds |
| `provisioner` | Is the provisioner repeatable, and does it tell CloudFormation the truth? | the code's own waits and limit in half minutes; a step takes nothing or the worst its client allows; three requests (a Create, one that finds what it left, one more), each delivered again once; two documents, so that a bulk request may take one of them; two revisions, so that a policy may be stale | 2.3 million states, holds |
| `deployment` | What may stacks, images, service and user look like during and after commands? | two commands, each one of four requests (the context of `cdk.json`; a release over it, with five tasks where there were two; another processor; one that is refused) or a removal of all or all but the network; one failure or interruption anywhere; builds that end, fail, hang or end late. Two commands are an update, a restoration, a removal and a second creation; one fault is a rollback. The safety properties also hold with three commands and one fault (1.9 million states) and with two and two (0.5 million) | 165 663 states, holds |
| `image_platform` | Is the proxy's image built for the processor it runs on, as comments say? | two commands without faults: a deployment, and one that changes the processor | **violated** |

What the properties say:

* `KeepsPromise` — the proxy implements `StreamProtocol`: the variable `wire` of
  `WsProxy` is the variable of the abstract specification, and every step either is one of
  its actions or leaves the frames alone. This is what the send lock, the look at
  `active` before the keepalive queues for it, the queue per query and the
  one-message-at-a-time loop are for.
* `AuthBeforeAnything` — no frame and no invocation for a handshake without a session.
* `AnswersAreHonest` — `complete` means that the thread ended by itself and
  that all it produced was written; `inference_failed` means that it raised.
* `OrphansOnlyAfterCut` — a thread outlives its query only after a timeout frame or
  the loss of the client, so two runs in one AgentCore session overlap only then.
* `QueryEnds`, `HandlerEnds`, `MessagesAreTaken` — termination.
* `IInv` — the invariant the proofs start from, checked before it was proved; those of the
  other modules were checked the same way on the instances of their runs.
* `RefreshFindsKey` — a call left alone by the others rejects a token for
  want of a key only if the key was not published. `RetiredKeysDie` — a withdrawn
  key is accepted for less than the lifetime and one fetch. `CallsEnd` — even when
  others keep clearing the cache: at most two tries.
* `WaitBounded` — the ceiling and one search. `WarmIsFound` — `RetrievalTimeout` only after the
  whole ceiling and not for a collection that was up one search before it.
  `ToldOnce` — a caller with a callback is told once, and only of a cold start that was met;
  the tool of the deployed agent has no callback and tells nobody. `RetrievalEnds`.
* `SentOnce` — reconnecting never repeats a question. `OwnAnswer` — outside the three named
  situations a bubble shows its own answer, and all of it when it says
  complete. `WaitEnds` — every wait with a bubble ends, and one without a bubble (a
  question sent late) ends with its answer or is left over when its socket is lost, which the
  code does nothing about.
* `LimitIsExact` — of the attempts that a task let through, none is one too many in a
  window, and whenever one is refused that many had passed within one: refusals do not prolong
  a lock-out. `FreshFormServes` — "Your session expired" never answers the
  browser's latest form while its cookie lasts, so a form that came with an error serves
  for the retry and tabs lock each other out only by loading a form later. `AnswerIsTrue` — after
  an upload, a text key is that of a text in the bucket until it expires, and
  `indexed` means that every paragraph is in exactly one chunk in the index and no chunk of
  several is over the limit, as long as the mapped index it was written to is the one there.
* `ImagesKept` — `Deployment` implements `ImageContract`: an image is pushed before a
  runtime or task definition names it, and wiped only when none does. `StandsOnItsNeeds` —
  also in the middle of an update, a rollback and a removal. `AsRequested` — a command
  that says "deployed" is right, down to flat keys of the command line that win over
  `cdk.json`. `PathWhole` — once all stacks agree on a request, a browser's session gets
  through to the proxy, and every call of proxy, agent and provisioner has an endpoint and a
  grant (the provisioner's for an embeddings model without a region prefix, see below).
  `ServedThroughout` — half of the smaller of two numbers of tasks answers, the one the stack asks
  for and the one it asked for before. `DemoUserReady` — the
  password is final before the stack is complete. `CommandEnds`.
* `SuccessIsUsable` — a Create or Update that answers with success leaves an active
  collection with its group and its policies, and these are of this request
  unless an update was passed over. `SeedsOnce` — no document twice, and
  `Seeded = "true"` only of a mapped index with all of them. `DeleteAnswers`,
  `CleanDelete` — a Delete always answers in time, and leaves nothing if nothing went wrong.
  `FailsForAReason` — a request never fails for what an earlier one left behind.

### Fairness

* `WsProxy`: the event loop runs a task that is ready (`WF` of the endpoint and of the
  keepalive at the lock), a write ends one way or the other, and time passes
  (`WF(Expire)`). Nothing is assumed of the client or the agent. A client that stays
  connected and stops reading for ever would hold a write back; the code has no
  limit for that, and the model assumes that TCP or the load balancer ends it.
* `JwksCache`: a thread that can run does, and a fetch is answered or fails by its timeout.
* `Retriever`: the thread runs; a search ends by the client's timeout.
* `Provisioner` needs none: that a Delete ends in time is a statement about its clock.
* `HttpApi` needs none: all of its properties are safety properties.
* `Deployment`: the engine takes a step when it can (`WF` of what CloudFormation, the
  trigger's provider, ECS and the toolkit do). Commands, faults and the end of builds are
  not fair: a build that hangs is ended by the provider's timeout, tasks that do
  not come up by the circuit breaker.
* `SpaClient`: the browser delivers events, an attempt to connect ends (the page's
  own timer sees to that), a closing handshake ends (`Settles`), and the proxy answers what it has
  taken, which is `QueryEnds`. Nothing is assumed of the user, nor of the network once the socket
  is open: it may stay open for ever, so no wait of `WaitEnds` is ended by a close that nobody owes.

### Findings

1. `retriever_told` — `retriever.py:65-71` and 199-201 say that the handler sets a callback through which
   the user is told of a cold start within a second. The deployed entrypoint (`agent_core.py:60-92`) sets
   none, nor does anything else, and a callback that is `None` is passed over (286-287): the user is told
   nothing for up to 90 s.
2. `jwks_miss` — `auth.py:158` clears in place a dict another thread may hold. Two tokens of
   unknown keys can make a valid token fail, at both of its tries.
3. `spa_audit` — `index.html:762`: a question asked while an audit streams makes the page forget
   the audit's status node, which says "Auditing" for ever.
4. `image_platform` — `image-build-construct.ts:190`: the trigger depends on the hash of the source
   directory only, so an update that changes `cpuArchitecture` alone builds nothing,
   although `build-stack.ts:9` says that the proxy image matches the configured architecture.
   The new tasks then never start.

Seen while modelling, without a run:

* `app.py:787-789` says that welcome is sent first regardless of the cookie and that authentication is
  enforced per message; the code closes with 4001 before any frame (801-803), which is what
  `AuthBeforeAnything` states and `Authenticated` proves. The `auth` frame can therefore never
  authenticate anyone.
* `retriever.py:379-381` says that the retry loop bounds the wait at the ceiling; it is the ceiling and
  one search, which is what `WaitBounded` states.
* The three conditions of `OwnAnswer`, the policy update that is passed over (`swallowed`), and a
  seeding that can outlast the Lambda although `provisioner_handler.py:752` says that it must not
  roll back the stack.
* An upload embeds its chunks one after the other on the event loop, although `app.py:148-150`
  says that blocking calls run on a worker thread: a text of 5 MB is some 3500 calls, longer
  than the health checks wait (30 s interval, 5 s timeout, three times).
* `documents.py:10-12` says an audit can still run when S3 is not available; the page sends only the
  text key, and without one the audit is refused.
* The text of a DOCX file is joined by single newlines (`documents.py:74`), so `_chunk_text` makes one
  chunk of it, of which 8000 characters are embedded.
* A time-out of the Cognito client is not a `ClientError` and leads to a plain error 500, although
  `_login_error_response` says it is used for every error path.
* `instanceNameToPascal` (`config.ts:168-174`) drops hyphens, so that the instances `a1` and `a-1` share the
  names of their stacks, although `config.ts:97-106` says that instances coexist without conflict.
  One instance is modelled.
* A change of the embedding model alone does not run the provisioner again; after a failed command the
  data stack may keep the grants of a new model while the runtime is restored to the old one.
* A change of `albOriginProtocol` is not atomic: between the listener's update and the distribution's
  the hop is closed, and `PathWhole` therefore speaks of stacks that agree.

* The provisioner's grant for the embeddings model (`opensearch-construct.ts:277`) is written without
  `bedrockModelArns`: with a cross-region profile for `bedrockEmbedModelId` the agent and the proxy may
  call it and the provisioner may not. `PathWhole` is stated for a model without such a prefix.
* Half of the *new* number of tasks need not answer: when a roll from two tasks to five fails and is restored,
  a single kept task may be all there is for a time. `minHealthyPercent` of 50 is of the number
  the service has at that moment, which is what `ServedThroughout` says.

## 4. The proofs

All theorems hold for every value of the constants, under the named assumptions
of the modules: bounds and times are naturals, `ClientKinds` and `Deployments` are subsets
of what there is, the backoff starts above zero and below its cap, texts are sequences of
lengths (`UploadsAssumption`), all requests are of one deployment (`OneDeployment`), what the
configuration calls a number is an integer (`IntegerValues`), and a model id has one of the known
region prefixes or none (`ModelIds`). Every invariant that a run checks is the subject of a theorem.

**WsProxy.** `StreamProtocol`'s order is not inductive on the frames alone: that the
endpoint may write `status` now depends on the last frame written being a last frame, and on
no ping being about to be written behind it. `IInv` says so in parts:
`ControlInv` (flags against `pc`), `CountInv` (queries begun plus messages
waiting never exceed messages sent, which keeps `qid` in range), `LockInv` (who is at the
lock: a keepalive that saw `active = FALSE` is in front of the status frame and gone when
the answer streams), `OutInv` (which frame is being sent), `QueueInv` (the queue
holds exactly the agent's next tokens), `WireInv` (what the frames say of the
endpoint), `AuthInv`. There is one lemma per part (`ControlNext`, `LockNext`, ...), each
with one step per action; `InvNext` puts them together. From it follow `TypeCorrect`,
`Inductive`, `Authenticated` and, by showing that each step of `WsProxy` is a step of
`StreamProtocol` or a stutter (`StepKeepsPromise`), `ProxyKeepsPromise`.
Its last part strengthens it by `HonestInv` (the end marker is the last item, after
all that was produced; an exception comes before it) and proves `Honest` and `Orphans`.

**StreamProtocol.** `OneAnswer` and `Contiguous` are what a reader draws from the promise: no
two last frames of one query, no gap among tokens. `WsProxyProofs` instantiates their module on the socket's own frames and, with
`ProxyKeepsPromise`, carries them over to the proxy (`ReaderSeesOneAnswer`, `ReaderSeesNoGap`).

**Retriever.** One invariant: a search begins by the ceiling, a callback ran exactly if
there is one and a cold answer was seen, a cold answer that is not spurious came from a search begun
before the warm-up. `Bounded`, `Warm` and `Told` follow.

`TypeCorrect` has the types.

**SpaClient.** `SentOnce` needs that a queued question has not been sent and that a turn not yet begun has
never been (`SentInv`), and that a socket which is not open carries nothing (`FreshInv`). `OwnAnswer` speaks of frames
that name no question, so what makes it true is on the wire: unless one of the three named situations
has occurred (`Calm`), there is on the open socket nothing, the question of the current bubble, a part of its
answer, or the rest of it with its last frame, and what the bubble shows and what is under way add
up to the length of the answer (`WireInv`: `Quiet`, `Sent`, `Streaming`, `Ended`). Each handler of the page and
each step of the proxy takes one of these four to another, which is what its lemmas show, one per action.
`TypeCorrect`, `SentOnly` and `Own` follow.

**JwksCache.** `AgeInv` bounds how long ago each key in a dict was last published, by where the
thread that holds it is: a dict is bound at most `FetchMax` after its keys were published, and time
stands still from the binding to the stamp, so the stamp, whichever of two fetches that end together
sets it, is at most `FetchMax` later than the keys; a dict taken as fresh is therefore younger than
`TTL + FetchMax`, which is `RetiredDie`. `RefreshInv` follows one call that nobody disturbs:
after its own clearing the dict is empty, so it fetches, the answer holds its key, and it is
there until the second lookup, so it does not end in `nokey` (`RefreshFinds`).

**Provisioner.** The position of the handler tells what stands: `PlaceInv` (which
request is handled at which step), `StageInv` (from `create` on there are the policies, from
`drop` on the collection is active), `SeedInv` (between the creation of the index and the
bulk request the index is mapped and empty), `GoneInv` (what a Delete has removed by
now, if all went well). One lemma each, one step per action; `Inductive` puts them
together, and `TypeCorrect`, `Usable`, `Seeded`, `Clean` and `Reasons` follow. `Answered` adds
`LateInv`, which bounds the clock at each step of a Delete: if no step takes more than F
and `ActiveWait + 7 * F <= Limit`, no Delete is ever killed. With the code's numbers
(12 + 7 * 2 half minutes against 30) there are two minutes to spare.

**HttpApi.** `LimitInv`: the list of a task is contained in what it let through and holds all of it that
is within the window, so the number the code compares is the one `LimitIsExact` speaks of
(`LimiterSteps` shows that a step asks the limiter, lets time pass, ends a task or leaves it alone).
`FormInv`: the cookie is the token of the form that arrived last as long as that form
is shown, a request that left with both carries equal tokens, and an answer brings a form together with its
cookie. `LoopInv`: an upload that holds a loop is of that task and between its beginning and its
end. `AnswerInv`: an upload is not answered before its end, a handler that has a key has its text in the bucket, and
what an answer says of bucket and index stays true but for what expires or is dropped; in particular the chunks
of an upload said to be indexed are `ToSet(Chunks(text))` to the last one. `LimitHolds`, `FormsServe` and
`TypeCorrect` follow, and with `ChunksFindAll`, `AnswersTrue`.

`ChunksFindAll` says what `_chunk_text` computes for *every* text, which takes an induction. The library's
induction theorems have an operator as a parameter and cannot be used, but `WFMin`, which has none, gives every non-empty
set of naturals a least element (`Least`), and with it: a loop that can always take its next step has values
(`Recursion`, so the `CHOOSE` behind a recursive function finds one), only one sequence of values has its steps
(`Agree`), hence a chunk with one more paragraph is longer by that paragraph and a separator
(`LengthAppend`), which is exactly what the guard `Fits` counts (`AddedPlaces`); and the first number of paragraphs at
which the chunks would lose, repeat or overfill cannot exist (`ChunksPlaced`).

**Deployment.** The phases of the stacks say what exists: `PhaseInv` (a stack at rest, updating or restoring
is whole; an absent one is empty), `OrderInv` (what exists has all it imports and refers to),
`CommandInv` (a deploying command has settled all it is done with), `BuildInv`, `RollInv`, `ImageInv` (which requests'
images are there for whom), `UserInv`. One lemma each, one step per action; `Inductive` puts them together.
`Stands` draws from `OrderInv` that resources stand on more than their templates name, because
the stacks' order gives the rest. `KeepsContract` shows that every step maps to one of `ImageContract` or a stutter
(`ImageStep`: something was released, referred to, pushed or wiped), and `NamedCanBePulled` draws what
users rely on.

`ServingInv` is a second invariant on top of the first: at rest each resource is as the plan of its stack
writes it (`WrittenInv`, where `Differs` compares what the templates would say, so that a resource CloudFormation
leaves alone counts as written); what the stack of the service was before is forgotten
when it comes to rest (`WasInv`); the service and the request it is being rolled to are of those two, and
without a roll its tasks are all there and alike (`ServiceInv`); and after a command that said "deployed" nothing moves
(`SaidInv`). `Serves` follows: the tasks in a roll are at least half of a number asked for, and a
roll that fails is taken back only when as many of the old ones are there. `Deploys` draws `AsRequested` from it and from
`Resolved`: that a flat key wins is followed from `Merged` through each setting into each construct that
carries it. `ReachesAll` shows `PathWhole` for every request that `Accepts` lets through: the ports and certificates of origin,
listener and ingress are taken from the same setting, and each call is a member of what its role was granted,
for each known region prefix.

Only model-checked: liveness (`CommandEnds`, `QueryEnds`, `HandlerEnds`, `MessagesAreTaken`, `CallsEnd`,
`RetrievalEnds`, `WaitEnds`), which is beyond this prover.

## 5. What is not modelled

* The text of frames, tokens and documents; the reassembly of SSE lines in
  `agentcore_client.py` (it yields deltas); wording, metrics, markdown, layout.
* The language model and the Strands agent: a thread that produces, raises, ends or hangs.
  `agent_runtime.stream_tokens` with its 120 s limit is not called by the
  deployed entrypoint.
* The idle timeout of the load balancer: to the endpoint it is a client that leaves, which
  `WsProxy` has at every step. `/invocations`: the same stream as a query, collected into one answer
  under a limit of its own; it keeps no state. `/health` and `/api/config` keep none either.
* The extraction of text by file type, the size limits (one refusal), the progress bar of the page.
* Wall-clock steps: the limiter reads `time.time()`, and the model's clock does not go back.
* The SOP files in S3, and how the provisioner reads and cuts the bundled documents.
* Of the stacks: route tables and the routing of the gateway, cache and header policies, logs and retention,
  encryption settings, the copy of a replaced resource that CloudFormation removes in its clean-up, changes
  of region or instance name (another deployment), the policy of the runtime.
* Of the scripts: the preflight, the choice of zones, the printing of credentials, the sweep of
  retained groups and network interfaces.

## 6. Plan

The order in which the models were built, because the later ones use or disturb the earlier ones. All of it is
done but the last item.

1. `WsProxy` with `StreamProtocol`, `JwksCache`, `Retriever`, `SpaClient`, and their proofs.
2. `Provisioner` and its proofs.
3. `Config`, `Stacks`, `Access`, `Deployment` with `ImageContract`, and their proofs.
4. `Login`, `Uploads`, composed in `HttpApi`, and its proofs.
5. Open: a run for the comment at `provisioner_handler.py:752`, with steps of a minute; `/invocations`
   beside the bridge.
