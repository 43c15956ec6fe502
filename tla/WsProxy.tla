------------------------------ MODULE WsProxy -------------------------------
(***************************************************************************)
(* One /ws connection of the proxy, from accept to the end of its handler: *)
(*   - the endpoint task (websocket_endpoint): authenticate, welcome, then *)
(*     receive a message and handle it to the end before the next;         *)
(*   - the keepalive task, which shares the socket through a send lock;    *)
(*   - per query, a daemon thread that invokes the agent and bridges its   *)
(*     tokens to the endpoint through an asyncio.Queue of the query's own; *)
(*   - the client, which sends messages and may leave at any moment.       *)
(*                                                                         *)
(* The endpoint and the keepalive are coroutines of one event loop: what   *)
(* either does between two awaits is one step.  The awaits kept apart are  *)
(* those at which the other can do something that matters: the send lock   *)
(* and the write behind it, receive_text and queue.get.  The awaits on     *)
(* verify_token and on fetch_text_from_s3 are part of the step that        *)
(* receives the message: while they run the connection is idle to every    *)
(* other task, exactly as in receive_text.                                 *)
(***************************************************************************)
EXTENDS Frames, FiniteSets

CONSTANTS
    MaxMessages,    \* bound: messages the client sends on this connection
    MaxTokens,      \* bound: text deltas the agent produces for one query
    MaxPings,       \* bound: pings the keepalive gets out
    ClientKinds,    \* the kinds of message the client sends
    Deployments     \* the settings and session cookies considered

MessageKinds ==
    {"malformed",   \* not JSON
     "invalid",     \* JSON, but neither a control frame nor a valid query
     "ping", "pong",
     "auth",        \* {"type": "auth"} with a token the pool has signed
     "forged",      \* {"type": "auth"} with any other token
     "query", "audit",
     "binary"}      \* a binary frame: receive_text raises on it

ASSUME BoundsAssumption ==
    MaxMessages \in Nat /\ MaxTokens \in Nat /\ MaxPings \in Nat
ASSUME KindsAssumption == ClientKinds \subseteq MessageKinds

Settings == [auth : BOOLEAN, mock : BOOLEAN, cookie : {"absent", "good", "forged"}]

ASSUME DeploymentsAssumption == Deployments \subseteq Settings

Queries == 1..MaxMessages

VARIABLES
    settings,   \* what this process and this handshake are configured with
    clientUp,   \* the client is still there
    inbox,      \* messages received by the server, not yet by the endpoint
    sent,       \* how many messages the client has sent
    pc,         \* where the endpoint task is
    out,        \* the frame it is sending, when pc = "send"
    authed, active, closed,     \* the flags of _WSConnection
    wsOpen,     \* the framework's own state: a failed send makes it FALSE
    lock,       \* _send_lock: its holder, then its waiters in FIFO order
    ka,         \* where the keepalive task is
    qid,        \* how many queries _run_query has been called with
    seq,        \* seq, and token_count, of the current one
    expired,    \* its deadline in stream_tokens has passed
    worker,     \* per query, the state of its bridge thread
    produced,   \* per query, how many text deltas the agent has produced
    queue,      \* per query, its bridge queue
    wire        \* the frames the client was sent, oldest first

clientVars == <<clientUp, inbox, sent>>
flags      == <<authed, active, closed>>
stream     == <<qid, seq, expired>>
bridge     == <<worker, produced, queue>>
vars == <<settings, clientVars, pc, out, flags, wsOpen, lock, ka, stream,
          bridge, wire>>

(* What a bridge thread puts on its queue: a token, an AgentCoreError or    *)
(* the end marker _DONE.                                                    *)
Delta(q, i) == [kind |-> "token", item |-> <<q, i>>]
Exc         == [kind |-> "exc",   item |-> NoItem]
Done        == [kind |-> "done",  item |-> NoItem]
Item        == [kind : {"token", "exc", "done"}, item : Nat \X Nat]

(* A runtime without authentication is refused at start-up, and mock mode   *)
(* is the absence of a runtime; ALLOW_UNAUTHENTICATED lifts the refusal, so *)
(* the four combinations all run.                                           *)
Init ==
    /\ settings \in Deployments
    /\ clientUp = TRUE /\ inbox = <<>> /\ sent = 0
    /\ pc = "accept" /\ out = Notice("welcome")
    /\ authed = FALSE /\ active = FALSE /\ closed = FALSE
    /\ wsOpen = TRUE /\ lock = <<>> /\ ka = "off"
    /\ qid = 0 /\ seq = 0 /\ expired = FALSE
    /\ worker   = [q \in Queries |-> "none"]
    /\ produced = [q \in Queries |-> 0]
    /\ queue    = [q \in Queries |-> <<>>]
    /\ wire = <<>>

-----------------------------------------------------------------------------
(***************************************************************************)
(* send_json, as the endpoint calls it: queue for the lock, then write.    *)
(***************************************************************************)

(* The endpoint asks for the lock, which others in l hold or wait for. *)
SendBehind(l, f) ==
    /\ out' = f
    /\ pc' = "send"
    /\ lock' = Append(l, "endpoint")

Send(f) == SendBehind(lock, f)

Holds(task) == lock # <<>> /\ Head(lock) = task

Released == lock' = Tail(lock)

(* The holder's frame goes out.  With closed set it is dropped silently;    *)
(* with the client gone but not yet noticed it is lost in a buffer.         *)
Written(f) ==
    /\ closed \/ wsOpen
    /\ wire' = IF closed \/ ~clientUp THEN wire ELSE Append(wire, f)
    /\ UNCHANGED wsOpen

(* The write raises, and the framework marks the socket disconnected. *)
Raises ==
    /\ ~closed /\ ~clientUp
    /\ wsOpen' = FALSE
    /\ UNCHANGED wire

Sending(kinds) == pc = "send" /\ Holds("endpoint") /\ out.kind \in kinds

-----------------------------------------------------------------------------
(***************************************************************************)
(* websocket_endpoint                                                      *)
(***************************************************************************)

(* Mutant: welcome first regardless, whatever the cookie. *)
AcceptRegardless ==
    /\ pc = "accept"
    /\ authed' = (settings.auth => settings.cookie = "good")
    /\ Send(Notice("welcome"))
    /\ UNCHANGED <<settings, clientVars, active, closed, wsOpen, ka, stream,
                   bridge, wire>>

Accept ==
    /\ pc = "accept"
    /\ \E ok \in BOOLEAN :
        \* a good cookie may be refused too: the JWKS fetch may fail
        /\ ~settings.auth => ok
        /\ ok => ~settings.auth \/ settings.cookie = "good"
        /\ authed' = ok
        /\ IF ok THEN Send(Notice("welcome"))
                 ELSE pc' = "rejected" /\ UNCHANGED <<out, lock>>
    /\ UNCHANGED <<settings, clientVars, active, closed, wsOpen, ka, stream,
                   bridge, wire>>

WelcomeSent ==
    /\ Sending({"welcome"}) /\ Released
    /\ \/ Written(out) /\ pc' = "recv" /\ ka' = "sleep"
       \/ Raises /\ pc' = "ended" /\ UNCHANGED ka    \* before the try block
    /\ UNCHANGED <<settings, clientVars, out, flags, stream, bridge>>

(* Mutant: the finally block forgets to cancel the keepalive. *)
FinallyWithoutCancel ==
    /\ closed' = TRUE
    /\ pc' = "ended"
    /\ UNCHANGED <<ka, lock>>

(* The finally block: the keepalive is cancelled wherever it is, and leaves *)
(* the lock it holds or waits for.  The endpoint, which runs this block, is *)
(* not in a send_json: nobody is left at the lock.                          *)
Finally ==
    /\ closed' = TRUE
    /\ ka' = "stopped"
    /\ lock' = <<>>
    /\ pc' = "ended"

LoopEnds ==     \* receive_text raises: disconnected
    /\ pc = "recv"
    /\ ~wsOpen \/ (~clientUp /\ inbox = <<>>)
    /\ Finally
    /\ UNCHANGED <<settings, clientVars, out, authed, active, wsOpen, stream,
                   bridge, wire>>

-----------------------------------------------------------------------------
(***************************************************************************)
(* _handle_message                                                         *)
(***************************************************************************)

RunQuery(l) ==  \* _run_query, up to the await on its status frame
    /\ qid' = qid + 1 /\ seq' = 0 /\ expired' = FALSE
    /\ active' = TRUE
    /\ SendBehind(l, Status(qid + 1))

Refused(m) == \/ m \in {"malformed", "invalid"}
              \/ m \in {"query", "audit"} /\ ~authed

Reply(f) == Send(f) /\ UNCHANGED <<flags, stream, ka>>

HandleMessage(m) ==
    \/ Refused(m) /\ Reply(Notice("refused"))
    \/ m = "ping" /\ Reply(Notice("pong"))
    \/ m = "pong" /\ UNCHANGED <<pc, out, lock, flags, stream, ka>>
    \/ /\ m \in {"auth", "forged"}
       /\ \E ok \in BOOLEAN :
            /\ ~settings.auth => ok
            /\ ok => ~settings.auth \/ m = "auth"
            /\ IF ok THEN authed' = TRUE /\ UNCHANGED <<pc, out, lock>>
                     ELSE Send(Notice("refused")) /\ UNCHANGED authed
       /\ UNCHANGED <<active, closed, stream, ka>>
    \/ /\ m = "audit" /\ authed
       /\ \E text \in BOOLEAN :  \* fetched by key, else sent inline, else none
            Reply(Notice(IF text THEN "auditing" ELSE "refused"))
    \/ /\ m = "query" /\ authed
       /\ RunQuery(lock)
       /\ UNCHANGED <<authed, closed, ka>>
    \/ /\ m = "binary"          \* raised by receive_text itself
       /\ Finally
       /\ UNCHANGED <<out, authed, active, stream>>

Receive ==
    /\ pc = "recv" /\ wsOpen /\ inbox # <<>>
    /\ inbox' = Tail(inbox)
    /\ HandleMessage(Head(inbox))
    /\ UNCHANGED <<settings, clientUp, sent, wsOpen, bridge, wire>>

ReplySent ==    \* pong; _safe_send_error: the exception is suppressed
    /\ Sending(ReplyKinds)
    /\ Written(out) \/ Raises
    /\ Released /\ pc' = "recv"
    /\ UNCHANGED <<settings, clientVars, out, flags, ka, stream, bridge>>

AuditingSent ==
    /\ Sending({"auditing"})
    /\ \/ Written(out) /\ RunQuery(Tail(lock))  \* no await in between
       \/ Raises /\ Released /\ pc' = "recv" /\ UNCHANGED <<out, active, stream>>
    /\ UNCHANGED <<settings, clientVars, authed, closed, ka, bridge>>

-----------------------------------------------------------------------------
(***************************************************************************)
(* _run_query and stream_tokens                                            *)
(***************************************************************************)

(* In mock mode the tokens of a fixed text are yielded, with no thread and  *)
(* no deadline: the same queue, filled beforehand.                          *)
MockStream(q) ==
    [i \in 1..(MaxTokens + 1) |-> IF i <= MaxTokens THEN Delta(q, i) ELSE Done]

StartStream ==
    IF settings.mock
    THEN /\ worker'   = [worker   EXCEPT ![qid] = "ended"]
         /\ produced' = [produced EXCEPT ![qid] = MaxTokens]
         /\ queue'    = [queue    EXCEPT ![qid] = MockStream(qid)]
    ELSE /\ worker'   = [worker   EXCEPT ![qid] = "running"]
         /\ UNCHANGED <<produced, queue>>

Leave == active' = FALSE /\ pc' = "recv"    \* the finally of _run_query

StatusSent ==
    /\ Sending({"status"}) /\ Released
    /\ \/ Written(out) /\ StartStream /\ pc' = "poll" /\ UNCHANGED active
       \/ Raises /\ Leave /\ UNCHANGED bridge
    /\ UNCHANGED <<settings, clientVars, out, authed, closed, ka, stream>>

(* Mutant: complete carries the number of the last token, not their count. *)
FrameOfLastSeq(it) ==
    CASE it.kind = "token" -> Token(qid, seq, it.item)
      [] it.kind = "exc"   -> Failure("failed", qid)
      [] it.kind = "done"  -> Complete(qid, seq - 1)

(* The frame one item of the bridge queue turns into. *)
FrameOf(it) ==
    CASE it.kind = "token" -> Token(qid, seq, it.item)
      [] it.kind = "exc"   -> Failure("failed", qid)
      [] it.kind = "done"  -> Complete(qid, seq)

(* The deadline is compared before queue.get is awaited, and the await is   *)
(* given what is left of it; an item that is there is taken without waiting.*)
TakeItem ==
    /\ \/ pc = "poll" /\ ~expired
       \/ pc = "wait"
    /\ queue[qid] # <<>>
    /\ queue' = [queue EXCEPT ![qid] = Tail(@)]
    /\ Send(FrameOf(Head(queue[qid])))
    /\ UNCHANGED <<settings, clientVars, flags, wsOpen, ka, stream, worker,
                   produced, wire>>

WaitForItem ==
    /\ pc = "poll" /\ ~expired
    /\ queue[qid] = <<>>
    /\ pc' = "wait"
    /\ UNCHANGED <<settings, clientVars, out, flags, wsOpen, lock, ka, stream,
                   bridge, wire>>

(* Mutant: queue.get is awaited without a timeout. *)
StreamTimesOutAtTopOnly ==
    /\ pc = "poll" /\ expired
    /\ Send(Failure("timeout", qid))
    /\ UNCHANGED <<settings, clientVars, flags, wsOpen, ka, stream, bridge,
                   wire>>

StreamTimesOut ==
    /\ pc \in {"poll", "wait"} /\ expired
    /\ Send(Failure("timeout", qid))
    /\ UNCHANGED <<settings, clientVars, flags, wsOpen, ka, stream, bridge,
                   wire>>

TokenSent ==
    /\ Sending({"token"}) /\ Released
    /\ \/ Written(out) /\ seq' = seq + 1 /\ pc' = "poll"
          /\ UNCHANGED <<active, closed>>
       \/ Raises /\ closed' = TRUE /\ Leave /\ UNCHANGED seq
    /\ UNCHANGED <<settings, clientVars, out, authed, ka, qid, expired, bridge>>

CompleteSent ==
    /\ Sending({"complete"}) /\ Released /\ Leave
    /\ \/ Written(out) /\ UNCHANGED closed
       \/ Raises /\ closed' = TRUE
    /\ UNCHANGED <<settings, clientVars, out, authed, ka, stream, bridge>>

FailureSent ==  \* _safe_send_error: the exception is suppressed
    /\ Sending(FailureKinds) /\ Released /\ Leave
    /\ Written(out) \/ Raises
    /\ UNCHANGED <<settings, clientVars, out, authed, closed, ka, stream, bridge>>

Expire ==       \* time passes while stream_tokens runs
    /\ ~settings.mock /\ active /\ ~expired
    /\ pc \in {"poll", "wait"} \/ (pc = "send" /\ out.kind = "token")
    /\ expired' = TRUE
    /\ UNCHANGED <<settings, clientVars, pc, out, flags, wsOpen, lock, ka, qid,
                   seq, bridge, wire>>

-----------------------------------------------------------------------------
(***************************************************************************)
(* _blocking_invoke_stream, the thread of query q.  Nothing joins it: it   *)
(* outlives its query when that times out or the client leaves.            *)
(***************************************************************************)

Put(q, it) == queue' = [queue EXCEPT ![q] = Append(@, it)]

WorkerToken(q) ==
    /\ worker[q] = "running" /\ produced[q] < MaxTokens
    /\ produced' = [produced EXCEPT ![q] = @ + 1]
    /\ Put(q, Delta(q, produced[q] + 1))
    /\ UNCHANGED worker

(* Mutant: the thread logs the exception and only marks the end. *)
WorkerRaisesUnseen(q) ==
    /\ worker[q] = "running"
    /\ worker' = [worker EXCEPT ![q] = "raised"]
    /\ UNCHANGED <<produced, queue>>

(* Mutant: the thread reports the exception and goes on reading. *)
WorkerRaisesAndGoesOn(q) ==
    /\ worker[q] = "running"
    /\ Put(q, Exc)
    /\ UNCHANGED <<worker, produced>>

WorkerRaises(q) ==
    /\ worker[q] = "running"
    /\ worker' = [worker EXCEPT ![q] = "raised"]
    /\ Put(q, Exc)
    /\ UNCHANGED produced

WorkerEnds(q) ==    \* the finally block
    /\ worker[q] \in {"running", "raised"}
    /\ worker' = [worker EXCEPT ![q] = IF @ = "running" THEN "ended" ELSE "failed"]
    /\ Put(q, Done)
    /\ UNCHANGED produced

Worker(q) ==
    /\ WorkerToken(q) \/ WorkerRaises(q) \/ WorkerEnds(q)
    /\ UNCHANGED <<settings, clientVars, pc, out, flags, wsOpen, lock, ka,
                   stream, wire>>

-----------------------------------------------------------------------------
(***************************************************************************)
(* _keepalive_loop                                                         *)
(***************************************************************************)

Pings == {i \in 1..Len(wire) : wire[i].kind = "ping"}

(* Mutant: the keepalive does not look at active. *)
KeepaliveWakesAnytime ==
    /\ ka = "sleep" /\ ~closed
    /\ Cardinality(Pings) < MaxPings
    /\ ka' = "ping"
    /\ lock' = Append(lock, "keepalive")
    /\ UNCHANGED <<settings, clientVars, pc, out, flags, wsOpen, stream, bridge,
                   wire>>

KeepaliveWakes ==
    /\ ka = "sleep" /\ ~active /\ ~closed
    /\ Cardinality(Pings) < MaxPings
    /\ ka' = "ping"
    /\ lock' = Append(lock, "keepalive")
    /\ UNCHANGED <<settings, clientVars, pc, out, flags, wsOpen, stream, bridge,
                   wire>>

KeepalivePings ==
    /\ ka = "ping" /\ Holds("keepalive") /\ Released
    /\ \/ Written(Notice("ping")) /\ ka' = "sleep"
       \/ Raises /\ ka' = "stopped"
    /\ UNCHANGED <<settings, clientVars, pc, out, flags, stream, bridge>>

-----------------------------------------------------------------------------
(***************************************************************************)
(* The client and the network                                              *)
(***************************************************************************)

Over == pc \in {"ended", "rejected"}

ClientSends(m) ==
    /\ clientUp /\ ~Over /\ sent < MaxMessages
    /\ inbox' = Append(inbox, m)
    /\ sent' = sent + 1
    /\ UNCHANGED clientUp

ClientLeaves ==
    /\ clientUp /\ ~Over
    /\ clientUp' = FALSE
    /\ UNCHANGED <<inbox, sent>>

Client ==
    /\ ClientLeaves \/ \E m \in ClientKinds : ClientSends(m)
    /\ UNCHANGED <<settings, pc, out, flags, wsOpen, lock, ka, stream, bridge,
                   wire>>

-----------------------------------------------------------------------------
Endpoint ==
    \/ Accept \/ WelcomeSent \/ LoopEnds \/ Receive \/ ReplySent
    \/ AuditingSent \/ StatusSent \/ TakeItem \/ WaitForItem
    \/ StreamTimesOut \/ TokenSent \/ CompleteSent \/ FailureSent

Keepalive == KeepaliveWakes \/ KeepalivePings

(* The handler has returned and no thread is left: the connection is over. *)
Terminated ==
    /\ Over /\ \A q \in Queries : worker[q] \notin {"running", "raised"}
    /\ UNCHANGED vars

Next ==
    \/ Endpoint \/ Expire \/ Keepalive \/ Client
    \/ \E q \in Queries : Worker(q)
    \/ Terminated

Spec == Init /\ [][Next]_vars

(* The event loop runs a task that is ready, a write ends one way or the    *)
(* other, and time passes.  Nothing is assumed of the client or of the      *)
(* agent: a bridge thread may hang for ever.                                *)
Fairness ==
    /\ WF_vars(Endpoint)
    /\ WF_vars(KeepalivePings)
    /\ WF_vars(Expire)

FairSpec == Spec /\ Fairness

-----------------------------------------------------------------------------
(***************************************************************************)
(* Properties                                                              *)
(***************************************************************************)

TypeOK ==
    /\ settings \in Settings
    /\ clientUp \in BOOLEAN /\ wsOpen \in BOOLEAN
    /\ inbox \in Seq(MessageKinds)
    /\ sent \in 0..MaxMessages
    /\ pc \in {"accept", "recv", "send", "poll", "wait", "ended", "rejected"}
    /\ out \in Frame
    /\ authed \in BOOLEAN /\ active \in BOOLEAN /\ closed \in BOOLEAN
    /\ lock \in Seq({"endpoint", "keepalive"})
    /\ ka \in {"off", "sleep", "ping", "stopped"}
    /\ qid \in 0..MaxMessages /\ seq \in Nat /\ expired \in BOOLEAN
    /\ worker \in [Queries -> {"none", "running", "raised", "ended", "failed"}]
    /\ produced \in [Queries -> 0..MaxTokens]
    /\ queue \in [Queries -> Seq(Item)]
    /\ wire \in Seq(Frame)

(* What the client reads keeps the promise of StreamProtocol: this is what  *)
(* the send lock, the active flag the keepalive looks at before it queues   *)
(* for the lock, the queue per query and the endpoint's one-message-at-a-   *)
(* time loop are there for.                                                 *)
Promise == INSTANCE StreamProtocol WITH Queries <- Queries, wire <- wire

KeepsPromise == Promise!Spec

(* No frame is written and no agent is invoked for a handshake without a    *)
(* session: with authentication on, everything else on the connection comes *)
(* after a good cookie (websocket_endpoint's close(4001), although its      *)
(* comment says "we send welcome first regardless").                        *)
AuthBeforeAnything ==
    wire # <<>> \/ qid > 0 =>
        authed /\ (settings.auth => settings.cookie = "good")

(* The last frame of an answer says what happened to the agent's run:       *)
(* complete means that the thread ended by itself, without an exception,    *)
(* and that every text delta it produced was written, tokenCount of them;   *)
(* inference_failed means that it raised.                                   *)
AnswersAreHonest ==
    \A i \in 1..Len(wire) : LET f == wire[i] IN
        /\ f.kind = "complete" => /\ worker[f.q] = "ended"
                                  /\ f.n = produced[f.q]
        /\ f.kind = "failed"   => worker[f.q] \in {"raised", "failed"}

(* A bridge thread runs on without a query only if that query was cut: its  *)
(* timeout frame was written or the client is gone.  So two runs of the     *)
(* agent on the connection's one session overlap only after a timeout.      *)
Current(q) == active /\ q = qid

OrphansOnlyAfterCut ==
    \A q \in Queries :
        worker[q] = "running" /\ ~Current(q) =>
            \/ ~clientUp
            \/ \E i \in 1..Len(wire) : wire[i].kind = "timeout" /\ wire[i].q = q

(* A query comes to an end whatever the agent does, a thread that hangs for *)
(* ever included: _run_query always clears active.                          *)
QueryEnds == active ~> ~active

(* Once the client is gone the handler returns and the keepalive is over:   *)
(* no task is left behind, whatever the endpoint was doing.                 *)
HandlerEnds == ~clientUp ~> Over /\ ka \in {"off", "stopped"}

(* A message received while a query is answered waits in the socket; it is  *)
(* not stuck behind the query for ever.                                     *)
MessagesAreTaken == inbox # <<>> ~> inbox = <<>> \/ Over

=============================================================================
