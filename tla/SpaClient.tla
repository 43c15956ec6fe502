----------------------------- MODULE SpaClient ------------------------------
(***************************************************************************)
(* The page (static/index.html) and the proxy at the other end of its      *)
(* socket: the user asks and audits, answers stream into bubbles, sockets  *)
(* come and go.                                                            *)
(*                                                                         *)
(* The page's handlers share the globals ws, awaiting, pendingSend,        *)
(* currentAgentBubble, currentIsAudit and auditStatusNode, and a frame does*)
(* not say which question it answers: the page puts a token into the       *)
(* bubble of the moment.  Every handler runs to its end, so each is one    *)
(* step; what is hard is the order they come in.  The browser dispatches   *)
(* messages of an OPEN socket only, and connect replaces ws only when it is*)
(* CLOSING or CLOSED: so messages come from the current socket, but a      *)
(* close event may still come from one that was replaced while CLOSING.    *)
(*                                                                         *)
(* The proxy is the one WsProxy describes: it answers one message after    *)
(* another, each answer being tokens and one last frame.  Frames the page  *)
(* takes no notice of (ping, pong, the status of a query) are left out, and*)
(* so are the timers behind the pings and the watchdog, which only log.    *)
(***************************************************************************)
EXTENDS Naturals, Sequences, FiniteSets

CONSTANTS
    MaxTurns,       \* bound: questions and audits the user starts
    MaxSockets,     \* bound: sockets the page opens
    Length          \* tokens of an answer that completes

ASSUME BoundsAssumption ==
    MaxTurns \in Nat /\ MaxSockets \in Nat \ {0} /\ Length \in Nat

Turns == 1..MaxTurns

VARIABLES
    audits,     \* the turns that are audits
    turns,      \* how many turns the user has started
    ready,      \* ws.readyState
    timer,      \* openTimer is pending
    sockets,    \* how many sockets were opened
    stale,      \* replaced sockets whose close event is still to come
    awaiting,
    bubble,     \* currentAgentBubble, by its turn; 0 is null
    pending,    \* pendingSend, by its turn
    isAudit,    \* currentIsAudit
    node,       \* auditStatusNode, by the turn it announces
    text,       \* per turn, whose tokens its bubble shows
    look,       \* per turn, what became of its bubble
    nodes,      \* per turn, what its audit status node says
    toProxy,    \* messages on the current socket
    toPage,     \* frames on it
    proxy,      \* the handler at its other end
    posted,     \* history: per turn, how often it was sent
    over,       \* history: the turns whose last frame the page has seen
    impatient,  \* history: SubmitQuery while an answer was awaited
    late,       \* history: a question was sent after its bubble was gone
    cut         \* history: the close of a replaced socket ended a wait

user   == <<audits, turns>>
socket == <<ready, timer, sockets, stale>>
view   == <<bubble, isAudit, node, text, look, nodes>>
wires  == <<toProxy, toPage, proxy>>
ghost  == <<posted, over, impatient, late, cut>>
vars   == <<user, socket, awaiting, view, pending, wires, ghost>>

Frame(k, q) == [kind |-> k, q |-> q]

(* serving: the turn being answered; left: tokens still to come, at most. *)
NoProxy == [state |-> "away", serving |-> 0, left |-> 0]

Init ==
    /\ audits = {} /\ turns = 0
    /\ ready = "connecting" /\ timer = TRUE    \* the bootstrap calls connect
    /\ sockets = 1 /\ stale = 0
    /\ awaiting = FALSE /\ bubble = 0 /\ pending = 0
    /\ isAudit = FALSE /\ node = 0
    /\ text  = [t \in Turns |-> <<>>]
    /\ look  = [t \in Turns |-> "none"]
    /\ nodes = [t \in Turns |-> "none"]
    /\ toProxy = <<>> /\ toPage = <<>> /\ proxy = NoProxy
    /\ posted = [t \in Turns |-> 0] /\ over = {}
    /\ impatient = FALSE /\ late = FALSE /\ cut = FALSE

-----------------------------------------------------------------------------
(***************************************************************************)
(* Sending                                                                 *)
(***************************************************************************)

Connected == ready \in {"connecting", "open"}

(* connect: a socket in place of one that is closed, or closing. *)
Connect ==
    IF Connected THEN UNCHANGED <<socket, wires>>
    ELSE /\ sockets < MaxSockets
         /\ sockets' = sockets + 1
         /\ stale' = IF ready = "closing" THEN stale + 1 ELSE stale
         /\ ready' = "connecting" /\ timer' = TRUE
         /\ toProxy' = <<>> /\ toPage' = <<>> /\ proxy' = NoProxy

Posts(t) ==     \* doSend
    /\ toProxy' = Append(toProxy, t)
    /\ posted' = [posted EXCEPT ![t] = @ + 1]

SendOrQueue(t) ==
    IF ready = "open"
    THEN Posts(t) /\ UNCHANGED <<pending, socket, toPage, proxy>>
    ELSE pending' = t /\ Connect /\ UNCHANGED posted

BeginAgentResponse(t, audit) ==
    /\ awaiting' = TRUE
    /\ bubble' = t /\ look' = [look EXCEPT ![t] = "streaming"]
    /\ isAudit' = audit /\ node' = 0
    /\ UNCHANGED <<text, nodes>>

Ask(audit) ==
    /\ turns < MaxTurns
    /\ turns' = turns + 1
    /\ audits' = IF audit THEN audits \cup {turns + 1} ELSE audits
    /\ impatient' = (impatient \/ (awaiting /\ ~audit))
    /\ BeginAgentResponse(turns + 1, audit)
    /\ SendOrQueue(turns + 1)
    /\ UNCHANGED <<over, late, cut>>

SubmitQuery == Ask(FALSE)   \* the Enter key asks nothing of ws or awaiting

(* Mutant: an audit may be started while an answer is awaited. *)
StartAuditAnyway == Ask(TRUE)

StartAudit == ~awaiting /\ Ask(TRUE)

Reconnect ==
    /\ ~Connected /\ Connect
    /\ UNCHANGED <<user, awaiting, view, pending, ghost>>

-----------------------------------------------------------------------------
(***************************************************************************)
(* onMessage                                                               *)
(***************************************************************************)

(* Mutant: what was queued stays queued. *)
OnWelcomeKeeps ==
    /\ IF pending = 0 THEN UNCHANGED <<toProxy, awaiting, posted, late>>
       ELSE /\ Posts(pending) /\ awaiting' = TRUE
            /\ late' = (late \/ bubble # pending)
    /\ UNCHANGED <<view, pending, over>>

OnWelcome ==
    /\ pending' = 0
    /\ IF pending = 0 THEN UNCHANGED <<toProxy, awaiting, posted, late>>
       ELSE /\ Posts(pending) /\ awaiting' = TRUE
            /\ late' = (late \/ bubble # pending)
    /\ UNCHANGED <<view, over>>

OnStatus(f) ==  \* phase "auditing"
    /\ node' = f.q /\ nodes' = [nodes EXCEPT ![f.q] = "working"]
    /\ UNCHANGED <<bubble, isAudit, text, look, awaiting, pending, toProxy,
                   posted, over, late>>

OnToken(f) ==
    /\ text' = IF bubble = 0 THEN text ELSE [text EXCEPT ![bubble] = Append(@, f.q)]
    /\ UNCHANGED <<bubble, isAudit, node, look, nodes, awaiting, pending,
                   toProxy, posted, over, late>>

(* The bubble and the audit node of the moment are resolved, and let go. *)
Resolve(bubbleLook, nodeSays) ==
    /\ awaiting' = FALSE /\ bubble' = 0
    /\ look' = IF bubble = 0 THEN look ELSE [look EXCEPT ![bubble] = bubbleLook]
    /\ nodes' = IF isAudit /\ node # 0 THEN [nodes EXCEPT ![node] = nodeSays]
                ELSE nodes
    /\ isAudit' = FALSE /\ node' = 0
    /\ UNCHANGED text

OnError == Resolve("removed", "interrupted")

OnComplete(f) ==
    /\ Resolve("complete", "complete")
    /\ over' = over \cup {f.q}
    /\ UNCHANGED <<pending, toProxy, posted, late>>

OnMessage ==
    /\ ready = "open" /\ toPage # <<>>
    /\ toPage' = Tail(toPage)
    /\ LET f == Head(toPage) IN
        \/ f.kind = "welcome"  /\ OnWelcome
        \/ f.kind = "auditing" /\ OnStatus(f)
        \/ f.kind = "token"    /\ OnToken(f)
        \/ f.kind = "complete" /\ OnComplete(f)
        \/ /\ f.kind = "error" /\ OnError
           /\ over' = over \cup {f.q}
           /\ UNCHANGED <<pending, toProxy, posted, late>>
    /\ UNCHANGED <<user, socket, proxy, impatient, cut>>

-----------------------------------------------------------------------------
(***************************************************************************)
(* The life of a socket                                                    *)
(***************************************************************************)

OnOpen ==
    /\ ready = "connecting"
    /\ ready' = "open" /\ timer' = FALSE
    /\ proxy' = [proxy EXCEPT !.state = "accepted"]
    /\ UNCHANGED <<user, sockets, stale, awaiting, view, pending, toProxy,
                   toPage, ghost>>

OpenTimesOut ==     \* the timer of connect: ws.close()
    /\ timer /\ ready = "connecting"
    /\ ready' = "closing" /\ timer' = FALSE
    /\ UNCHANGED <<user, sockets, stale, awaiting, view, pending, wires, ghost>>

Closing ==          \* the proxy or the network starts to close it
    /\ ready = "open"
    /\ ready' = "closing"
    /\ UNCHANGED <<user, timer, sockets, stale, awaiting, view, pending, wires,
                   ghost>>

(* Mutant: a lost connection is only logged. *)
OnCloseSilent ==
    /\ timer' = FALSE
    /\ UNCHANGED <<view, awaiting>>

(* Of whichever socket: the handler looks at the globals. *)
OnClose ==
    /\ timer' = FALSE
    /\ IF awaiting /\ bubble # 0 THEN OnError ELSE UNCHANGED <<view, awaiting>>

Closed ==
    /\ Connected \/ ready = "closing"
    /\ ready' = "closed" /\ OnClose
    /\ UNCHANGED <<user, sockets, stale, pending, wires, ghost>>

StaleCloses ==
    /\ stale > 0
    /\ stale' = stale - 1 /\ OnClose
    /\ cut' = (cut \/ (awaiting /\ bubble # 0))
    /\ UNCHANGED <<user, ready, sockets, pending, wires, posted, over, impatient,
                   late>>

-----------------------------------------------------------------------------
(***************************************************************************)
(* The proxy                                                               *)
(***************************************************************************)

Says(f) == toPage' = Append(toPage, f)

Rest == UNCHANGED <<user, socket, awaiting, view, pending, ghost>>

Welcome ==      \* the session cookie is good; else the proxy closes
    /\ ready = "open" /\ proxy.state = "accepted"
    /\ proxy' = [proxy EXCEPT !.state = "idle"]
    /\ Says(Frame("welcome", 0))
    /\ UNCHANGED toProxy /\ Rest

(* Mutant: every question is announced as an audit. *)
ServeAnnouncesAll ==
    /\ ready = "open" /\ proxy.state = "idle" /\ toProxy # <<>>
    /\ toProxy' = Tail(toProxy)
    /\ proxy' = [state |-> "serving", serving |-> Head(toProxy), left |-> Length]
    /\ Says(Frame("auditing", Head(toProxy)))
    /\ Rest

Serve ==        \* an audit announces itself, or is refused for want of text
    /\ ready = "open" /\ proxy.state = "idle" /\ toProxy # <<>>
    /\ toProxy' = Tail(toProxy)
    /\ LET q == Head(toProxy)
           serves == [state |-> "serving", serving |-> q, left |-> Length]
       IN  \/ q \notin audits /\ proxy' = serves /\ UNCHANGED toPage
           \/ q \in audits /\ proxy' = serves /\ Says(Frame("auditing", q))
           \/ q \in audits /\ Says(Frame("error", q)) /\ UNCHANGED proxy
    /\ Rest

Stream ==
    /\ ready = "open" /\ proxy.state = "serving" /\ proxy.left > 0
    /\ proxy' = [proxy EXCEPT !.left = @ - 1]
    /\ Says(Frame("token", proxy.serving))
    /\ UNCHANGED toProxy /\ Rest

Finish ==       \* an error may come at any moment
    /\ ready = "open" /\ proxy.state = "serving"
    /\ proxy' = [state |-> "idle", serving |-> 0, left |-> 0]
    /\ \/ proxy.left = 0 /\ Says(Frame("complete", proxy.serving))
       \/ Says(Frame("error", proxy.serving))
    /\ UNCHANGED toProxy /\ Rest

Proxy == Welcome \/ Serve \/ Stream \/ Finish

-----------------------------------------------------------------------------
User == SubmitQuery \/ StartAudit \/ Reconnect

Idle == UNCHANGED vars      \* nothing has to happen

Next ==
    \/ User \/ OnMessage \/ OnOpen \/ OpenTimesOut \/ Closing \/ Closed
    \/ StaleCloses \/ Proxy \/ Idle

(* An attempt to connect succeeds, fails or is ended by its timer, and a    *)
(* closing handshake ends.  An open socket need not close, ever.            *)
Settles ==
    /\ ready \in {"connecting", "closing"}
    /\ OnOpen \/ OpenTimesOut \/ Closed

(* The browser delivers events and settles sockets, and the proxy answers   *)
(* what it has taken (QueryEnds of WsProxy).                                *)
Spec == /\ Init /\ [][Next]_vars
        /\ WF_vars(OnMessage) /\ WF_vars(Proxy)
        /\ WF_vars(Settles) /\ WF_vars(StaleCloses)

-----------------------------------------------------------------------------
Frames ==
    [kind : {"welcome"}, q : {0}] \cup [kind : {"auditing"}, q : audits]
    \cup [kind : {"token", "complete", "error"}, q : Turns]

TypeOK ==
    /\ audits \subseteq Turns /\ turns \in 0..MaxTurns
    /\ ready \in {"connecting", "open", "closing", "closed"}
    /\ timer \in BOOLEAN /\ sockets \in 1..MaxSockets
    /\ stale \in 0..(sockets - 1)
    /\ awaiting \in BOOLEAN /\ isAudit \in BOOLEAN
    /\ bubble \in 0..turns /\ pending \in 0..turns /\ node \in {0} \cup audits
    /\ text \in [Turns -> Seq(Turns)]
    /\ look \in [Turns -> {"none", "streaming", "complete", "removed"}]
    /\ nodes \in [Turns -> {"none", "working", "complete", "interrupted"}]
    /\ toProxy \in Seq(Turns)
    /\ toPage \in Seq(Frames)
    /\ proxy \in [state : {"away", "accepted", "idle", "serving"},
                  serving : 0..MaxTurns, left : 0..Length]
    /\ proxy.state = "serving" <=> proxy.serving # 0
    /\ posted \in [Turns -> Nat] /\ over \subseteq Turns
    /\ impatient \in BOOLEAN /\ late \in BOOLEAN /\ cut \in BOOLEAN

(* A question is sent once, however often the page reconnects. *)
SentOnce == \A t \in Turns : posted[t] <= 1

(* A bubble shows tokens of its own answer alone, and one that says it is   *)
(* complete shows all of them, unless one of three things has happened: the *)
(* user did not wait for an answer, a queued question outlived its bubble   *)
(* (the connection failed, then Reconnect sent it), or a socket replaced    *)
(* while it was closing took the wait of its successor with it.             *)
OwnAnswer ==
    ~impatient /\ ~late /\ ~cut =>
        \A t \in Turns :
            /\ \A i \in 1..Len(text[t]) : text[t][i] = t
            /\ look[t] = "complete" => Len(text[t]) = Length

(* The page does not wait for ever, although nothing has to close a socket  *)
(* that is open.  A wait that has a bubble to show it is ended by an answer,*)
(* an error or the loss of the connection.  One without, for a question     *)
(* that is sent when its bubble is gone, is ended by the answer; if the     *)
(* socket is lost first, onclose leaves it alone (awaiting &&               *)
(* currentAgentBubble), and nothing is said of it here.                     *)
WaitEnds ==
    /\ (awaiting /\ bubble # 0) ~> ~awaiting
    /\ (awaiting /\ toProxy # <<>>) ~> (~awaiting \/ ready # "open")

-----------------------------------------------------------------------------
(* The comment in onStatus: the node is tracked "so we can resolve it to    *)
(* complete at the end".                                                    *)
AuditResolved == \A t \in over : nodes[t] # "working"
=============================================================================
