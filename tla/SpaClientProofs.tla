-------------------------- MODULE SpaClientProofs ---------------------------
(***************************************************************************)
(* What SpaClient guarantees for any number of turns and sockets and for   *)
(* answers of any length: its types, that a question is sent once, and     *)
(* that a bubble shows its own answer.                                     *)
(***************************************************************************)
EXTENDS SpaClient, TLAPS

(* What is queued has not been sent, nor what is not asked yet. *)
SentInv ==
    /\ \A t \in Turns : posted[t] <= 1 /\ (t > turns => posted[t] = 0)
    /\ pending # 0 => posted[pending] = 0

(* None of the three things has happened that mix answers up. *)
Calm == ~impatient /\ ~late /\ ~cut

OnlyWelcome == \A i \in 1..Len(toPage) : toPage[i].kind = "welcome"

(* The first n frames: h that show nothing, then tokens for the bubble. *)
Carries(h, n) ==
    /\ \A i \in 1..h : toPage[i].kind \in {"welcome", "auditing"}
    /\ \A i \in (h + 1)..n : toPage[i].kind = "token" /\ toPage[i].q = bubble

(* What is between page and proxy on an open socket: nothing (what was      *)
(* asked is still queued, or went with an earlier socket), the question, a  *)
(* part of the answer, or the rest of it with its last frame.               *)
Quiet == toProxy = <<>> /\ proxy.state # "serving" /\ OnlyWelcome

Sent ==
    /\ toProxy = <<bubble>> /\ proxy.state # "serving" /\ OnlyWelcome
    /\ text[bubble] = <<>>

Streaming ==
    /\ toProxy = <<>> /\ proxy.state = "serving" /\ proxy.serving = bubble
    /\ \E h \in 0..Len(toPage) :
        /\ Carries(h, Len(toPage))
        /\ Len(text[bubble]) + (Len(toPage) - h) + proxy.left = Length

Ended ==
    /\ toProxy = <<>> /\ proxy.state = "idle" /\ toPage # <<>>
    /\ LET last == Len(toPage)
       IN  /\ toPage[last].kind \in {"complete", "error"}
           /\ \E h \in 0..(last - 1) :
               /\ Carries(h, last - 1)
               /\ toPage[last].kind = "complete" =>
                     Len(text[bubble]) + (last - 1 - h) = Length

(* What the bubbles show so far. *)
ShownInv ==
    /\ \A t \in Turns :
        /\ \A i \in 1..Len(text[t]) : text[t][i] = t
        /\ look[t] = "complete" => Len(text[t]) = Length
        /\ t > turns => text[t] = <<>> /\ look[t] = "none"
    /\ awaiting <=> bubble # 0
    /\ bubble # 0 =>
        /\ look[bubble] = "streaming"
        /\ pending = bubble => text[bubble] = <<>>

WireInv ==
    ready = "open" =>
        Quiet \/ (bubble # 0 /\ pending # bubble /\ (Sent \/ Streaming \/ Ended))

AnswerInv == Calm => ShownInv /\ WireInv

(* A socket that is not open yet carries nothing, whatever was before it. *)
FreshInv ==
    ready = "connecting" => toProxy = <<>> /\ toPage = <<>> /\ proxy = NoProxy

IInv == TypeOK /\ FreshInv /\ SentInv /\ AnswerInv

-----------------------------------------------------------------------------
LEMMA AppendFacts ==
    ASSUME NEW S, NEW w \in Seq(S), NEW x \in S
    PROVE  /\ Append(w, x) \in Seq(S) /\ Append(w, x) # <<>>
           /\ Len(Append(w, x)) = Len(w) + 1 /\ Append(w, x)[Len(w) + 1] = x
           /\ \A i \in 1..Len(w) : Append(w, x)[i] = w[i]
OBVIOUS

LEMMA TailFacts ==
    ASSUME NEW S, NEW w \in Seq(S), w # <<>>
    PROVE  /\ Head(w) = w[1] /\ Head(w) \in S /\ Tail(w) \in Seq(S)
           /\ Len(w) \in Nat \ {0} /\ Len(Tail(w)) = Len(w) - 1
           /\ \A i \in 1..Len(Tail(w)) : Tail(w)[i] = w[i + 1]
OBVIOUS

LEMMA EmptyFacts == ASSUME NEW S PROVE <<>> \in Seq(S) /\ Len(<<>>) = 0
OBVIOUS

LEMMA NotEmpty == ASSUME NEW w, Len(w) # 0 PROVE w # <<>>
OBVIOUS

(* A sequence over a set is one over a larger set. *)
LEMMA SeqGrows ==
    ASSUME NEW S, NEW T, S \subseteq T, NEW w \in Seq(S)
    PROVE  w \in Seq(T)
OBVIOUS

(* The frames there are grow with the audits. *)
LEMMA FrameFacts ==
    /\ Frame("welcome", 0) \in Frames
    /\ \A q \in audits : Frame("auditing", q) \in Frames
    /\ \A q \in Turns, k \in {"token", "complete", "error"} : Frame(k, q) \in Frames
    /\ \A k, q : Frame(k, q).kind = k /\ Frame(k, q).q = q
    /\ \A f \in Frames :
        /\ f.kind \in {"welcome", "auditing", "token", "complete", "error"}
        /\ f.kind = "auditing" => f.q \in audits
        /\ f.kind \in {"token", "complete", "error"} => f.q \in Turns
BY DEF Frames, Frame

-----------------------------------------------------------------------------
(***************************************************************************)
(* Types                                                                   *)
(***************************************************************************)

UserType == audits \subseteq Turns /\ turns \in 0..MaxTurns

SocketType ==
    /\ ready \in {"connecting", "open", "closing", "closed"}
    /\ timer \in BOOLEAN /\ sockets \in 1..MaxSockets
    /\ stale \in 0..(sockets - 1)

ViewType ==
    /\ isAudit \in BOOLEAN /\ bubble \in 0..turns /\ node \in {0} \cup audits
    /\ text \in [Turns -> Seq(Turns)]
    /\ look \in [Turns -> {"none", "streaming", "complete", "removed"}]
    /\ nodes \in [Turns -> {"none", "working", "complete", "interrupted"}]

WireType ==
    /\ toProxy \in Seq(Turns) /\ toPage \in Seq(Frames)
    /\ proxy \in [state : {"away", "accepted", "idle", "serving"},
                  serving : 0..MaxTurns, left : 0..Length]
    /\ proxy.state = "serving" <=> proxy.serving # 0

GhostType ==
    /\ posted \in [Turns -> Nat] /\ over \subseteq Turns
    /\ impatient \in BOOLEAN /\ late \in BOOLEAN /\ cut \in BOOLEAN

LEMMA TypeParts ==
    TypeOK <=> /\ UserType /\ SocketType /\ ViewType /\ WireType /\ GhostType
               /\ awaiting \in BOOLEAN /\ pending \in 0..turns
BY DEF TypeOK, UserType, SocketType, ViewType, WireType, GhostType

LEMMA TypeJoins ==
    ASSUME UserType', SocketType', ViewType', WireType', GhostType',
           awaiting' \in BOOLEAN, pending' \in 0..turns'
    PROVE  TypeOK'
BY DEF TypeOK, UserType, SocketType, ViewType, WireType, GhostType

LEMMA TypeInit == Init => TypeOK
<1> SUFFICES ASSUME Init PROVE TypeOK
  OBVIOUS
<1>0. /\ turns = 0 /\ bubble = 0 /\ pending = 0 /\ node = 0
      /\ awaiting = FALSE /\ isAudit = FALSE
  BY DEF Init
<1>5. awaiting \in BOOLEAN /\ isAudit \in BOOLEAN
  BY <1>0
<1>6. bubble \in 0..turns /\ pending \in 0..turns
  BY <1>0
<1> USE BoundsAssumption DEF Init
<1>1. UserType /\ SocketType
  BY DEF UserType, SocketType
<1>2. ViewType
  <2>1. <<>> \in Seq(Turns)
    BY EmptyFacts
  <2>2. text \in [Turns -> Seq(Turns)]
    BY <2>1
  <2> QED BY <1>0, <1>5, <1>6, <2>2 DEF ViewType
<1>3. WireType
  BY EmptyFacts DEF WireType, NoProxy
<1>4. GhostType
  BY DEF GhostType
<1> QED BY <1>1, <1>2, <1>3, <1>4, <1>5, <1>6, TypeParts

(* The audits only grow, and with them the frames. *)
LEMMA WireTypeGrows ==
    ASSUME WireType, audits \subseteq audits', UNCHANGED wires
    PROVE  WireType'
<1>1. Frames \subseteq Frames'
  BY DEF Frames
<1>2. toPage' \in Seq(Frames')
  BY <1>1, SeqGrows DEF WireType, wires
<1> QED BY <1>2 DEF WireType, wires

LEMMA ConnectType ==
    ASSUME TypeOK, audits \subseteq audits', Connect
    PROVE  SocketType' /\ WireType'
<1> USE TypeParts, TypeJoins, BoundsAssumption
<1>1. CASE Connected
  BY <1>1, WireTypeGrows DEF Connect, SocketType, socket
<1>2. CASE ~Connected
  <2>1. SocketType'
    BY <1>2 DEF Connect, SocketType
  <2>2. toProxy' = <<>> /\ toPage' = <<>> /\ proxy' = NoProxy
    BY <1>2 DEF Connect
  <2>3. WireType'
    BY <2>2, EmptyFacts DEF WireType, NoProxy
  <2> QED BY <2>1, <2>3
<1> QED BY <1>1, <1>2

LEMMA PostsType ==
    ASSUME TypeOK, NEW t \in Turns, Posts(t)
    PROVE  toProxy' \in Seq(Turns) /\ posted' \in [Turns -> Nat]
<1>1. toProxy' \in Seq(Turns)
  BY AppendFacts DEF Posts, TypeOK
<1>2. posted' \in [Turns -> Nat]
  BY DEF Posts, TypeOK
<1> QED BY <1>1, <1>2

LEMMA AskType ==
    ASSUME TypeOK, NEW audit \in BOOLEAN, Ask(audit)
    PROVE  TypeOK'
<1> USE TypeParts, TypeJoins, BoundsAssumption
<1> DEFINE t == turns + 1
<1>1. t \in Turns /\ t \in 1..turns' /\ turns' \in 0..MaxTurns
  BY DEF Ask, UserType, Turns
<1>2. UserType' /\ audits \subseteq audits'
  BY <1>1 DEF Ask, UserType
<1>3. ViewType' /\ awaiting' \in BOOLEAN
  BY <1>1 DEF Ask, BeginAgentResponse, ViewType
<1>4. over' \subseteq Turns /\ impatient' \in BOOLEAN /\ late' \in BOOLEAN
      /\ cut' \in BOOLEAN
  BY DEF Ask, GhostType
<1>5. CASE ready = "open"
  <2>1. Posts(t) /\ UNCHANGED <<pending, socket, toPage, proxy>>
    BY <1>5 DEF Ask, SendOrQueue
  <2>2. toProxy' \in Seq(Turns) /\ posted' \in [Turns -> Nat]
    BY <1>1, <2>1, PostsType
  <2>3. toPage' \in Seq(Frames')
    <3>1. Frames \subseteq Frames'
      BY <1>2 DEF Frames
    <3> QED BY <2>1, <3>1, SeqGrows DEF WireType
  <2>4. WireType'
    BY <2>1, <2>2, <2>3 DEF WireType
  <2>5. SocketType' /\ pending' \in 0..turns'
    BY <1>1, <2>1 DEF SocketType, socket, UserType
  <2> QED BY <1>2, <1>3, <1>4, <2>2, <2>4, <2>5 DEF GhostType
<1>6. CASE ready # "open"
  <2>1. pending' = t /\ Connect /\ UNCHANGED posted
    BY <1>6 DEF Ask, SendOrQueue
  <2>2. SocketType' /\ WireType'
    BY <1>2, <2>1, ConnectType
  <2> QED BY <1>1, <1>2, <1>3, <1>4, <2>1, <2>2 DEF GhostType
<1> QED BY <1>5, <1>6

LEMMA ResolveType ==
    ASSUME TypeOK, UNCHANGED user,
           NEW l \in {"complete", "removed"}, NEW n \in {"complete", "interrupted"},
           Resolve(l, n)
    PROVE  ViewType' /\ awaiting' \in BOOLEAN
<1> USE TypeParts
<1>1. look' \in [Turns -> {"none", "streaming", "complete", "removed"}]
  BY DEF Resolve, ViewType
<1>2. nodes' \in [Turns -> {"none", "working", "complete", "interrupted"}]
  BY DEF Resolve, ViewType
<1>3. bubble' = 0 /\ node' = 0 /\ isAudit' = FALSE /\ awaiting' = FALSE
      /\ text' = text /\ turns' \in Nat
  BY DEF Resolve, user, UserType
<1>4. text' \in [Turns -> Seq(Turns)] /\ bubble' \in 0..turns'
  BY <1>3 DEF ViewType
<1> QED BY <1>1, <1>2, <1>3, <1>4 DEF ViewType

LEMMA MessageType ==
    ASSUME TypeOK, OnMessage
    PROVE  TypeOK'
<1> USE TypeParts, TypeJoins, BoundsAssumption
<1> DEFINE f == Head(toPage)
<1>0. /\ UserType' /\ SocketType' /\ Frames' = Frames /\ toPage' \in Seq(Frames)
      /\ f \in Frames /\ turns' = turns /\ audits' = audits
      /\ UNCHANGED <<proxy, impatient, cut>>
  <2>1. UNCHANGED <<user, socket, proxy, impatient, cut>>
    BY DEF OnMessage
  <2>2. toPage' \in Seq(Frames) /\ f \in Frames
    BY TailFacts DEF OnMessage, WireType
  <2> QED BY <2>1, <2>2 DEF user, socket, UserType, SocketType, Frames
<1>1. CASE f.kind = "welcome" /\ OnWelcome
  <2>1. toProxy' \in Seq(Turns) /\ posted' \in [Turns -> Nat]
        /\ awaiting' \in BOOLEAN /\ late' \in BOOLEAN
    <3>1. CASE pending = 0
      BY <1>1, <3>1 DEF OnWelcome, WireType, GhostType
    <3>2. CASE pending # 0
      <4>1. pending \in Turns
        BY <3>2 DEF UserType, Turns
      <4> QED BY <1>1, <3>2, <4>1, PostsType DEF OnWelcome, GhostType
    <3> QED BY <3>1, <3>2
  <2>2. pending' = 0 /\ UNCHANGED <<view, over>>
    BY <1>1 DEF OnWelcome
  <2> QED BY <1>0, <2>1, <2>2 DEF view, ViewType, WireType, GhostType, UserType
<1>2. CASE f.kind = "auditing" /\ OnStatus(f)
  <2>1. f.q \in audits /\ f.q \in Turns
    BY <1>0, <1>2, FrameFacts DEF UserType
  <2>2. node' = f.q /\ nodes' = [nodes EXCEPT ![f.q] = "working"]
        /\ UNCHANGED <<bubble, isAudit, text, look, awaiting, pending, toProxy,
                       posted, over, late>>
    BY <1>2 DEF OnStatus
  <2>3. ViewType'
    BY <1>0, <2>1, <2>2 DEF ViewType
  <2> QED BY <1>0, <2>2, <2>3 DEF WireType, GhostType
<1>3. CASE f.kind = "token" /\ OnToken(f)
  <2>1. f.q \in Turns
    BY <1>0, <1>3, FrameFacts
  <2>2. UNCHANGED <<bubble, isAudit, node, look, nodes, awaiting, pending,
                    toProxy, posted, over, late>>
    BY <1>3 DEF OnToken
  <2>3. text' \in [Turns -> Seq(Turns)]
    <3>1. CASE bubble = 0
      BY <1>3, <3>1 DEF OnToken, ViewType
    <3>2. CASE bubble # 0
      <4>1. bubble \in Turns /\ text[bubble] \in Seq(Turns)
        BY <3>2 DEF ViewType, UserType, Turns
      <4>2. Append(text[bubble], f.q) \in Seq(Turns)
        BY <2>1, <4>1, AppendFacts
      <4>3. text' = [text EXCEPT ![bubble] = Append(text[bubble], f.q)]
        BY <1>3, <3>2 DEF OnToken
      <4> QED BY <4>1, <4>2, <4>3 DEF ViewType
    <3> QED BY <3>1, <3>2
  <2>4. ViewType'
    BY <1>0, <2>2, <2>3 DEF ViewType
  <2> QED BY <1>0, <2>2, <2>4 DEF WireType, GhostType
<1>4. CASE f.kind = "complete" /\ OnComplete(f)
  <2>1. f.q \in Turns
    BY <1>0, <1>4, FrameFacts
  <2>2. ViewType' /\ awaiting' \in BOOLEAN
    BY <1>4, ResolveType DEF OnComplete, OnMessage
  <2> QED BY <1>0, <1>4, <2>1, <2>2 DEF OnComplete, WireType, GhostType
<1>5. CASE f.kind = "error" /\ OnError /\ over' = over \cup {f.q}
           /\ UNCHANGED <<pending, toProxy, posted, late>>
  <2>1. f.q \in Turns
    BY <1>0, <1>5, FrameFacts
  <2>2. ViewType' /\ awaiting' \in BOOLEAN
    BY <1>5, ResolveType DEF OnError, OnMessage
  <2> QED BY <1>0, <1>5, <2>1, <2>2 DEF WireType, GhostType
<1> QED BY <1>1, <1>2, <1>3, <1>4, <1>5 DEF OnMessage

(* OnClose changes what the bubbles show, and the wait. *)
LEMMA CloseType ==
    ASSUME TypeOK, UNCHANGED user, OnClose
    PROVE  ViewType' /\ awaiting' \in BOOLEAN /\ timer' = FALSE
<1> USE TypeParts
<1>1. CASE awaiting /\ bubble # 0
  BY <1>1, ResolveType DEF OnClose, OnError
<1>2. CASE ~(awaiting /\ bubble # 0)
  BY <1>2 DEF OnClose, view, user, ViewType
<1> QED BY <1>1, <1>2 DEF OnClose

(* A frame of the proxy, with what else the step may touch of the wires. *)
LEMMA ProxyType ==
    ASSUME TypeOK, Proxy
    PROVE  TypeOK'
<1> USE TypeParts, TypeJoins, BoundsAssumption
<1>1. UNCHANGED <<user, socket, awaiting, view, pending, ghost>>
  BY DEF Proxy, Welcome, Serve, Stream, Finish, Rest
<1>2. Frames' = Frames
  BY <1>1 DEF user, Frames
<1>3. ASSUME NEW f \in Frames, Says(f)
      PROVE  toPage' \in Seq(Frames)
  BY <1>3, AppendFacts DEF Says, WireType
<1>4. CASE Welcome
  <2>1. toPage' \in Seq(Frames) /\ toProxy' = toProxy
    BY <1>3, <1>4, FrameFacts DEF Welcome
  <2>2. proxy' = [proxy EXCEPT !.state = "idle"] /\ proxy.state = "accepted"
    BY <1>4 DEF Welcome
  <2>3. WireType'
    BY <1>2, <2>1, <2>2 DEF WireType
  <2> QED BY <1>1, <2>3 DEF user, socket, view, ghost, UserType, SocketType,
                            ViewType, GhostType
<1>5. CASE Serve
  <2> DEFINE q == Head(toProxy)
  <2>1. q \in Turns /\ toProxy' \in Seq(Turns)
    BY <1>5, TailFacts DEF Serve, WireType
  <2>2. q \in 1..MaxTurns
    BY <2>1 DEF Turns
  <2>3. toPage' \in Seq(Frames)
    BY <1>3, <1>5, <2>1, FrameFacts DEF Serve, WireType
  <2>4. \/ proxy' = proxy
        \/ proxy' = [state |-> "serving", serving |-> q, left |-> Length]
    BY <1>5 DEF Serve
  <2>5. WireType'
    BY <1>2, <2>1, <2>2, <2>3, <2>4 DEF WireType
  <2> QED BY <1>1, <2>5 DEF user, socket, view, ghost, UserType, SocketType,
                            ViewType, GhostType
<1>6. CASE Stream \/ Finish
  <2>1. proxy.serving \in Turns /\ toProxy' = toProxy
    BY <1>6 DEF Stream, Finish, WireType, Turns
  <2>2. toPage' \in Seq(Frames)
    BY <1>3, <1>6, <2>1, FrameFacts DEF Stream, Finish
  <2>3. \/ proxy.left > 0 /\ proxy' = [proxy EXCEPT !.left = @ - 1]
        \/ proxy' = [state |-> "idle", serving |-> 0, left |-> 0]
    BY <1>6 DEF Stream, Finish
  <2>4. WireType'
    BY <1>2, <2>1, <2>2, <2>3 DEF WireType
  <2> QED BY <1>1, <2>4 DEF user, socket, view, ghost, UserType, SocketType,
                            ViewType, GhostType
<1> QED BY <1>4, <1>5, <1>6 DEF Proxy

LEMMA TypeNext == TypeOK /\ FreshInv /\ [Next]_vars => TypeOK'
<1> SUFFICES ASSUME TypeOK, FreshInv, [Next]_vars PROVE TypeOK'
  OBVIOUS
<1> USE TypeParts, TypeJoins, BoundsAssumption
<1>1. CASE SubmitQuery \/ StartAudit
  BY <1>1, AskType DEF SubmitQuery, StartAudit
<1>2. CASE Reconnect
  <2>1. UNCHANGED <<user, awaiting, view, pending, ghost>> /\ Connect
    BY <1>2 DEF Reconnect
  <2>2. SocketType' /\ WireType'
    BY <2>1, ConnectType DEF user
  <2> QED BY <2>1, <2>2 DEF user, view, ghost, UserType, ViewType, GhostType
<1>3. CASE OnMessage
  BY <1>3, MessageType
<1>4. CASE OnOpen \/ OpenTimesOut \/ Closing
  <2>1. UNCHANGED <<user, sockets, stale, awaiting, view, pending, toProxy,
                    toPage, ghost>>
    BY <1>4 DEF OnOpen, OpenTimesOut, Closing, wires
  <2>2. SocketType'
    BY <1>4, <2>1 DEF OnOpen, OpenTimesOut, Closing, SocketType
  <2>3. WireType'
    <3>1. CASE OnOpen
      <4>1. proxy' = [proxy EXCEPT !.state = "accepted"]
        BY <3>1 DEF OnOpen
      <4>2. proxy.state = "away" /\ proxy.serving = 0
        BY <3>1 DEF OnOpen, FreshInv, NoProxy
      <4>3. Frames' = Frames
        BY <2>1 DEF user, Frames
      <4> QED BY <2>1, <4>1, <4>2, <4>3 DEF WireType
    <3>2. CASE OpenTimesOut \/ Closing
      BY <2>1, <3>2, WireTypeGrows DEF OpenTimesOut, Closing, wires, user
    <3> QED BY <1>4, <3>1, <3>2
  <2> QED BY <2>1, <2>2, <2>3 DEF user, view, ghost, UserType, ViewType,
                                  GhostType
<1>5. CASE Closed
  <2>1. UNCHANGED <<user, sockets, stale, pending, wires, ghost>> /\ OnClose
        /\ ready' = "closed"
    BY <1>5 DEF Closed
  <2>2. ViewType' /\ awaiting' \in BOOLEAN /\ timer' = FALSE
    BY <2>1, CloseType
  <2>3. WireType'
    BY <2>1, WireTypeGrows DEF user
  <2>4. SocketType'
    <3>1. timer' \in BOOLEAN
      BY <2>2
    <3> QED BY <2>1, <3>1 DEF SocketType
  <2> QED BY <2>1, <2>2, <2>3, <2>4 DEF user, ghost, UserType, GhostType
<1>6. CASE StaleCloses
  <2>1. UNCHANGED <<user, ready, sockets, pending, wires, posted, over,
                    impatient, late>> /\ OnClose
        /\ stale' = stale - 1 /\ stale > 0
        /\ cut' = (cut \/ (awaiting /\ bubble # 0))
    BY <1>6 DEF StaleCloses
  <2>2. ViewType' /\ awaiting' \in BOOLEAN /\ timer' = FALSE
    BY <2>1, CloseType
  <2>3. WireType'
    BY <2>1, WireTypeGrows DEF user
  <2>4. SocketType'
    <3>1. timer' \in BOOLEAN
      BY <2>2
    <3> QED BY <2>1, <3>1 DEF SocketType
  <2>5. cut' \in BOOLEAN
    BY <2>1
  <2> QED BY <2>1, <2>2, <2>3, <2>4, <2>5 DEF user, UserType, GhostType
<1>7. CASE Proxy
  BY <1>7, ProxyType
<1>8. CASE UNCHANGED vars
  BY <1>8 DEF vars, user, socket, view, wires, ghost, UserType, SocketType,
              ViewType, WireType, GhostType, Frames
<1> QED BY <1>1, <1>2, <1>3, <1>4, <1>5, <1>6, <1>7, <1>8 DEF Next, User, Idle

-----------------------------------------------------------------------------
(***************************************************************************)
(* New sockets, and what is sent                                           *)
(***************************************************************************)

LEMMA FreshNext == FreshInv /\ [Next]_vars => FreshInv'
<1> SUFFICES ASSUME FreshInv, [Next]_vars, ready' = "connecting"
             PROVE  toProxy' = <<>> /\ toPage' = <<>> /\ proxy' = NoProxy
  BY DEF FreshInv
<1>1. ASSUME Connect
      PROVE  toProxy' = <<>> /\ toPage' = <<>> /\ proxy' = NoProxy
  BY <1>1 DEF Connect, Connected, FreshInv, socket, wires
<1>2. CASE SubmitQuery \/ StartAudit
  <2>1. PICK audit \in BOOLEAN : Ask(audit)
    BY <1>2 DEF SubmitQuery, StartAudit
  <2>2. SendOrQueue(turns + 1)
    BY <2>1 DEF Ask
  <2>3. ready # "open"
    BY <2>2 DEF SendOrQueue, socket
  <2> QED BY <1>1, <2>2, <2>3 DEF SendOrQueue
<1>3. CASE Reconnect
  BY <1>1, <1>3 DEF Reconnect
<1>4. CASE OnMessage \/ OnOpen \/ OpenTimesOut \/ Closing \/ Closed \/ Proxy
  BY <1>4 DEF OnMessage, OnOpen, OpenTimesOut, Closing, Closed, Proxy, Welcome,
              Serve, Stream, Finish, Rest, socket
<1>5. CASE StaleCloses \/ UNCHANGED vars
  BY <1>5 DEF StaleCloses, vars, socket, wires, FreshInv
<1> QED BY <1>2, <1>3, <1>4, <1>5 DEF Next, User, Idle

(* A question goes once from "not asked" to queued or sent, and once from   *)
(* queued to sent.                                                          *)
LEMMA SentNext == TypeOK /\ SentInv /\ [Next]_vars => SentInv'
<1> SUFFICES ASSUME TypeOK, SentInv, [Next]_vars PROVE SentInv'
  OBVIOUS
<1> USE BoundsAssumption
<1>0. turns \in Nat /\ pending \in 0..turns /\ posted \in [Turns -> Nat]
      /\ turns <= MaxTurns
  BY DEF TypeOK
<1>1. CASE SubmitQuery \/ StartAudit
  <2> DEFINE t == turns + 1
  <2>1. PICK audit \in BOOLEAN : Ask(audit)
    BY <1>1 DEF SubmitQuery, StartAudit
  <2>2. turns' = t /\ SendOrQueue(t) /\ t \in Turns
    BY <1>0, <2>1 DEF Ask, Turns
  <2>3. posted[t] = 0
    BY <1>0, <2>2 DEF SentInv
  <2>4. CASE ready = "open"
    <3>1. posted' = [posted EXCEPT ![t] = posted[t] + 1] /\ pending' = pending
      BY <2>2, <2>4 DEF SendOrQueue, Posts
    <3>2. pending # t
      BY <1>0
    <3>3. \A s \in Turns : posted'[s] <= 1 /\ (s > turns' => posted'[s] = 0)
      BY <1>0, <2>2, <2>3, <3>1 DEF SentInv, Turns
    <3>4. pending' # 0 => posted'[pending'] = 0
      BY <1>0, <3>1, <3>2 DEF SentInv, Turns
    <3> QED BY <3>3, <3>4 DEF SentInv
  <2>5. CASE ready # "open"
    <3>1. posted' = posted /\ pending' = t
      BY <2>2, <2>5 DEF SendOrQueue
    <3> QED BY <1>0, <2>2, <2>3, <3>1 DEF SentInv, Turns
  <2> QED BY <2>4, <2>5
<1>2. CASE OnMessage
  <2> DEFINE f == Head(toPage)
  <2>1. turns' = turns
    BY <1>2 DEF OnMessage, user
  <2>2. CASE f.kind = "welcome" /\ OnWelcome /\ pending # 0
    <3>1. posted' = [posted EXCEPT ![pending] = posted[pending] + 1]
          /\ pending' = 0
      BY <2>2 DEF OnWelcome, Posts
    <3>2. posted[pending] = 0 /\ pending \in Turns /\ pending <= turns
      BY <1>0, <2>2 DEF SentInv, Turns
    <3> QED BY <1>0, <2>1, <3>1, <3>2 DEF SentInv, Turns
  <2>3. CASE f.kind = "welcome" /\ OnWelcome /\ pending = 0
    BY <2>1, <2>3 DEF OnWelcome, SentInv
  <2>4. CASE f.kind # "welcome"
    <3>1. UNCHANGED <<posted, pending>>
      BY <1>2, <2>4 DEF OnMessage, OnStatus, OnToken, OnComplete
    <3> QED BY <2>1, <3>1 DEF SentInv
  <2> QED BY <1>2, <2>2, <2>3, <2>4 DEF OnMessage
<1>3. CASE Reconnect \/ OnOpen \/ OpenTimesOut \/ Closing \/ Closed
           \/ StaleCloses \/ Proxy \/ UNCHANGED vars
  <2>1. UNCHANGED <<turns, posted, pending>>
    BY <1>3 DEF Reconnect, OnOpen, OpenTimesOut, Closing, Closed, StaleCloses,
                Proxy, Welcome, Serve, Stream, Finish, Rest, vars, user, ghost
  <2> QED BY <2>1 DEF SentInv
<1> QED BY <1>1, <1>2, <1>3 DEF Next, User, Idle

-----------------------------------------------------------------------------
(***************************************************************************)
(* Frames come and go                                                      *)
(***************************************************************************)

(* The page takes the first of n frames. *)
LEMMA CarriesTail ==
    ASSUME TypeOK, NEW n \in Nat \ {0}, n <= Len(toPage),
           NEW h \in 0..n, Carries(h, n),
           toPage' = Tail(toPage), bubble' = bubble
    PROVE  \/ /\ h > 0 /\ Head(toPage).kind \in {"welcome", "auditing"}
              /\ Carries(h - 1, n - 1)'
           \/ /\ h = 0 /\ Head(toPage).kind = "token" /\ Head(toPage).q = bubble
              /\ Carries(0, n - 1)'
<1>1. /\ toPage \in Seq(Frames) /\ toPage # <<>> /\ Head(toPage) = toPage[1]
      /\ Len(toPage') = Len(toPage) - 1 /\ Len(toPage) \in Nat
      /\ \A i \in 1..Len(toPage') : toPage'[i] = toPage[i + 1]
  <2>1. toPage \in Seq(Frames)
    BY DEF TypeOK
  <2>2. Len(toPage) # 0 /\ Len(toPage) \in Nat
    BY <2>1
  <2>3. toPage # <<>>
    BY <2>2
  <2> QED BY <2>1, <2>2, <2>3, TailFacts
<1>2. \A i \in 1..(n - 1) : toPage'[i] = toPage[i + 1]
  BY <1>1
<1>3. CASE h > 0
  <2>1. toPage[1].kind \in {"welcome", "auditing"}
    BY <1>3 DEF Carries
  <2>2. \A i \in 1..(h - 1) : toPage'[i].kind \in {"welcome", "auditing"}
    BY <1>2, <1>3 DEF Carries
  <2>3. \A i \in ((h - 1) + 1)..(n - 1) :
            toPage'[i].kind = "token" /\ toPage'[i].q = bubble'
    BY <1>2, <1>3 DEF Carries
  <2> QED BY <1>1, <1>3, <2>1, <2>2, <2>3 DEF Carries
<1>4. CASE h = 0
  <2>1. toPage[1].kind = "token" /\ toPage[1].q = bubble
    BY <1>4 DEF Carries
  <2>2. \A i \in (0 + 1)..(n - 1) :
            toPage'[i].kind = "token" /\ toPage'[i].q = bubble'
    BY <1>2, <1>4 DEF Carries
  <2>3. \A i \in 1..0 : toPage'[i].kind \in {"welcome", "auditing"}
    OBVIOUS
  <2> QED BY <1>1, <1>4, <2>1, <2>2, <2>3 DEF Carries
<1> QED BY <1>3, <1>4

(* The proxy adds one: what was on the wire stays what it was. *)
LEMMA CarriesGrows ==
    ASSUME TypeOK, NEW f \in Frames, Says(f), bubble' = bubble,
           NEW n \in Nat, n = Len(toPage), NEW h \in 0..n, Carries(h, n)
    PROVE  /\ Len(toPage') = n + 1 /\ toPage'[n + 1] = f /\ toPage' # <<>>
           /\ Carries(h, n)'
           /\ f.kind = "token" /\ f.q = bubble => Carries(h, n + 1)'
<1>0. toPage \in Seq(Frames)
  BY DEF TypeOK
<1>1. /\ toPage' # <<>> /\ Len(toPage') = n + 1 /\ toPage'[n + 1] = f
      /\ \A i \in 1..n : toPage'[i] = toPage[i]
  BY <1>0, AppendFacts DEF Says
<1>2. /\ \A i \in 1..h : toPage'[i].kind \in {"welcome", "auditing"}
      /\ \A i \in (h + 1)..n : toPage'[i].kind = "token" /\ toPage'[i].q = bubble'
  BY <1>1 DEF Carries
<1>3. Carries(h, n)'
  BY <1>2 DEF Carries
<1>4. ASSUME f.kind = "token", f.q = bubble
      PROVE  Carries(h, n + 1)'
  <2>1. \A i \in (h + 1)..(n + 1) :
            toPage'[i].kind = "token" /\ toPage'[i].q = bubble'
    BY <1>1, <1>2, <1>4
  <2> QED BY <1>2, <2>1 DEF Carries
<1> QED BY <1>1, <1>3, <1>4

(* Only welcomes: none of it shows anything, and one more may follow. *)
LEMMA OnlyWelcomeFacts ==
    ASSUME TypeOK, OnlyWelcome
    PROVE  /\ \A n \in Nat : n = Len(toPage) => Carries(n, n)
           /\ toPage # <<>> => Head(toPage).kind = "welcome"
           /\ toPage # <<>> /\ toPage' = Tail(toPage) => OnlyWelcome'
           /\ \A f \in Frames :
                 Says(f) =>
                   /\ \A n \in Nat : n = Len(toPage) =>
                        /\ Len(toPage') = n + 1 /\ toPage'[n + 1] = f
                        /\ Carries(n, n)'
                        /\ f.kind = "auditing" => Carries(n + 1, n + 1)'
                   /\ toPage' # <<>>
                   /\ f.kind = "welcome" => OnlyWelcome'
<1>0. toPage \in Seq(Frames) /\ Len(toPage) \in Nat
  BY DEF TypeOK
<1>1. ASSUME NEW n \in Nat, n = Len(toPage) PROVE Carries(n, n)
  BY <1>1 DEF Carries, OnlyWelcome
<1>2. ASSUME toPage # <<>>
      PROVE  /\ Head(toPage).kind = "welcome"
             /\ toPage' = Tail(toPage) => OnlyWelcome'
  <2>1. /\ Head(toPage) = toPage[1] /\ Len(toPage) \in Nat \ {0}
        /\ Len(Tail(toPage)) = Len(toPage) - 1
        /\ \A i \in 1..Len(Tail(toPage)) : Tail(toPage)[i] = toPage[i + 1]
    BY <1>0, <1>2, TailFacts
  <2> QED BY <2>1 DEF OnlyWelcome
<1>3. ASSUME NEW f \in Frames, Says(f), NEW n \in Nat, n = Len(toPage)
      PROVE  /\ Len(toPage') = n + 1 /\ toPage'[n + 1] = f /\ toPage' # <<>>
             /\ Carries(n, n)'
             /\ f.kind = "auditing" => Carries(n + 1, n + 1)'
             /\ f.kind = "welcome" => OnlyWelcome'
  <2>1. /\ toPage' # <<>> /\ Len(toPage') = n + 1 /\ toPage'[n + 1] = f
        /\ \A i \in 1..n : toPage'[i] = toPage[i]
    BY <1>0, <1>3, AppendFacts DEF Says
  <2>2. \A i \in 1..n : toPage'[i].kind = "welcome"
    BY <1>3, <2>1 DEF OnlyWelcome
  <2>3. Carries(n, n)'
    BY <2>2 DEF Carries
  <2>4. f.kind = "auditing" => Carries(n + 1, n + 1)'
    BY <2>1, <2>2 DEF Carries
  <2>5. f.kind = "welcome" => OnlyWelcome'
    BY <2>1, <2>2 DEF OnlyWelcome
  <2> QED BY <2>1, <2>3, <2>4, <2>5
<1> QED BY <1>0, <1>1, <1>2, <1>3

-----------------------------------------------------------------------------
(***************************************************************************)
(* Answers                                                                 *)
(***************************************************************************)

(* The bubbles, and what is on the wires, while nothing mixes answers up. *)
AnswerPre == TypeOK /\ FreshInv /\ ShownInv /\ WireInv

LEMMA CalmBefore == TypeOK /\ [Next]_vars /\ Calm' => Calm
<1> SUFFICES ASSUME TypeOK, [Next]_vars, Calm' PROVE Calm
  OBVIOUS
<1>1. CASE SubmitQuery \/ StartAudit
  <2>1. PICK audit \in BOOLEAN : Ask(audit)
    BY <1>1 DEF SubmitQuery, StartAudit
  <2>2. impatient' = (impatient \/ (awaiting /\ ~audit)) /\ UNCHANGED <<late, cut>>
    BY <2>1 DEF Ask
  <2> QED BY <2>2 DEF Calm
<1>2. CASE OnMessage
  <2>1. UNCHANGED <<impatient, cut>>
    BY <1>2 DEF OnMessage
  <2>2. \/ late' = (late \/ bubble # pending)
        \/ late' = late
    BY <1>2 DEF OnMessage, OnWelcome, OnStatus, OnToken, OnComplete
  <2>3. ~impatient /\ ~cut
    BY <2>1 DEF Calm
  <2>4. ~late
    <3>1. CASE late' = (late \/ bubble # pending)
      BY <3>1, Zenon DEF Calm
    <3>2. CASE late' = late
      BY <3>2, Zenon DEF Calm
    <3> QED BY <2>2, <3>1, <3>2
  <2> QED BY <2>3, <2>4 DEF Calm
<1>3. CASE StaleCloses
  BY <1>3 DEF StaleCloses, Calm
<1>4. CASE Reconnect \/ OnOpen \/ OpenTimesOut \/ Closing \/ Closed \/ Proxy
           \/ UNCHANGED vars
  <2>1. UNCHANGED ghost
    BY <1>4 DEF Reconnect, OnOpen, OpenTimesOut, Closing, Closed, Proxy, Welcome,
                Serve, Stream, Finish, Rest, vars
  <2> QED BY <2>1 DEF ghost, Calm
<1> QED BY <1>1, <1>2, <1>3, <1>4 DEF Next, User, Idle

(* What is shown stays as it was, or the bubble of the moment is resolved. *)
LEMMA ShownStays ==
    ASSUME ShownInv, UNCHANGED <<turns, text, look, bubble, awaiting>>,
           pending' = pending \/ pending' = 0
    PROVE  ShownInv'
BY DEF ShownInv

LEMMA ShownResolved ==
    ASSUME TypeOK, ShownInv, UNCHANGED turns, bubble # 0,
           NEW l \in {"complete", "removed"}, NEW n, Resolve(l, n),
           l = "complete" => Len(text[bubble]) = Length
    PROVE  ShownInv'
<1>1. /\ bubble \in Turns /\ bubble <= turns /\ turns \in Nat
      /\ look \in [Turns -> {"none", "streaming", "complete", "removed"}]
  BY BoundsAssumption DEF TypeOK, Turns
<1>2. /\ text' = text /\ bubble' = 0 /\ awaiting' = FALSE
      /\ look' = [look EXCEPT ![bubble] = l]
  BY DEF Resolve
<1>3. ASSUME NEW t \in Turns
      PROVE  /\ \A i \in 1..Len(text'[t]) : text'[t][i] = t
             /\ look'[t] = "complete" => Len(text'[t]) = Length
             /\ t > turns' => text'[t] = <<>> /\ look'[t] = "none"
  <2>1. CASE t = bubble
    BY <1>1, <1>2, <2>1 DEF ShownInv
  <2>2. CASE t # bubble
    BY <1>1, <1>2, <2>2 DEF ShownInv
  <2> QED BY <2>1, <2>2
<1>4. awaiting' <=> bubble' # 0
  BY <1>2
<1> QED BY <1>2, <1>3, <1>4 DEF ShownInv

LEMMA AskAnswer ==
    ASSUME AnswerPre, NEW audit \in BOOLEAN, Ask(audit), ~awaiting
    PROVE  ShownInv' /\ WireInv'
<1> DEFINE t == turns + 1
<1> USE BoundsAssumption
<1>1. /\ turns \in Nat /\ t \in Turns /\ pending \in 0..turns
      /\ look \in [Turns -> {"none", "streaming", "complete", "removed"}]
  BY DEF AnswerPre, TypeOK, Ask, Turns
<1>2. bubble = 0
  BY DEF AnswerPre, ShownInv
<1>3. /\ turns' = t /\ SendOrQueue(t) /\ awaiting' = TRUE /\ bubble' = t
      /\ text' = text /\ look' = [look EXCEPT ![t] = "streaming"]
  BY DEF Ask, BeginAgentResponse
<1>4. text[t] = <<>>
  BY <1>1 DEF AnswerPre, ShownInv
<1>5. ShownInv'
  <2>1. ASSUME NEW s \in Turns
        PROVE  /\ \A i \in 1..Len(text'[s]) : text'[s][i] = s
               /\ look'[s] = "complete" => Len(text'[s]) = Length
               /\ s > turns' => text'[s] = <<>> /\ look'[s] = "none"
    <3>1. s \in Nat
      BY DEF Turns
    <3>2. CASE s = t
      BY <1>1, <1>3, <1>4, <3>2 DEF AnswerPre, ShownInv
    <3>3. CASE s # t
      BY <1>1, <1>3, <3>1, <3>3 DEF AnswerPre, ShownInv
    <3> QED BY <3>2, <3>3
  <2>2. awaiting' <=> bubble' # 0
    BY <1>1, <1>3
  <2>3. look'[bubble'] = "streaming" /\ text'[bubble'] = <<>>
    BY <1>1, <1>3, <1>4
  <2> QED BY <2>1, <2>2, <2>3 DEF ShownInv
<1>6. CASE ready = "open"
  <2>1. toProxy' = Append(toProxy, t) /\ UNCHANGED <<pending, socket, toPage, proxy>>
    BY <1>3, <1>6 DEF SendOrQueue, Posts
  <2>2. Quiet
    BY <1>2, <1>6 DEF AnswerPre, WireInv
  <2>3. toProxy' = <<t>>
    BY <2>1, <2>2 DEF Quiet
  <2>4. Sent'
    BY <1>3, <1>4, <2>1, <2>2, <2>3 DEF Quiet, Sent, OnlyWelcome
  <2>5. bubble' # 0 /\ pending' # bubble'
    BY <1>1, <1>3, <2>1
  <2> QED BY <1>5, <2>4, <2>5 DEF WireInv
<1>7. CASE ready # "open"
  <2>1. Connect
    BY <1>3, <1>7 DEF SendOrQueue
  <2>2. ready' # "open"
    BY <1>7, <2>1 DEF Connect, socket
  <2> QED BY <1>5, <2>2 DEF WireInv
<1> QED BY <1>6, <1>7

(* A frame that shows nothing is taken from the wire. *)
LEMMA StreamTail ==
    ASSUME TypeOK, toPage # <<>>, toPage' = Tail(toPage),
           Head(toPage).kind \in {"welcome", "auditing"},
           UNCHANGED <<bubble, text, toProxy, proxy>>, Streaming \/ Ended
    PROVE  Streaming' \/ Ended'
<1>1. /\ Len(toPage) \in Nat \ {0} /\ Head(toPage) = toPage[1]
      /\ Len(toPage') = Len(toPage) - 1
      /\ \A i \in 1..Len(toPage') : toPage'[i] = toPage[i + 1]
  BY TailFacts DEF TypeOK
<1>2. PICK n \in Nat \ {0} : n = Len(toPage)
  BY <1>1
<1>3. CASE Streaming
  <2>1. PICK h \in 0..n :
            /\ Carries(h, n)
            /\ Len(text[bubble]) + (n - h) + proxy.left = Length
    BY <1>2, <1>3 DEF Streaming
  <2>2. h > 0 /\ Carries(h - 1, n - 1)'
    BY <1>2, <2>1, CarriesTail
  <2>3. h - 1 \in 0..(n - 1) /\ (n - 1) - (h - 1) = n - h
    BY <2>2
  <2>4. n - 1 = Len(toPage')
    BY <1>1, <1>2
  <2>5. \E g \in 0..(n - 1) :
            /\ Carries(g, n - 1)'
            /\ Len(text'[bubble']) + ((n - 1) - g) + proxy'.left = Length
    BY <2>1, <2>2, <2>3
  <2> QED BY <1>3, <2>4, <2>5 DEF Streaming
<1>4. CASE Ended
  <2>1. PICK h \in 0..(n - 1) :
            /\ Carries(h, n - 1)
            /\ toPage[n].kind = "complete" =>
                  Len(text[bubble]) + (n - 1 - h) = Length
    BY <1>2, <1>4 DEF Ended
  <2>2. toPage[n].kind \in {"complete", "error"}
    BY <1>2, <1>4 DEF Ended
  <2>3. n > 1
    BY <1>1, <2>2
  <2>4. h > 0 /\ Carries(h - 1, (n - 1) - 1)'
    BY <1>2, <2>1, <2>3, CarriesTail
  <2>5. h - 1 \in 0..(n - 1 - 1) /\ (n - 1) - 1 - (h - 1) = n - 1 - h
    BY <2>4
  <2>6. n - 1 = Len(toPage') /\ toPage'[n - 1] = toPage[n] /\ toPage' # <<>>
    <3>1. n - 1 = Len(toPage') /\ n - 1 \in 1..(n - 1) /\ (n - 1) + 1 = n
      BY <1>1, <1>2, <2>3
    <3>2. toPage'[n - 1] = toPage[(n - 1) + 1]
      BY <1>1, <3>1
    <3>3. toPage' # <<>>
      BY <2>3, <3>1
    <3> QED BY <3>1, <3>2, <3>3
  <2>7. \E g \in 0..((n - 1) - 1) :
            /\ Carries(g, (n - 1) - 1)'
            /\ toPage'[n - 1].kind = "complete" =>
                  Len(text'[bubble']) + ((n - 1) - 1 - g) = Length
    BY <2>1, <2>4, <2>5, <2>6
  <2> QED BY <1>4, <2>2, <2>6, <2>7 DEF Ended
<1> QED BY <1>3, <1>4

(* A token is taken from the wire into the bubble. *)
LEMMA TokenTail ==
    ASSUME TypeOK, toPage # <<>>, toPage' = Tail(toPage), bubble # 0,
           Head(toPage).kind = "token",
           text' = [text EXCEPT ![bubble] = Append(text[bubble], Head(toPage).q)],
           UNCHANGED <<bubble, toProxy, proxy>>, Streaming \/ Ended
    PROVE  Head(toPage).q = bubble /\ (Streaming' \/ Ended')
<1> USE BoundsAssumption
<1>1. /\ Len(toPage) \in Nat \ {0} /\ Head(toPage) = toPage[1]
      /\ Head(toPage) \in Frames
      /\ Len(toPage') = Len(toPage) - 1
      /\ \A i \in 1..Len(toPage') : toPage'[i] = toPage[i + 1]
  BY TailFacts DEF TypeOK
<1>2. PICK n \in Nat \ {0} : n = Len(toPage)
  BY <1>1
<1>3. /\ bubble \in Turns /\ text[bubble] \in Seq(Turns)
      /\ text \in [Turns -> Seq(Turns)]
  BY DEF TypeOK, Turns
<1>4. Head(toPage).q \in Turns
  BY <1>1, FrameFacts
<1>5. Len(text'[bubble']) = Len(text[bubble]) + 1 /\ Len(text[bubble]) \in Nat
  <2>1. text'[bubble'] = Append(text[bubble], Head(toPage).q)
    BY <1>3
  <2> QED BY <1>3, <1>4, <2>1, AppendFacts
<1>6. CASE Streaming
  <2>1. PICK h \in 0..n :
            /\ Carries(h, n)
            /\ Len(text[bubble]) + (n - h) + proxy.left = Length
    BY <1>2, <1>6 DEF Streaming
  <2>2. h = 0 /\ Head(toPage).q = bubble /\ Carries(0, n - 1)'
    <3>1. \/ Head(toPage).kind \in {"welcome", "auditing"}
          \/ h = 0 /\ Head(toPage).q = bubble /\ Carries(0, n - 1)'
      BY <1>2, <2>1, CarriesTail
    <3> QED BY <3>1
  <2>3. n - 1 = Len(toPage') /\ 0 \in 0..(n - 1)
    BY <1>1, <1>2
  <2>4. Len(text'[bubble']) + ((n - 1) - 0) + proxy'.left = Length
    <3>1. proxy.left \in Nat
      BY DEF TypeOK
    <3> QED BY <1>5, <2>1, <2>2, <3>1
  <2>5. Streaming'
    BY <1>6, <2>2, <2>3, <2>4 DEF Streaming
  <2> QED BY <2>2, <2>5
<1>7. CASE Ended
  <2>1. PICK h \in 0..(n - 1) :
            /\ Carries(h, n - 1)
            /\ toPage[n].kind = "complete" =>
                  Len(text[bubble]) + (n - 1 - h) = Length
    BY <1>2, <1>7 DEF Ended
  <2>2. toPage[n].kind \in {"complete", "error"}
    BY <1>2, <1>7 DEF Ended
  <2>3. n > 1
    BY <1>1, <2>2
  <2>4. h = 0 /\ Head(toPage).q = bubble /\ Carries(0, (n - 1) - 1)'
    BY <1>2, <2>1, <2>3, CarriesTail
  <2>5. n - 1 = Len(toPage') /\ toPage'[n - 1] = toPage[n] /\ toPage' # <<>>
        /\ 0 \in 0..((n - 1) - 1)
    <3>1. n - 1 = Len(toPage') /\ n - 1 \in 1..(n - 1) /\ (n - 1) + 1 = n
          /\ 0 \in 0..((n - 1) - 1)
      BY <1>1, <1>2, <2>3
    <3>2. toPage'[n - 1] = toPage[(n - 1) + 1]
      BY <1>1, <3>1
    <3>3. toPage' # <<>>
      <4>1. Len(toPage') # 0
        BY <2>3, <3>1
      <4> QED BY <4>1, NotEmpty
    <3> QED BY <3>1, <3>2, <3>3
  <2>6. ASSUME toPage'[n - 1].kind = "complete"
        PROVE  Len(text'[bubble']) + ((n - 1) - 1 - 0) = Length
    <3>1. Len(text[bubble]) + (n - 1 - h) = Length
      BY <2>1, <2>5, <2>6
    <3> QED BY <1>5, <2>4, <3>1
  <2>7. Ended'
    BY <1>7, <2>2, <2>4, <2>5, <2>6 DEF Ended
  <2> QED BY <2>4, <2>7
<1> QED BY <1>6, <1>7

(* The last frame of an answer is the only one that shows something else.  *)
LEMMA LastFrame ==
    ASSUME TypeOK, toPage # <<>>, Head(toPage).kind \in {"complete", "error"},
           Streaming \/ Ended
    PROVE  /\ toProxy = <<>> /\ proxy.state = "idle" /\ Len(toPage) = 1
           /\ Head(toPage).kind = "complete" => Len(text[bubble]) = Length
<1>1. Len(toPage) \in Nat \ {0} /\ Head(toPage) = toPage[1]
  BY TailFacts DEF TypeOK
<1>2. ASSUME NEW n \in Nat \ {0}, NEW h \in 0..n, Carries(h, n)
      PROVE  FALSE
  <2>1. toPage[1].kind \in {"welcome", "auditing", "token"}
    <3>1. CASE h > 0
      BY <1>2, <3>1 DEF Carries
    <3>2. CASE h = 0
      BY <1>2, <3>2 DEF Carries
    <3> QED BY <3>1, <3>2
  <2> QED BY <1>1, <2>1
<1>3. PICK n \in Nat \ {0} : n = Len(toPage)
  BY <1>1
<1>4. Ended
  <2>1. ASSUME Streaming PROVE FALSE
    <3>1. PICK h \in 0..n : Carries(h, n)
      BY <1>3, <2>1 DEF Streaming
    <3> QED BY <1>2, <3>1
  <2> QED BY <2>1
<1>5. PICK h \in 0..(n - 1) :
          /\ Carries(h, n - 1)
          /\ toPage[n].kind = "complete" =>
                Len(text[bubble]) + (n - 1 - h) = Length
  BY <1>3, <1>4 DEF Ended
<1>6. n = 1
  BY <1>2, <1>5
<1>7. h = 0 /\ Len(text[bubble]) \in Nat \cup {Len(text[bubble])}
  BY <1>5, <1>6
<1>8. Head(toPage).kind = "complete" => Len(text[bubble]) + 0 = Length
  BY <1>1, <1>5, <1>6, <1>7
<1> QED BY <1>1, <1>3, <1>4, <1>6, <1>8 DEF Ended

(* A token in the bubble of the moment is one of its own. *)
LEMMA ShownToken ==
    ASSUME TypeOK, ShownInv, bubble # 0, pending # bubble,
           text' = [text EXCEPT ![bubble] = Append(text[bubble], bubble)],
           UNCHANGED <<turns, bubble, look, awaiting, pending>>
    PROVE  ShownInv'
<1>1. /\ bubble \in Turns /\ bubble <= turns /\ turns \in Nat
      /\ text \in [Turns -> Seq(Turns)]
  BY BoundsAssumption DEF TypeOK, Turns
<1>2. text[bubble] \in Seq(Turns) /\ look[bubble] = "streaming"
  BY <1>1 DEF ShownInv
<1>3. ASSUME NEW t \in Turns
      PROVE  /\ \A i \in 1..Len(text'[t]) : text'[t][i] = t
             /\ look'[t] = "complete" => Len(text'[t]) = Length
             /\ t > turns' => text'[t] = <<>> /\ look'[t] = "none"
  <2>1. CASE t = bubble
    <3>1. /\ Len(text'[t]) = Len(text[t]) + 1
          /\ text'[t][Len(text[t]) + 1] = t
          /\ \A i \in 1..Len(text[t]) : text'[t][i] = text[t][i]
          /\ Len(text[t]) \in Nat
      BY <1>1, <1>2, <2>1, AppendFacts
    <3>2. \A i \in 1..Len(text[t]) : text[t][i] = t
      BY DEF ShownInv
    <3>3. \A i \in 1..Len(text'[t]) : text'[t][i] = t
      BY <3>1, <3>2
    <3>4. look'[t] = "streaming"
      BY <1>2, <2>1
    <3>5. turns' = turns /\ t <= turns /\ t \in Nat
      BY <1>1, <2>1 DEF Turns
    <3>6. ~(t > turns')
      BY <1>1, <3>5
    <3> QED BY <3>3, <3>4, <3>6
  <2>2. CASE t # bubble
    <3>1. text'[t] = text[t]
      BY <1>1, <2>2
    <3> QED BY <3>1 DEF ShownInv
  <2> QED BY <2>1, <2>2
<1> QED BY <1>2, <1>3 DEF ShownInv

(* OnMessage, one kind of frame after the other. *)
LEMMA MessageAnswer ==
    ASSUME AnswerPre, OnMessage, Calm'
    PROVE  ShownInv' /\ WireInv'
<1> USE BoundsAssumption
<1> DEFINE f == Head(toPage)
           last == Len(toPage)
<1>1. /\ toPage # <<>> /\ toPage' = Tail(toPage) /\ ready' = "open"
      /\ proxy' = proxy /\ turns' = turns /\ ready = "open"
  BY DEF OnMessage, user, socket
<1>2. TypeOK /\ ShownInv /\ Frames' = Frames
  BY DEF AnswerPre, OnMessage, user, Frames
<1>3. /\ toPage \in Seq(Frames) /\ last \in Nat \ {0} /\ f \in Frames
      /\ Len(toPage') = last - 1 /\ f = toPage[1]
      /\ \A i \in 1..Len(toPage') : toPage'[i] = toPage[i + 1]
  <2>1. toPage \in Seq(Frames)
    BY <1>2 DEF TypeOK
  <2> QED BY <1>1, <2>1, TailFacts
<1>4. \/ Quiet
      \/ bubble # 0 /\ pending # bubble /\ (Sent \/ Streaming \/ Ended)
  BY <1>1 DEF AnswerPre, WireInv
<1>5. PICK n \in Nat \ {0} : n = last
  BY <1>3
<1>6. CASE f.kind = "welcome" /\ OnWelcome
  <2>0. ~late' /\ pending' = 0 /\ UNCHANGED view
    BY <1>6, Zenon DEF OnWelcome, Calm
  <2>1. UNCHANGED <<bubble, look, text>>
    BY <2>0 DEF view
  <2>2. CASE pending # 0
    <3>1. bubble = pending
      BY <1>6, <2>0, <2>2, Zenon DEF OnWelcome
    <3>2. Quiet /\ bubble # 0
      BY <1>4, <2>2, <3>1
    <3>3. text[bubble] = <<>> /\ awaiting
      BY <1>2, <3>1, <3>2 DEF ShownInv
    <3>4. toProxy' = <<bubble>> /\ awaiting'
      BY <1>6, <2>2, <3>1, <3>2 DEF OnWelcome, Posts, Quiet
    <3>5. OnlyWelcome'
      BY <1>1, <1>2, <3>2, OnlyWelcomeFacts DEF Quiet
    <3>6. Sent'
      BY <1>1, <2>1, <3>2, <3>3, <3>4, <3>5 DEF Sent, Quiet
    <3>7. WireInv'
      BY <2>0, <2>1, <3>2, <3>6 DEF WireInv
    <3>8. ShownInv'
      BY <1>1, <1>2, <2>0, <2>1, <3>2, <3>4 DEF ShownInv
    <3> QED BY <3>7, <3>8
  <2>3. CASE pending = 0
    <3>1. UNCHANGED <<toProxy, awaiting>>
      BY <1>6, <2>3 DEF OnWelcome
    <3>2. ShownInv'
      BY <1>1, <1>2, <2>0, <2>1, <3>1, ShownStays
    <3>3. CASE Quiet
      <4>1. Quiet'
        BY <1>1, <1>2, <3>1, <3>3, OnlyWelcomeFacts DEF Quiet
      <4> QED BY <3>2, <4>1 DEF WireInv
    <3>4. CASE bubble # 0 /\ Sent
      <4>1. Sent'
        BY <1>1, <1>2, <2>1, <3>1, <3>4, OnlyWelcomeFacts DEF Sent
      <4> QED BY <2>0, <2>1, <3>2, <3>4, <4>1 DEF WireInv
    <3>5. CASE bubble # 0 /\ (Streaming \/ Ended)
      <4>1. Streaming' \/ Ended'
        BY <1>6, <1>1, <1>2, <2>1, <3>1, <3>5, StreamTail
      <4> QED BY <2>0, <2>1, <3>2, <3>5, <4>1 DEF WireInv
    <3> QED BY <1>4, <3>3, <3>4, <3>5
  <2> QED BY <2>2, <2>3
<1>7. CASE f.kind = "auditing" /\ OnStatus(f)
  <2>1. UNCHANGED <<bubble, text, look, awaiting, pending, toProxy>>
    BY <1>7 DEF OnStatus
  <2>2. ShownInv'
    BY <1>1, <1>2, <2>1, ShownStays
  <2>3. bubble # 0 /\ pending # bubble /\ (Streaming \/ Ended)
    BY <1>1, <1>2, <1>4, <1>7, OnlyWelcomeFacts DEF Quiet, Sent
  <2>4. Streaming' \/ Ended'
    BY <1>7, <1>1, <1>2, <2>1, <2>3, StreamTail
  <2> QED BY <2>1, <2>2, <2>3, <2>4 DEF WireInv
<1>8. CASE f.kind = "token" /\ OnToken(f)
  <2>1. UNCHANGED <<bubble, look, awaiting, pending, toProxy>>
    BY <1>8 DEF OnToken
  <2>2. bubble # 0 /\ pending # bubble /\ (Streaming \/ Ended)
    BY <1>1, <1>2, <1>4, <1>8, OnlyWelcomeFacts DEF Quiet, Sent
  <2>3. text' = [text EXCEPT ![bubble] = Append(text[bubble], f.q)]
    BY <1>8, <2>2 DEF OnToken
  <2>4. f.q = bubble /\ (Streaming' \/ Ended')
    BY <1>8, <1>1, <1>2, <2>1, <2>2, <2>3, TokenTail
  <2>5. ShownInv'
    BY <1>1, <1>2, <2>1, <2>2, <2>3, <2>4, ShownToken
  <2> QED BY <2>1, <2>2, <2>4, <2>5 DEF WireInv
<1>9. CASE f.kind \in {"complete", "error"}
  <2>1. bubble # 0 /\ (Streaming \/ Ended)
    BY <1>1, <1>2, <1>4, <1>9, OnlyWelcomeFacts DEF Quiet, Sent
  <2>2. /\ toProxy = <<>> /\ proxy.state = "idle" /\ n = 1
        /\ f.kind = "complete" => Len(text[bubble]) = Length
    BY <1>1, <1>2, <1>5, <1>9, <2>1, LastFrame
  <2>3. toPage' = <<>>
    BY <1>1, <1>3, <1>5, <2>2
  <2>4. /\ \/ f.kind = "complete" /\ Resolve("complete", "complete")
           \/ Resolve("removed", "interrupted")
        /\ toProxy' = toProxy
    BY <1>9 DEF OnMessage, OnComplete, OnError
  <2>5. ShownInv'
    BY <1>1, <1>2, <2>1, <2>2, <2>4, ShownResolved
  <2>6. Quiet'
    <3>1. OnlyWelcome'
      BY <2>3, EmptyFacts DEF OnlyWelcome
    <3> QED BY <1>1, <2>2, <2>4, <3>1 DEF Quiet
  <2> QED BY <2>5, <2>6 DEF WireInv
<1> QED BY <1>6, <1>7, <1>8, <1>9 DEF OnMessage

(* The proxy takes the question, streams the answer and ends it. *)
LEMMA ProxyAnswer ==
    ASSUME AnswerPre, Proxy
    PROVE  ShownInv' /\ WireInv'
<1> USE BoundsAssumption
<1>1. /\ UNCHANGED <<user, socket, awaiting, view, pending>> /\ ready = "open"
  BY DEF Proxy, Welcome, Serve, Stream, Finish, Rest
<1>2. /\ UNCHANGED <<turns, audits, text, look, bubble, awaiting, pending>>
      /\ ready' = "open"
  BY <1>1 DEF user, socket, view
<1>3. TypeOK /\ ShownInv
  BY DEF AnswerPre
<1>4. ShownInv'
  BY <1>2, <1>3, ShownStays
<1>5. \/ Quiet
      \/ bubble # 0 /\ pending # bubble /\ (Sent \/ Streaming \/ Ended)
  BY <1>1 DEF AnswerPre, WireInv
<1>6. PICK n \in Nat : n = Len(toPage)
  BY <1>3 DEF TypeOK
<1>7. bubble # 0 => bubble \in Turns
  BY <1>3 DEF TypeOK, Turns
<1>8. CASE Welcome
  <2>1. /\ proxy.state = "accepted" /\ Says(Frame("welcome", 0))
        /\ toProxy' = toProxy /\ proxy' = [proxy EXCEPT !.state = "idle"]
    BY <1>8 DEF Welcome
  <2>2. proxy'.state = "idle"
    BY <1>3, <2>1 DEF TypeOK
  <2>3. \/ Quiet
        \/ bubble # 0 /\ pending # bubble /\ Sent
    BY <1>5, <2>1 DEF Streaming, Ended
  <2>4. OnlyWelcome'
    BY <1>3, <2>1, <2>3, FrameFacts, OnlyWelcomeFacts DEF Quiet, Sent
  <2>5. CASE Quiet
    <3>1. Quiet'
      BY <2>1, <2>2, <2>4, <2>5 DEF Quiet
    <3> QED BY <1>4, <3>1 DEF WireInv
  <2>6. CASE bubble # 0 /\ pending # bubble /\ Sent
    <3>1. Sent'
      BY <1>2, <2>1, <2>2, <2>4, <2>6 DEF Sent
    <3> QED BY <1>2, <1>4, <2>6, <3>1 DEF WireInv
  <2> QED BY <2>3, <2>5, <2>6
<1>9. CASE Serve
  <2> DEFINE q == Head(toProxy)
             serves == [state |-> "serving", serving |-> q, left |-> Length]
  <2>1. /\ proxy.state = "idle" /\ toProxy # <<>> /\ toProxy' = Tail(toProxy)
        /\ \/ q \notin audits /\ proxy' = serves /\ UNCHANGED toPage
           \/ q \in audits /\ proxy' = serves /\ Says(Frame("auditing", q))
           \/ q \in audits /\ Says(Frame("error", q)) /\ UNCHANGED proxy
    BY <1>9 DEF Serve
  <2>2. bubble # 0 /\ pending # bubble /\ Sent
    BY <1>5, <2>1 DEF Quiet, Streaming, Ended
  <2>3. q = bubble /\ toProxy' = <<>> /\ OnlyWelcome
    BY <2>1, <2>2 DEF Sent
  <2>4. text'[bubble'] = <<>> /\ Len(text'[bubble']) = 0
    BY <1>2, <2>2, EmptyFacts DEF Sent
  <2>5. CASE proxy' = serves /\ UNCHANGED toPage
    <3>1. Carries(n, n)'
      <4>1. Carries(n, n)
        BY <1>3, <1>6, <2>3, OnlyWelcomeFacts
      <4> QED BY <1>2, <2>5, <4>1 DEF Carries
    <3>2. proxy'.state = "serving" /\ proxy'.serving = bubble'
          /\ proxy'.left = Length
      BY <1>2, <2>3, <2>5
    <3>3. n = Len(toPage') /\ n \in 0..n /\ 0 + (n - n) + Length = Length
      BY <1>6, <2>5
    <3>4. Streaming'
      BY <2>3, <2>4, <3>1, <3>2, <3>3 DEF Streaming
    <3> QED BY <1>2, <1>4, <2>2, <3>4 DEF WireInv
  <2>6. CASE proxy' = serves /\ Says(Frame("auditing", q)) /\ q \in audits
    <3>1. Len(toPage') = n + 1 /\ Carries(n + 1, n + 1)'
      BY <1>3, <1>6, <2>3, <2>6, FrameFacts, OnlyWelcomeFacts
    <3>2. proxy'.state = "serving" /\ proxy'.serving = bubble'
          /\ proxy'.left = Length
      BY <1>2, <2>3, <2>6
    <3>3. n + 1 \in 0..(n + 1) /\ 0 + ((n + 1) - (n + 1)) + Length = Length
      OBVIOUS
    <3>4. Streaming'
      BY <2>3, <2>4, <3>1, <3>2, <3>3 DEF Streaming
    <3> QED BY <1>2, <1>4, <2>2, <3>4 DEF WireInv
  <2>7. CASE Says(Frame("error", q)) /\ UNCHANGED proxy
    <3>1. Frame("error", q) \in Frames /\ Frame("error", q).kind = "error"
      BY <1>7, <2>2, <2>3, FrameFacts
    <3>2. /\ Len(toPage') = n + 1 /\ toPage'[n + 1] = Frame("error", q)
          /\ toPage' # <<>> /\ Carries(n, n)'
      BY <1>3, <1>6, <2>3, <2>7, <3>1, OnlyWelcomeFacts
    <3>3. (n + 1) - 1 = n /\ n \in 0..n
      OBVIOUS
    <3>4. proxy'.state = "idle"
      BY <2>1, <2>7
    <3>5. Ended'
      BY <2>3, <3>1, <3>2, <3>3, <3>4 DEF Ended
    <3> QED BY <1>2, <1>4, <2>2, <3>5 DEF WireInv
  <2> QED BY <2>1, <2>5, <2>6, <2>7
<1>10. ASSUME Stream \/ Finish
       PROVE  /\ bubble # 0 /\ pending # bubble /\ bubble \in Turns
              /\ proxy.serving = bubble /\ toProxy' = <<>>
              /\ \E h \in 0..n :
                    /\ Carries(h, n)
                    /\ Len(text[bubble]) + (n - h) + proxy.left = Length
  <2>1. proxy.state = "serving" /\ toProxy' = toProxy
    BY <1>10 DEF Stream, Finish
  <2>2. bubble # 0 /\ pending # bubble /\ Streaming
    BY <1>5, <2>1 DEF Quiet, Sent, Ended
  <2> QED BY <1>6, <1>7, <2>1, <2>2 DEF Streaming
<1>11. CASE Stream
  <2>1. PICK h \in 0..n :
            /\ Carries(h, n)
            /\ Len(text[bubble]) + (n - h) + proxy.left = Length
    BY <1>10, <1>11
  <2> DEFINE f == Frame("token", bubble)
  <2>2. f \in Frames /\ f.kind = "token" /\ f.q = bubble
    BY <1>10, <1>11, FrameFacts
  <2>3. Says(f) /\ proxy' = [proxy EXCEPT !.left = proxy.left - 1]
        /\ proxy.state = "serving"
    BY <1>10, <1>11 DEF Stream
  <2>4. Len(toPage') = n + 1 /\ Carries(h, n + 1)'
    BY <1>2, <1>3, <1>6, <2>1, <2>2, <2>3, CarriesGrows
  <2>5. proxy'.state = "serving" /\ proxy'.serving = bubble'
        /\ proxy'.left = proxy.left - 1 /\ proxy.left \in Nat
    BY <1>2, <1>3, <1>10, <1>11, <2>3 DEF TypeOK
  <2>6. Len(text'[bubble']) = Len(text[bubble]) /\ Len(text[bubble]) \in Nat
    BY <1>2, <1>3, <1>10, <1>11 DEF TypeOK
  <2>7. h \in 0..(n + 1)
        /\ Len(text'[bubble']) + ((n + 1) - h) + proxy'.left = Length
    <3>1. h \in 0..(n + 1)
      OBVIOUS
    <3>2. PICK a, b \in Nat : a = Len(text[bubble]) /\ b = proxy.left
      BY <2>5, <2>6
    <3>3. a + (n - h) + b = Length
      BY <2>1, <3>2
    <3>4. a + ((n + 1) - h) + (b - 1) = Length
      BY <3>3
    <3> QED BY <2>5, <2>6, <3>1, <3>2, <3>4
  <2>8. Streaming'
    BY <1>10, <1>11, <2>4, <2>5, <2>7 DEF Streaming
  <2> QED BY <1>2, <1>4, <1>10, <1>11, <2>8 DEF WireInv
<1>12. CASE Finish
  <2>1. PICK h \in 0..n :
            /\ Carries(h, n)
            /\ Len(text[bubble]) + (n - h) + proxy.left = Length
    BY <1>10, <1>12
  <2>2. PICK k \in {"complete", "error"} :
            /\ Says(Frame(k, bubble))
            /\ k = "complete" => proxy.left = 0
    BY <1>10, <1>12 DEF Finish
  <2> DEFINE f == Frame(k, bubble)
  <2>3. f \in Frames /\ f.kind = k
    BY <1>10, <1>12, FrameFacts
  <2>4. Len(toPage') = n + 1 /\ toPage'[n + 1] = f /\ toPage' # <<>>
        /\ Carries(h, n)'
    BY <1>2, <1>3, <1>6, <2>1, <2>2, <2>3, CarriesGrows
  <2>5. proxy'.state = "idle"
    BY <1>12 DEF Finish
  <2>6. Len(text'[bubble']) = Len(text[bubble]) /\ Len(text[bubble]) \in Nat
    BY <1>2, <1>3, <1>10, <1>12 DEF TypeOK
  <2>7. (n + 1) - 1 = n
    OBVIOUS
  <2>8. k = "complete" => Len(text'[bubble']) + (n - h) = Length
    BY <2>1, <2>2, <2>6
  <2>9. Ended'
    BY <1>10, <1>12, <2>1, <2>3, <2>4, <2>5, <2>7, <2>8 DEF Ended
  <2> QED BY <1>2, <1>4, <1>10, <1>12, <2>9 DEF WireInv
<1> QED BY <1>8, <1>9, <1>11, <1>12 DEF Proxy

(* The connection is lost: the wait of the moment ends. *)
LEMMA CloseAnswer ==
    ASSUME TypeOK, ShownInv, OnClose, UNCHANGED <<turns, pending>>
    PROVE  ShownInv'
<1>1. CASE awaiting /\ bubble # 0
  BY <1>1, ShownResolved DEF OnClose, OnError
<1>2. CASE ~(awaiting /\ bubble # 0)
  BY <1>2, ShownStays DEF OnClose, view
<1> QED BY <1>1, <1>2

LEMMA SameAnswer ==
    ASSUME AnswerPre,
           UNCHANGED <<turns, ready, awaiting, pending, toProxy, toPage, proxy,
                       text, look, bubble>>
    PROVE  ShownInv' /\ WireInv'
<1>1. ShownInv'
  BY ShownStays DEF AnswerPre
<1>2. WireInv'
  BY DEF AnswerPre, WireInv, Quiet, Sent, Streaming, Ended, OnlyWelcome, Carries
<1> QED BY <1>1, <1>2

LEMMA AnswerNext == TypeOK /\ FreshInv /\ AnswerInv /\ [Next]_vars => AnswerInv'
<1> SUFFICES ASSUME TypeOK, FreshInv, AnswerInv, [Next]_vars, Calm'
             PROVE  ShownInv' /\ WireInv'
  BY DEF AnswerInv
<1>1. AnswerPre
  BY CalmBefore DEF AnswerInv, AnswerPre
<1>2. CASE SubmitQuery \/ StartAudit
  <2>1. PICK audit \in BOOLEAN :
            Ask(audit) /\ (audit => ~awaiting)
    BY <1>2 DEF SubmitQuery, StartAudit
  <2>2. ~impatient' /\ impatient' = (impatient \/ (awaiting /\ ~audit))
    BY <2>1 DEF Ask, Calm
  <2>3. ~awaiting
    BY <2>1, <2>2, Zenon
  <2> QED BY <1>1, <2>1, <2>3, AskAnswer
<1>3. CASE Reconnect
  <2>1. ready' = "connecting" /\ UNCHANGED <<user, awaiting, view, pending>>
    BY <1>3 DEF Reconnect, Connect
  <2>2. ShownInv'
    BY <1>1, <2>1, ShownStays DEF AnswerPre, user, view
  <2> QED BY <2>1, <2>2 DEF WireInv
<1>4. CASE OnMessage
  BY <1>1, <1>4, MessageAnswer
<1>5. CASE OnOpen
  <2>1. /\ UNCHANGED <<user, awaiting, view, pending, toProxy, toPage>>
        /\ toProxy = <<>> /\ toPage = <<>>
        /\ proxy' = [proxy EXCEPT !.state = "accepted"]
    BY <1>5 DEF OnOpen, FreshInv
  <2>2. ShownInv'
    BY <1>1, <2>1, ShownStays DEF AnswerPre, user, view
  <2>3. proxy'.state = "accepted"
    BY <2>1 DEF TypeOK
  <2>4. OnlyWelcome'
    BY <2>1, EmptyFacts DEF OnlyWelcome
  <2>5. Quiet'
    BY <2>1, <2>3, <2>4 DEF Quiet
  <2> QED BY <2>2, <2>5 DEF WireInv
<1>6. CASE OpenTimesOut \/ Closing
  <2>1. ready' = "closing" /\ UNCHANGED <<user, awaiting, view, pending>>
    BY <1>6 DEF OpenTimesOut, Closing
  <2>2. ShownInv'
    BY <1>1, <2>1, ShownStays DEF AnswerPre, user, view
  <2> QED BY <2>1, <2>2 DEF WireInv
<1>7. CASE Closed
  <2>1. ready' = "closed" /\ OnClose /\ UNCHANGED <<user, pending>>
    BY <1>7 DEF Closed
  <2>2. ShownInv'
    BY <1>1, <2>1, CloseAnswer DEF AnswerPre, user
  <2> QED BY <2>1, <2>2 DEF WireInv
<1>8. CASE StaleCloses
  <2>1. /\ OnClose /\ UNCHANGED <<user, ready, pending, wires>>
        /\ ~cut' /\ cut' = (cut \/ (awaiting /\ bubble # 0))
    BY <1>8 DEF StaleCloses, Calm
  <2>2. ~(awaiting /\ bubble # 0)
    BY <2>1, Zenon
  <2>3. UNCHANGED <<view, awaiting>>
    BY <2>1, <2>2 DEF OnClose
  <2>4. UNCHANGED <<turns, ready, pending, toProxy, toPage, proxy, text, look, bubble>>
    BY <2>1, <2>3 DEF user, wires, view
  <2> QED BY <1>1, <2>3, <2>4, SameAnswer
<1>9. CASE Proxy
  BY <1>1, <1>9, ProxyAnswer
<1>10. CASE UNCHANGED vars
  <2>1. UNCHANGED <<turns, ready, awaiting, pending, toProxy, toPage, proxy, text,
                    look, bubble>>
    BY <1>10 DEF vars, user, socket, wires, view
  <2> QED BY <1>1, <2>1, SameAnswer
<1> QED BY <1>2, <1>3, <1>4, <1>5, <1>6, <1>7, <1>8, <1>9, <1>10 DEF Next, User, Idle

-----------------------------------------------------------------------------
(***************************************************************************)
(* Theorems                                                                *)
(***************************************************************************)

LEMMA Steps == (Init => IInv) /\ (IInv /\ [Next]_vars => IInv')
<1>1. Init => FreshInv /\ SentInv /\ AnswerInv
  <2> SUFFICES ASSUME Init PROVE FreshInv /\ SentInv /\ AnswerInv
    OBVIOUS
  <2>1. FreshInv
    BY DEF Init, FreshInv
  <2>2. SentInv
    BY DEF Init, SentInv
  <2>3. ShownInv
    <3>1. bubble = 0 /\ awaiting = FALSE
      BY DEF Init
    <3>2. \A t \in Turns : text[t] = <<>> /\ look[t] = "none"
      BY DEF Init
    <3> QED BY <3>1, <3>2, EmptyFacts DEF ShownInv
  <2>4. WireInv
    BY DEF Init, WireInv
  <2> QED BY <2>1, <2>2, <2>3, <2>4 DEF AnswerInv
<1> QED BY <1>1, TypeInit, TypeNext, FreshNext, SentNext, AnswerNext DEF IInv

(* The inductive invariant holds at the start, and every step keeps it. *)
THEOREM Inductive == Spec => []IInv
BY Steps, PTL DEF Spec

(* Every variable of page and proxy stays in its range, whatever comes and  *)
(* in whatever order.                                                       *)
THEOREM TypeCorrect == Spec => []TypeOK
<1>1. IInv => TypeOK
  BY DEF IInv
<1> QED BY <1>1, Inductive, PTL

(* No question is sent twice: neither by reconnecting while one is queued   *)
(* nor by a welcome on every new socket (doSend, onWelcome).                *)
THEOREM SentOnly == Spec => []SentOnce
<1>1. IInv => SentOnce
  BY DEF IInv, SentInv, SentOnce
<1> QED BY <1>1, Inductive, PTL

(* Though no frame names its question, a bubble shows its own answer and a  *)
(* complete one shows all of it, unless one of the three things of Calm     *)
(* has happened (onToken, onComplete, onClose).                             *)
THEOREM Own == Spec => []OwnAnswer
<1>1. IInv => OwnAnswer
  BY DEF IInv, AnswerInv, ShownInv, Calm, OwnAnswer
<1> QED BY <1>1, Inductive, PTL
=============================================================================
