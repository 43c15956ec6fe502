--------------------------- MODULE WsProxyProofs ---------------------------
(***************************************************************************)
(* What WsProxy guarantees for any number of messages, tokens and pings,   *)
(* any kinds of message and any deployment.                                *)
(***************************************************************************)
EXTENDS WsProxyInv, TLAPS

LEMMA AppendFacts ==
    ASSUME NEW S, NEW w \in Seq(S), NEW x \in S
    PROVE  /\ Append(w, x) \in Seq(S)
           /\ Append(w, x) # <<>>
           /\ Len(Append(w, x)) = Len(w) + 1
           /\ Append(w, x)[Len(w) + 1] = x
           /\ \A i \in 1..Len(w) : Append(w, x)[i] = w[i]
  OBVIOUS

LEMMA TailFacts ==
    ASSUME NEW S, NEW w \in Seq(S), w # <<>>
    PROVE  /\ Head(w) = w[1] /\ Head(w) \in S
           /\ Tail(w) \in Seq(S)
           /\ Len(w) \in Nat \ {0}
           /\ Len(Tail(w)) = Len(w) - 1
           /\ \A i \in 1..Len(Tail(w)) : Tail(w)[i] = w[i + 1]
  OBVIOUS

LEMMA KindFacts ==
    /\ {"welcome", "ping", "pong", "refused", "auditing", "status", "token",
        "complete", "timeout", "failed"} = Kinds
    /\ TerminalKinds = {"complete", "timeout", "failed"}
    /\ FailureKinds = {"timeout", "failed"}
    /\ ReplyKinds = {"pong", "refused"}
  BY DEF Kinds, IdleKinds, ReplyKinds, FailureKinds, TerminalKinds

LEMMA FrameTypes ==
    /\ \A k \in Kinds : Notice(k) \in Frame
    /\ \A q, s \in Nat, it \in Nat \X Nat : Token(q, s, it) \in Frame
    /\ \A q \in Nat : Status(q) \in Frame
    /\ \A q, c \in Nat : Complete(q, c) \in Frame
    /\ \A k \in Kinds, q \in Nat : Failure(k, q) \in Frame
  BY KindFacts DEF Notice, Token, Status, Complete, Failure, Frame, NoItem

LEMMA FrameKinds ==
    /\ \A k : Notice(k).kind = k /\ Notice(k).q = 0
    /\ \A q : Status(q).kind = "status" /\ Status(q).q = q
    /\ \A q, s, it : /\ Token(q, s, it).kind = "token"
                     /\ Token(q, s, it).q = q /\ Token(q, s, it).n = s
                     /\ Token(q, s, it).item = it
    /\ \A q, c : /\ Complete(q, c).kind = "complete"
                 /\ Complete(q, c).q = q /\ Complete(q, c).n = c
    /\ \A k, q : Failure(k, q).kind = k /\ Failure(k, q).q = q
  BY DEF Notice, Token, Status, Complete, Failure

-----------------------------------------------------------------------------
(***************************************************************************)
(* Type correctness.  That qid stays within 1..MaxMessages needs the count *)
(* of the messages still to be handled.                                    *)
(***************************************************************************)

TC == TypeOK /\ CountInv

LEMMA TypeInit == Init => TC
  <1> SUFFICES ASSUME Init PROVE TC
    OBVIOUS
  <1>1. out \in Frame /\ out.kind = "welcome"
    BY FrameTypes, FrameKinds, KindFacts DEF Init
  <1>2. /\ worker \in [Queries -> {"none", "running", "raised", "ended", "failed"}]
        /\ produced \in [Queries -> 0..MaxTokens]
        /\ queue \in [Queries -> Seq(Item)]
    BY BoundsAssumption DEF Init
  <1>3. /\ inbox \in Seq(MessageKinds) /\ wire \in Seq(Frame)
        /\ lock \in Seq({"endpoint", "keepalive"})
    BY DEF Init
  <1>4. /\ settings \in Settings /\ sent \in 0..MaxMessages
        /\ qid \in 0..MaxMessages /\ seq \in Nat
    BY BoundsAssumption, DeploymentsAssumption DEF Init
  <1>5. TypeOK
    BY <1>1, <1>2, <1>3, <1>4 DEF Init, TypeOK
  <1>6. CountInv
    BY <1>1, KindFacts DEF Init, CountInv, SendingKind, InQuery, Streaming
  <1>7. QED BY <1>5, <1>6 DEF TC

LEMMA FrameOfType ==
    ASSUME TypeOK, NEW it \in Item
    PROVE  /\ FrameOf(it) \in Frame
           /\ FrameOf(it).kind \in {"token", "complete", "failed"}
  <1>1. qid \in Nat /\ seq \in Nat /\ it.kind \in {"token", "exc", "done"}
        /\ it.item \in Nat \X Nat
    BY BoundsAssumption DEF TypeOK, Item
  <1>2. CASE it.kind = "token"
    BY <1>1, <1>2, FrameTypes, FrameKinds DEF FrameOf
  <1>3. CASE it.kind = "exc"
    <2>1. FrameOf(it) = Failure("failed", qid)
      BY <1>3 DEF FrameOf
    <2>2. "failed" \in Kinds
      BY KindFacts
    <2>3. Failure("failed", qid) \in Frame
      BY <1>1, <2>2, FrameTypes
    <2>4. Failure("failed", qid).kind = "failed"
      BY FrameKinds
    <2>5. QED BY <2>1, <2>3, <2>4
  <1>4. CASE it.kind = "done"
    BY <1>1, <1>4, FrameTypes, FrameKinds DEF FrameOf
  <1>5. QED BY <1>1, <1>2, <1>3, <1>4

LEMMA SendTypes ==
    ASSUME TypeOK, NEW f \in Frame, Send(f)
    PROVE  /\ out' \in Frame /\ out' = f /\ pc' = "send"
           /\ lock' \in Seq({"endpoint", "keepalive"})
  BY AppendFacts DEF TypeOK, Send, SendBehind

LEMMA WrittenTypes ==
    ASSUME TypeOK, NEW f \in Frame, Written(f)
    PROVE  wire' \in Seq(Frame) /\ wsOpen' \in BOOLEAN
  BY AppendFacts DEF TypeOK, Written

LEMMA RaisesTypes ==
    ASSUME TypeOK, Raises
    PROVE  wire' \in Seq(Frame) /\ wsOpen' \in BOOLEAN
  BY DEF TypeOK, Raises

LEMMA ReleasedTypes ==
    ASSUME TypeOK, NEW t, Holds(t), Released
    PROVE  lock' \in Seq({"endpoint", "keepalive"})
  BY TailFacts DEF TypeOK, Holds, Released

LEMMA RunQueryTypes ==
    ASSUME TC, NEW l \in Seq({"endpoint", "keepalive"}), RunQuery(l),
           qid < MaxMessages
    PROVE  /\ qid' = qid + 1 /\ qid' \in 0..MaxMessages /\ qid' >= 1
           /\ seq' = 0 /\ seq' \in Nat
            /\ expired' = FALSE /\ active' = TRUE
           /\ pc' = "send" /\ out' \in Frame /\ out'.kind = "status"
           /\ lock' \in Seq({"endpoint", "keepalive"})
  <1>1. Status(qid + 1) \in Frame /\ Status(qid + 1).kind = "status"
    BY FrameTypes, FrameKinds, BoundsAssumption DEF TC, TypeOK
  <1>2. qid + 1 \in 0..MaxMessages /\ qid + 1 >= 1
    BY BoundsAssumption DEF TC, TypeOK
  <1>3. Append(l, "endpoint") \in Seq({"endpoint", "keepalive"})
    BY AppendFacts
  <1>4. QED
    BY <1>1, <1>2, <1>3 DEF RunQuery, SendBehind

LEMMA FailureTypes ==
    \A k \in FailureKinds, q \in Nat :
        Failure(k, q) \in Frame /\ Failure(k, q).kind = k
  BY FrameTypes, FrameKinds, KindFacts

LEMMA MockStreamType ==
    ASSUME NEW q \in Queries PROVE MockStream(q) \in Seq(Item)
  <1>1. \A i \in 1..(MaxTokens + 1) : Delta(q, i) \in Item /\ Done \in Item
    BY BoundsAssumption DEF Delta, Done, Item, NoItem, Queries
  <1>2. \A i \in 1..(MaxTokens + 1) :
          (IF i <= MaxTokens THEN Delta(q, i) ELSE Done) \in Item
    BY <1>1
  <1>3. QED BY <1>2, BoundsAssumption DEF MockStream

LEMMA NoticeTypes ==
    \A k \in Kinds : Notice(k) \in Frame /\ Notice(k).kind = k
  BY FrameTypes, FrameKinds

LEMMA TypeNext == TC /\ [Next]_vars => TC'
  <1> SUFFICES ASSUME TC, [Next]_vars PROVE TC'
    OBVIOUS
  <1> USE BoundsAssumption, KindFacts
      DEF TC, TypeOK, CountInv, SendingKind, InQuery, Streaming, Sending,
          clientVars, flags, stream, bridge
  <1>1. CASE Accept
    BY <1>1, NoticeTypes, SendTypes DEF Accept
  <1>2. CASE WelcomeSent
    BY <1>2, WrittenTypes, RaisesTypes, ReleasedTypes DEF WelcomeSent
  <1>3. CASE LoopEnds
    BY <1>3 DEF LoopEnds, Finally
  <1>4. CASE Receive
    <2>1. /\ inbox' \in Seq(MessageKinds) /\ Len(inbox') = Len(inbox) - 1
          /\ Len(inbox) \in Nat \ {0}
      BY <1>4, TailFacts DEF Receive
    <2> DEFINE m == Head(inbox)
    <2>2. CASE \E k \in {"refused", "pong", "auditing"} : Reply(Notice(k))
      <3>1. /\ out' \in Frame /\ pc' = "send"
            /\ out'.kind \in {"refused", "pong", "auditing"}
            /\ lock' \in Seq({"endpoint", "keepalive"})
        BY <2>2, NoticeTypes, SendTypes DEF Reply
      <3>2. QED
        BY <1>4, <2>1, <2>2, <3>1 DEF Receive, Reply
    <2>3. CASE m = "pong" /\ UNCHANGED <<pc, out, lock, flags, stream, ka>>
      BY <1>4, <2>1, <2>3 DEF Receive
    <2>4. CASE /\ \/ authed' = TRUE /\ UNCHANGED <<pc, out, lock>>
                  \/ Send(Notice("refused")) /\ UNCHANGED authed
               /\ UNCHANGED <<active, closed, stream, ka>>
      <3>1. CASE Send(Notice("refused"))
        <4>1. /\ out' \in Frame /\ pc' = "send" /\ out'.kind = "refused"
              /\ lock' \in Seq({"endpoint", "keepalive"})
          BY <3>1, NoticeTypes, SendTypes
        <4>2. QED
          BY <1>4, <2>1, <2>4, <4>1 DEF Receive
      <3>2. CASE UNCHANGED <<pc, out, lock>>
        <4>1. authed' \in BOOLEAN
          BY <2>4
        <4>2. QED
          BY <1>4, <2>1, <2>4, <3>2, <4>1 DEF Receive
      <3>3. QED BY <2>4, <3>1, <3>2
    <2>5. CASE RunQuery(lock) /\ UNCHANGED <<authed, closed, ka>>
      <3>1. qid < MaxMessages
        BY <2>1
      <3>2. /\ qid' = qid + 1 /\ qid' \in 0..MaxMessages /\ qid' >= 1
            /\ seq' = 0 /\ seq' \in Nat
            /\ expired' = FALSE /\ active' = TRUE
            /\ pc' = "send" /\ out' \in Frame /\ out'.kind = "status"
            /\ lock' \in Seq({"endpoint", "keepalive"})
        BY <2>5, <3>1, RunQueryTypes
      <3>3. QED
        <4>1. TypeOK'
          BY <1>4, <2>1, <2>5, <3>2 DEF Receive
        <4>2. CountInv'
          BY <1>4, <2>1, <2>5, <3>2 DEF Receive
        <4>3. QED BY <4>1, <4>2
    <2>6. CASE Finally /\ UNCHANGED <<out, authed, active, stream>>
      BY <1>4, <2>1, <2>6 DEF Receive, Finally
    <2>7. QED
      BY <1>4, <2>2, <2>3, <2>4, <2>5, <2>6
      DEF Receive, HandleMessage
  <1>5. CASE ReplySent
    BY <1>5, WrittenTypes, RaisesTypes, ReleasedTypes DEF ReplySent
  <1>6. CASE AuditingSent
    <2>1. CASE Written(out) /\ RunQuery(Tail(lock))
      <3>1. qid < MaxMessages /\ Tail(lock) \in Seq({"endpoint", "keepalive"})
        BY <1>6, TailFacts DEF AuditingSent, Holds
      <3>2. /\ qid' = qid + 1 /\ qid' \in 0..MaxMessages /\ qid' >= 1
            /\ seq' = 0 /\ seq' \in Nat
            /\ expired' = FALSE /\ active' = TRUE
            /\ pc' = "send" /\ out' \in Frame /\ out'.kind = "status"
            /\ lock' \in Seq({"endpoint", "keepalive"})
        BY <2>1, <3>1, RunQueryTypes
      <3>3. QED
        <4>1. TypeOK'
          BY <1>6, <2>1, <3>2, WrittenTypes DEF AuditingSent
        <4>2. CountInv'
          BY <1>6, <2>1, <3>2 DEF AuditingSent
        <4>3. QED BY <4>1, <4>2
    <2>2. CASE Raises /\ Released /\ pc' = "recv" /\ UNCHANGED <<out, active, stream>>
      BY <1>6, <2>2, RaisesTypes, ReleasedTypes DEF AuditingSent
    <2>3. QED BY <1>6, <2>1, <2>2 DEF AuditingSent
  <1>7. CASE StatusSent
    <2>1. qid \in Queries
      BY <1>7 DEF StatusSent, Queries
    <2>2. /\ worker' \in [Queries -> {"none", "running", "raised", "ended", "failed"}]
          /\ produced' \in [Queries -> 0..MaxTokens]
          /\ queue' \in [Queries -> Seq(Item)]
      <3>1. CASE UNCHANGED bridge
        BY <3>1
      <3>2. CASE StartStream /\ settings.mock
        <4>1. MockStream(qid) \in Seq(Item) /\ MaxTokens \in 0..MaxTokens
          BY <2>1, MockStreamType, BoundsAssumption
        <4>2. QED BY <3>2, <4>1 DEF StartStream
      <3>3. CASE StartStream /\ ~settings.mock
        BY <3>3 DEF StartStream
      <3>4. QED BY <1>7, <3>1, <3>2, <3>3 DEF StatusSent
    <2>3. /\ wire' \in Seq(Frame) /\ wsOpen' \in BOOLEAN
          /\ lock' \in Seq({"endpoint", "keepalive"})
          /\ active' \in BOOLEAN /\ pc' \in {"poll", "recv"}
      <3>1. lock' \in Seq({"endpoint", "keepalive"})
        BY <1>7, ReleasedTypes DEF StatusSent, Sending
      <3>2. CASE Written(out) /\ StartStream /\ pc' = "poll" /\ UNCHANGED active
        BY <3>1, <3>2, WrittenTypes
      <3>3. CASE Raises /\ Leave /\ UNCHANGED bridge
        BY <3>1, <3>3, RaisesTypes DEF Leave
      <3>4. QED BY <1>7, <3>2, <3>3 DEF StatusSent
    <2>4. QED
      BY <1>7, <2>2, <2>3 DEF StatusSent
  <1>8. CASE TakeItem
    <2>1. qid \in Queries
      BY <1>8 DEF TakeItem, Queries
    <2>2. /\ Head(queue[qid]) \in Item
          /\ queue' \in [Queries -> Seq(Item)]
      BY <1>8, <2>1, TailFacts DEF TakeItem
    <2>3. /\ out' \in Frame /\ pc' = "send"
          /\ out'.kind \in {"token", "complete", "failed"}
          /\ lock' \in Seq({"endpoint", "keepalive"})
      BY <1>8, <2>2, FrameOfType, SendTypes DEF TakeItem
    <2>4. QED
      BY <1>8, <2>2, <2>3 DEF TakeItem
  <1>9. CASE WaitForItem
    BY <1>9 DEF WaitForItem
  <1>10. CASE StreamTimesOut
    <2>1. /\ Failure("timeout", qid) \in Frame
          /\ Failure("timeout", qid).kind = "timeout"
      BY FailureTypes
    <2>2. /\ out' \in Frame /\ pc' = "send" /\ out'.kind = "timeout"
          /\ lock' \in Seq({"endpoint", "keepalive"})
      BY <1>10, <2>1, SendTypes DEF StreamTimesOut
    <2>3. QED
      BY <1>10, <2>2 DEF StreamTimesOut
  <1>11. CASE TokenSent
    <2>1. /\ wire' \in Seq(Frame) /\ wsOpen' \in BOOLEAN
          /\ lock' \in Seq({"endpoint", "keepalive"})
      BY <1>11, WrittenTypes, RaisesTypes, ReleasedTypes DEF TokenSent
    <2>2. /\ active' \in BOOLEAN /\ closed' \in BOOLEAN
          /\ seq' \in Nat /\ pc' \in {"poll", "recv"}
      <3>1. CASE Written(out) /\ seq' = seq + 1 /\ pc' = "poll"
                 /\ UNCHANGED <<active, closed>>
        BY <3>1
      <3>2. CASE Raises /\ closed' = TRUE /\ Leave /\ UNCHANGED seq
        BY <3>2 DEF Leave
      <3>3. QED BY <1>11, <3>1, <3>2 DEF TokenSent
    <2>3. QED
      BY <1>11, <2>1, <2>2 DEF TokenSent
  <1>12. CASE CompleteSent
    BY <1>12, WrittenTypes, RaisesTypes, ReleasedTypes DEF CompleteSent, Leave
  <1>13. CASE FailureSent
    BY <1>13, WrittenTypes, RaisesTypes, ReleasedTypes DEF FailureSent, Leave
  <1>14. CASE Expire
    BY <1>14 DEF Expire
  <1>15. CASE KeepaliveWakes
    BY <1>15 DEF KeepaliveWakes
  <1>16. CASE KeepalivePings
    BY <1>16, NoticeTypes, WrittenTypes, RaisesTypes, ReleasedTypes DEF KeepalivePings
  <1>17. CASE Client
    <2>1. /\ inbox' \in Seq(MessageKinds) /\ sent' \in 0..MaxMessages
          /\ clientUp' \in BOOLEAN
          /\ \/ Len(inbox') = Len(inbox) /\ sent' = sent
             \/ Len(inbox') = Len(inbox) + 1 /\ sent' = sent + 1
      <3>1. CASE ClientLeaves
        BY <3>1 DEF ClientLeaves
      <3>2. ASSUME NEW m \in ClientKinds, ClientSends(m)
            PROVE  /\ inbox' \in Seq(MessageKinds)
                   /\ Len(inbox') = Len(inbox) + 1
                   /\ sent' = sent + 1 /\ sent' \in 0..MaxMessages
                   /\ clientUp' = clientUp
        <4>1. m \in MessageKinds
          BY KindsAssumption
        <4>2. QED
          BY <3>2, <4>1, AppendFacts DEF ClientSends
      <3>3. QED BY <1>17, <3>1, <3>2 DEF Client
    <2>2. QED
      BY <1>17, <2>1 DEF Client
  <1>19. CASE UNCHANGED vars
    BY <1>19 DEF vars
  <1>18. ASSUME NEW q \in Queries, Worker(q) PROVE TC'
    <2>1. /\ Delta(q, produced[q] + 1) \in Item
          /\ Exc \in Item /\ Done \in Item
      BY DEF Delta, Exc, Done, Item, NoItem, Queries
    <2>2. /\ worker' \in [Queries -> {"none", "running", "raised", "ended", "failed"}]
          /\ produced' \in [Queries -> 0..MaxTokens]
          /\ queue' \in [Queries -> Seq(Item)]
      <3>1. \A it \in Item : Append(queue[q], it) \in Seq(Item)
        BY AppendFacts
      <3>2. CASE WorkerToken(q)
        BY <2>1, <3>1, <3>2 DEF WorkerToken, Put
      <3>3. CASE WorkerRaises(q)
        BY <2>1, <3>1, <3>3 DEF WorkerRaises, Put
      <3>4. CASE WorkerEnds(q)
        BY <2>1, <3>1, <3>4 DEF WorkerEnds, Put
      <3>5. QED BY <1>18, <3>2, <3>3, <3>4 DEF Worker
    <2>3. QED
      BY <1>18, <2>2 DEF Worker
  <1>20. QED
    BY <1>1, <1>2, <1>3, <1>4, <1>5, <1>6, <1>7, <1>8, <1>9, <1>10, <1>11,
       <1>12, <1>13, <1>14, <1>15, <1>16, <1>17, <1>18, <1>19
    DEF Next, Endpoint, Keepalive, Terminated

THEOREM TypeCorrect == Spec => []TypeOK
  <1>1. TC => TypeOK
    BY DEF TC
  <1>2. QED BY TypeInit, TypeNext, <1>1, PTL DEF Spec

-----------------------------------------------------------------------------
(***************************************************************************)
(* ControlInv: the flags of the connection against where the tasks are.    *)
(***************************************************************************)

LEMMA NoticeKinds == \A k : Notice(k).kind = k
  BY FrameKinds

LEMMA TakeItemFacts ==
    ASSUME TC, TakeItem
    PROVE  /\ qid \in Queries
           /\ queue[qid] \in Seq(Item) /\ queue[qid] # <<>>
           /\ Head(queue[qid]) \in Item
           /\ out' = FrameOf(Head(queue[qid]))
           /\ out'.kind \in {"token", "complete", "failed"}
  <1>1. qid \in Queries
    BY DEF TC, TypeOK, CountInv, Queries, InQuery, Streaming, TakeItem
  <1>2. queue[qid] \in Seq(Item) /\ queue[qid] # <<>>
    BY <1>1 DEF TC, TypeOK, TakeItem
  <1>3. Head(queue[qid]) \in Item
    BY <1>2, TailFacts
  <1>4. out' = FrameOf(Head(queue[qid]))
    BY DEF TakeItem, Send, SendBehind
  <1>5. QED
    BY <1>1, <1>2, <1>3, <1>4, FrameOfType DEF TC

LEMMA ControlNext == TC /\ ControlInv /\ [Next]_vars => ControlInv'
  <1> SUFFICES ASSUME TC, ControlInv, [Next]_vars PROVE ControlInv'
    OBVIOUS
  <1> USE KindFacts
      DEF ControlInv, Early, SendingKind, InQuery, Streaming, Sending,
          clientVars, flags, stream, bridge, Send, SendBehind
  <1>1. CASE Accept
    BY <1>1, NoticeKinds DEF Accept
  <1>2. CASE WelcomeSent
    BY <1>2 DEF WelcomeSent, Written, Raises
  <1>3. CASE LoopEnds
    BY <1>3 DEF LoopEnds, Finally
  <1>4. CASE Receive
    <2>1. \A k \in {"refused", "pong", "auditing"} : Reply(Notice(k)) =>
              ControlInv'
      BY <1>4, NoticeKinds DEF Receive, Reply
    <2>2. Send(Notice("refused")) /\ UNCHANGED <<active, closed, stream, ka>> =>
              ControlInv'
      BY <1>4, NoticeKinds DEF Receive
    <2>3. RunQuery(lock) /\ UNCHANGED <<authed, closed, ka>> => ControlInv'
      BY <1>4, FrameKinds DEF Receive, RunQuery
    <2>4. Finally /\ UNCHANGED <<out, authed, active, stream>> => ControlInv'
      BY <1>4 DEF Receive, Finally
    <2>5. UNCHANGED <<pc, out, lock, active, closed, stream, ka>> => ControlInv'
      BY <1>4 DEF Receive
    <2>6. QED
      BY <1>4, <2>1, <2>2, <2>3, <2>4, <2>5 DEF Receive, HandleMessage
  <1>5. CASE ReplySent
    BY <1>5 DEF ReplySent, Written, Raises
  <1>6. CASE AuditingSent
    BY <1>6, FrameKinds DEF AuditingSent, Written, Raises, RunQuery
  <1>7. CASE StatusSent
    BY <1>7 DEF StatusSent, Written, Raises, Leave
  <1>8. CASE TakeItem
    BY <1>8, TakeItemFacts DEF TakeItem
  <1>9. CASE WaitForItem
    BY <1>9 DEF WaitForItem
  <1>10. CASE StreamTimesOut
    BY <1>10, FrameKinds DEF StreamTimesOut
  <1>11. CASE TokenSent
    BY <1>11 DEF TokenSent, Written, Raises, Leave
  <1>12. CASE CompleteSent
    BY <1>12 DEF CompleteSent, Written, Raises, Leave
  <1>13. CASE FailureSent
    BY <1>13 DEF FailureSent, Written, Raises, Leave
  <1>14. CASE Expire
    BY <1>14 DEF Expire
  <1>15. CASE KeepaliveWakes
    BY <1>15 DEF KeepaliveWakes
  <1>16. CASE KeepalivePings
    BY <1>16 DEF KeepalivePings, Written, Raises
  <1>17. CASE Client
    BY <1>17 DEF Client, ClientLeaves, ClientSends
  <1>18. CASE \E q \in Queries : Worker(q)
    BY <1>18 DEF Worker
  <1>19. CASE UNCHANGED vars
    BY <1>19 DEF vars
  <1>20. QED
    BY <1>1, <1>2, <1>3, <1>4, <1>5, <1>6, <1>7, <1>8, <1>9, <1>10, <1>11,
       <1>12, <1>13, <1>14, <1>15, <1>16, <1>17, <1>18, <1>19
    DEF Next, Endpoint, Keepalive, Terminated

-----------------------------------------------------------------------------
(***************************************************************************)
(* LockInv: who is at the send lock, and in which order.                   *)
(***************************************************************************)

LEMMA LockNext == TC /\ ControlInv /\ LockInv /\ [Next]_vars => LockInv'
  <1> SUFFICES ASSUME TC, ControlInv, LockInv, [Next]_vars PROVE LockInv'
    OBVIOUS
  <1> DEFINE Tasks == {"endpoint", "keepalive"}
  <1> USE KindFacts
      DEF LockInv, ControlInv, Early, SendingKind, InQuery, Streaming, Sending,
          clientVars, flags, stream, bridge
  <1>a. lock \in Seq(Tasks)
    BY DEF TC, TypeOK
  <1>b. ASSUME pc # "send", NEW f, Send(f), ka' = ka
        PROVE  /\ pc' = "send" /\ out' = f
               /\ ka' = "ping" => /\ Len(lock') = 2
                                  /\ lock'[1] = "keepalive" /\ lock'[2] = "endpoint"
               /\ ka' # "ping" => Len(lock') = 1 /\ lock'[1] = "endpoint"
    BY <1>a, <1>b, AppendFacts DEF Send, SendBehind
  <1>c. ASSUME pc = "send", Holds("endpoint")
        PROVE  /\ ka = "ping" => Len(Tail(lock)) = 1 /\ Tail(lock)[1] = "keepalive"
               /\ ka # "ping" => Tail(lock) = <<>>
               /\ Tail(lock) \in Seq(Tasks)
               /\ ka = "ping" => out.kind # "status"
    BY <1>a, <1>c, TailFacts DEF Holds
  <1>1. CASE Accept
    BY <1>1, <1>b, NoticeKinds DEF Accept
  <1>2. CASE WelcomeSent
    BY <1>2, <1>c DEF WelcomeSent, Released
  <1>3. CASE LoopEnds
    BY <1>3 DEF LoopEnds, Finally
  <1>5. CASE ReplySent
    BY <1>5, <1>c DEF ReplySent, Released
  <1>7. CASE StatusSent
    BY <1>7, <1>c DEF StatusSent, Leave, Released
  <1>4. CASE Receive
    <2>1. pc = "recv"
      BY <1>4 DEF Receive
    <2>2. \A k \in {"refused", "pong", "auditing"} : Reply(Notice(k)) => LockInv'
      BY <2>1, <1>b, NoticeKinds DEF Reply
    <2>3. Send(Notice("refused")) /\ UNCHANGED <<active, closed, stream, ka>> =>
              LockInv'
      BY <2>1, <1>b, NoticeKinds
    <2>4. RunQuery(lock) /\ UNCHANGED <<authed, closed, ka>> => LockInv'
      <3>1. RunQuery(lock) => Send(Status(qid + 1))
        BY DEF RunQuery, Send
      <3>2. QED BY <2>1, <3>1, <1>b, FrameKinds
    <2>5. Finally /\ UNCHANGED <<out, authed, active, stream>> => LockInv'
      BY DEF Finally
    <2>6. UNCHANGED <<pc, out, lock, active, closed, stream, ka>> => LockInv'
      OBVIOUS
    <2>7. QED
      BY <1>4, <2>2, <2>3, <2>4, <2>5, <2>6 DEF Receive, HandleMessage
  <1>6. CASE AuditingSent
    <2>1. CASE Written(out) /\ RunQuery(Tail(lock))
      <3>1. pc = "send" /\ Holds("endpoint")
        BY <1>6 DEF AuditingSent
      <3>2. /\ pc' = "send" /\ out'.kind = "status" /\ ka' = ka
            /\ lock' = Append(Tail(lock), "endpoint")
        BY <1>6, <2>1, FrameKinds DEF AuditingSent, RunQuery, SendBehind
      <3>3. QED BY <1>c, <3>1, <3>2, AppendFacts
    <2>2. CASE Raises /\ Released /\ pc' = "recv" /\ UNCHANGED <<out, active, stream>>
      BY <1>6, <2>2, <1>c DEF AuditingSent, Released
    <2>3. QED BY <1>6, <2>1, <2>2 DEF AuditingSent
  <1>8. CASE TakeItem
    BY <1>8, TakeItemFacts, <1>b DEF TakeItem
  <1>9. CASE WaitForItem
    BY <1>9 DEF WaitForItem
  <1>10. CASE StreamTimesOut
    BY <1>10, <1>b, FrameKinds DEF StreamTimesOut
  <1>11. CASE TokenSent
    BY <1>11, <1>c DEF TokenSent, Leave, Released
  <1>12. CASE CompleteSent
    BY <1>12, <1>c DEF CompleteSent, Leave, Released
  <1>13. CASE FailureSent
    BY <1>13, <1>c DEF FailureSent, Leave, Released
  <1>14. CASE Expire
    BY <1>14 DEF Expire
  <1>15. CASE KeepaliveWakes
    BY <1>15, <1>a, AppendFacts DEF KeepaliveWakes
  <1>16. CASE KeepalivePings
    BY <1>16, <1>a, TailFacts DEF KeepalivePings, Holds, Released, TC, TypeOK
  <1>17. CASE Client
    BY <1>17 DEF Client
  <1>18. CASE \E q \in Queries : Worker(q)
    BY <1>18 DEF Worker
  <1>19. CASE UNCHANGED vars
    BY <1>19 DEF vars
  <1>20. QED
    BY <1>1, <1>2, <1>3, <1>4, <1>5, <1>6, <1>7, <1>8, <1>9, <1>10, <1>11,
       <1>12, <1>13, <1>14, <1>15, <1>16, <1>17, <1>18, <1>19
    DEF Next, Endpoint, Keepalive, Terminated

-----------------------------------------------------------------------------
(***************************************************************************)
(* OutInv and QueueInv: what is taken from the bridge queue is what the    *)
(* agent produced next.                                                    *)
(***************************************************************************)

LEMMA OutNext == TC /\ ControlInv /\ OutInv /\ QueueInv /\ [Next]_vars => OutInv'
  <1> SUFFICES ASSUME TC, ControlInv, OutInv, QueueInv, [Next]_vars PROVE OutInv'
    OBVIOUS
  <1> USE KindFacts
      DEF OutInv, clientVars, flags, stream, bridge, Sending
  <1>1. CASE Accept
    BY <1>1 DEF Accept, Send, SendBehind
  <1>2. CASE WelcomeSent
    BY <1>2 DEF WelcomeSent
  <1>3. CASE LoopEnds
    BY <1>3 DEF LoopEnds, Finally
  <1>4. CASE Receive
    <2>1. pc = "recv"
      BY <1>4 DEF Receive
    <2>2. \A k \in {"refused", "pong", "auditing"} : Reply(Notice(k)) => OutInv'
      BY DEF Reply, Send, SendBehind
    <2>3. Send(Notice("refused")) => OutInv'
      BY DEF Send, SendBehind
    <2>4. RunQuery(lock) => OutInv'
      BY DEF RunQuery, SendBehind
    <2>5. Finally => OutInv'
      BY DEF Finally
    <2>6. UNCHANGED <<pc, out, lock>> => OutInv'
      BY <2>1
    <2>7. QED
      BY <1>4, <2>2, <2>3, <2>4, <2>5, <2>6 DEF Receive, HandleMessage
  <1>5. CASE ReplySent
    BY <1>5 DEF ReplySent
  <1>6. CASE AuditingSent
    BY <1>6 DEF AuditingSent, RunQuery, SendBehind
  <1>7. CASE StatusSent
    BY <1>7 DEF StatusSent, Leave
  <1>8. CASE TakeItem
    <2> DEFINE it == Head(queue[qid])
    <2>1. out' = FrameOf(it) /\ it = queue[qid][1] /\ 1 \in 1..Len(queue[qid])
      BY <1>8, TakeItemFacts, TailFacts
    <2>2. qid' = qid /\ seq' = seq
      BY <1>8 DEF TakeItem
    <2>3. Reading /\ Taken = seq
      BY <1>8 DEF TakeItem, Reading, Streaming, SendingKind, Taken
    <2>4. CASE it.kind = "token"
      <3>1. it.item = <<qid, seq + 1>>
        BY <2>1, <2>3, <2>4 DEF QueueInv
      <3>2. QED
        BY <2>1, <2>2, <2>4, <3>1 DEF FrameOf
    <2>5. CASE it.kind = "exc"
      BY <2>1, <2>2, <2>5 DEF FrameOf
    <2>6. CASE it.kind = "done"
      BY <2>1, <2>2, <2>6 DEF FrameOf
    <2>7. QED
      BY <1>8, <2>4, <2>5, <2>6, TakeItemFacts DEF Item
  <1>9. CASE WaitForItem
    BY <1>9 DEF WaitForItem
  <1>10. CASE StreamTimesOut
    BY <1>10 DEF StreamTimesOut, Send, SendBehind
  <1>11. CASE TokenSent
    BY <1>11 DEF TokenSent, Leave
  <1>12. CASE CompleteSent
    BY <1>12 DEF CompleteSent, Leave
  <1>13. CASE FailureSent
    BY <1>13 DEF FailureSent, Leave
  <1>14. CASE Expire
    BY <1>14 DEF Expire
  <1>15. CASE KeepaliveWakes
    BY <1>15 DEF KeepaliveWakes
  <1>16. CASE KeepalivePings
    BY <1>16 DEF KeepalivePings
  <1>17. CASE Client
    BY <1>17 DEF Client
  <1>18. CASE \E q \in Queries : Worker(q)
    BY <1>18 DEF Worker
  <1>19. CASE UNCHANGED vars
    BY <1>19 DEF vars
  <1>20. QED
    BY <1>1, <1>2, <1>3, <1>4, <1>5, <1>6, <1>7, <1>8, <1>9, <1>10, <1>11,
       <1>12, <1>13, <1>14, <1>15, <1>16, <1>17, <1>18, <1>19
    DEF Next, Endpoint, Keepalive, Terminated

LEMMA TakenType ==
    ASSUME TC
    PROVE  seq \in Nat /\ Taken \in Nat /\ qid \in Nat
  BY BoundsAssumption DEF TC, TypeOK, Taken

LEMMA QueueNext == TC /\ QueueInv /\ [Next]_vars => QueueInv'
  <1> SUFFICES ASSUME TC, QueueInv, [Next]_vars PROVE QueueInv'
    OBVIOUS
  <1>t. /\ \A q \in Queries : queue[q] \in Seq(Item)
        /\ \A q \in Queries : produced[q] \in Nat
        /\ worker \in [Queries -> {"none", "running", "raised", "ended", "failed"}]
        /\ produced \in [Queries -> 0..MaxTokens]
        /\ queue \in [Queries -> Seq(Item)]
    BY BoundsAssumption DEF TC, TypeOK
  <1>q. Streaming \/ SendingKind({"status"}) => qid \in Queries
    BY TakenType DEF TC, CountInv, TypeOK, InQuery, Queries
  \* A step that leaves the queues alone and ends outside a stream.
  <1>a. ASSUME UNCHANGED <<qid, worker, produced, queue>>,
               ~Reading', ~SendingKind({"status"})'
        PROVE  QueueInv'
    BY <1>a, TakenType DEF QueueInv
  \* A step that takes no part in the query.
  <1>b. ASSUME UNCHANGED <<pc, out, qid, seq, worker, produced, queue>>
        PROVE  QueueInv'
    BY <1>b DEF QueueInv, Reading, Streaming, SendingKind, Taken
  \* The endpoint asks for the lock to send a frame of no stream.
  <1>c. ASSUME UNCHANGED <<qid, worker, produced, queue>>, pc' = "send",
               out'.kind \in {"welcome", "pong", "refused", "auditing",
                             "timeout", "failed", "complete"}
        PROVE  QueueInv'
    BY <1>a, <1>c, KindFacts DEF Reading, Streaming, SendingKind
  <1>d. ASSUME UNCHANGED <<qid, worker, produced, queue>>,
               pc' \in {"recv", "ended", "rejected"}
        PROVE  QueueInv'
    BY <1>a, <1>d DEF Reading, Streaming, SendingKind
  <1>e. ASSUME NEW l, RunQuery(l), UNCHANGED bridge
        PROVE  QueueInv'
    <2>1. /\ qid' = qid + 1 /\ seq' = 0 /\ pc' = "send"
          /\ out'.kind = "status"
          /\ UNCHANGED <<worker, produced, queue>>
      BY <1>e, FrameKinds DEF RunQuery, SendBehind, bridge
    <2>2. ~Reading'
      BY <2>1, KindFacts DEF Reading, Streaming, SendingKind
    <2>3. ASSUME NEW q \in Queries, q > qid'  \/ q = qid'
          PROVE  worker'[q] = "none" /\ queue'[q] = <<>> /\ produced'[q] = 0
      <3>1. q > qid
        BY <2>1, <2>3, TakenType DEF Queries
      <3>2. QED BY <2>1, <3>1 DEF QueueInv
    <2>4. QED BY <2>1, <2>2, <2>3 DEF QueueInv
  <1> USE DEF clientVars, flags, stream, bridge
  <1>1. CASE Accept
    BY <1>1, <1>c, <1>d, NoticeKinds DEF Accept, Send, SendBehind
  <1>2. CASE WelcomeSent
    BY <1>2, <1>d DEF WelcomeSent
  <1>3. CASE LoopEnds
    BY <1>3, <1>d DEF LoopEnds, Finally
  <1>4. CASE Receive
    <2>0. pc = "recv" /\ UNCHANGED bridge
      BY <1>4 DEF Receive
    <2>1. \A k \in {"refused", "pong", "auditing"} : Reply(Notice(k)) => QueueInv'
      BY <1>c, <2>0, NoticeKinds DEF Reply, Send, SendBehind
    <2>2. Send(Notice("refused")) /\ UNCHANGED stream => QueueInv'
      BY <1>c, <2>0, NoticeKinds DEF Send, SendBehind
    <2>3. RunQuery(lock) => QueueInv'
      BY <1>e, <2>0
    <2>4. Finally /\ UNCHANGED stream => QueueInv'
      BY <1>d, <2>0 DEF Finally
    <2>5. UNCHANGED <<pc, out, stream>> => QueueInv'
      BY <1>d, <2>0
    <2>6. QED
      BY <1>4, <2>1, <2>2, <2>3, <2>4, <2>5 DEF Receive, HandleMessage
  <1>5. CASE ReplySent
    BY <1>5, <1>d DEF ReplySent
  <1>6. CASE AuditingSent
    BY <1>6, <1>d, <1>e DEF AuditingSent
  <1>7. CASE StatusSent
    <2>1. CASE Raises /\ Leave /\ UNCHANGED bridge
      BY <1>7, <2>1, <1>d DEF StatusSent, Leave
    <2>2. CASE Written(out) /\ StartStream /\ pc' = "poll"
      <3>1. /\ qid \in Queries /\ qid' = qid /\ seq' = 0
            /\ worker[qid] = "none" /\ queue[qid] = <<>> /\ produced[qid] = 0
        BY <1>7, <1>q DEF StatusSent, QueueInv, SendingKind, Sending
      <3>2. Taken' = 0 /\ ~SendingKind({"status"})'
        BY <2>2, <3>1 DEF Taken, SendingKind
      <3>3. CASE settings.mock
        <4>1. /\ queue'[qid] = MockStream(qid) /\ worker'[qid] = "ended"
          BY <2>2, <3>1, <3>3, <1>t DEF StartStream
        <4>2. \A j \in 1..Len(MockStream(qid)) :
                  MockStream(qid)[j].kind = "token" =>
                      MockStream(qid)[j].item = <<qid, 0 + j>>
          <5>1. Len(MockStream(qid)) = MaxTokens + 1
            BY BoundsAssumption DEF MockStream
          <5>2. \A j \in 1..(MaxTokens + 1) :
                    MockStream(qid)[j] = IF j <= MaxTokens THEN Delta(qid, j) ELSE Done
            BY DEF MockStream
          <5>3. QED
            BY <5>1, <5>2, BoundsAssumption DEF Delta, Done
        <4>3. \A q \in Queries : q # qid =>
                  worker'[q] = worker[q] /\ queue'[q] = queue[q] /\ produced'[q] = produced[q]
          BY <2>2, <3>3, <1>t DEF StartStream
        <4>4. \A q \in Queries : q > qid =>
                  worker'[q] = "none" /\ queue'[q] = <<>> /\ produced'[q] = 0
          BY <4>3, TakenType DEF QueueInv, Queries
        <4>5. QED
          BY <3>1, <3>2, <4>1, <4>2, <4>4 DEF QueueInv
      <3>4. CASE ~settings.mock
        <4>1. /\ queue' = queue /\ produced' = produced
              /\ \A q \in Queries : q # qid => worker'[q] = worker[q]
          BY <2>2, <3>4, <1>t DEF StartStream
        <4>2. \A q \in Queries : q > qid =>
                  worker'[q] = "none" /\ queue'[q] = <<>> /\ produced'[q] = 0
          BY <4>1, TakenType DEF QueueInv, Queries
        <4>3. Len(queue'[qid']) = 0
          BY <3>1, <4>1
        <4>4. QED
          BY <3>1, <3>2, <4>1, <4>2, <4>3 DEF QueueInv
      <3>5. QED BY <3>3, <3>4
    <2>3. QED BY <1>7, <2>1, <2>2 DEF StatusSent
  <1>8. CASE TakeItem
    <2>1. /\ qid \in Queries /\ qid' = qid /\ seq' = seq /\ pc' = "send"
          /\ worker' = worker /\ produced' = produced
          /\ queue' = [queue EXCEPT ![qid] = Tail(@)]
          /\ out'.kind \in {"token", "complete", "failed"}
      BY <1>8, TakeItemFacts DEF TakeItem, Send, SendBehind
    <2>2. Reading /\ Taken = seq
      BY <1>8 DEF TakeItem, Reading, Streaming, SendingKind, Taken
    <2>3. ~SendingKind({"status"})'
      BY <2>1 DEF SendingKind
    <2>4. Reading' => Taken' = seq + 1
      BY <2>1, KindFacts DEF Reading, Streaming, SendingKind, Taken
    <2>5. /\ queue'[qid] = Tail(queue[qid])
          /\ \A q \in Queries : q # qid => queue'[q] = queue[q]
      BY <2>1, <1>t
    <2>6. /\ Len(queue[qid]) \in Nat
          /\ Len(queue'[qid]) = Len(queue[qid]) - 1
          /\ \A j \in 1..Len(queue'[qid]) : queue'[qid][j] = queue[qid][j + 1]
      BY <2>5, <1>8, TakeItemFacts, TailFacts
    <2>7. ASSUME NEW j \in 1..Len(queue'[qid]), queue'[qid][j].kind = "token"
          PROVE  queue'[qid][j].item = <<qid, seq + 1 + j>>
      <3>1. j + 1 \in 1..Len(queue[qid]) /\ j \in Nat
        BY <2>6
      <3>2. queue[qid][j + 1].item = <<qid, seq + (j + 1)>>
        BY <2>2, <2>6, <2>7, <3>1 DEF QueueInv
      <3>3. seq + (j + 1) = seq + 1 + j
        BY <3>1, TakenType
      <3>4. QED BY <2>6, <3>2, <3>3
    <2>8. worker[qid] = "running" => seq + 1 + Len(queue'[qid]) = produced[qid]
      BY <2>2, <2>6, TakenType DEF QueueInv
    <2>9. \A q \in Queries : q > qid =>
              worker'[q] = "none" /\ queue'[q] = <<>> /\ produced'[q] = 0
      BY <2>1, <2>5, TakenType DEF QueueInv, Queries
    <2>10. QED
      BY <2>1, <2>3, <2>4, <2>7, <2>8, <2>9 DEF QueueInv
  <1>9. CASE WaitForItem
    BY <1>9 DEF WaitForItem, QueueInv, Reading, Streaming, SendingKind, Taken
  <1>10. CASE StreamTimesOut
    BY <1>10, <1>c, FrameKinds DEF StreamTimesOut, Send, SendBehind
  <1>11. CASE TokenSent
    <2>1. CASE seq' = seq + 1 /\ pc' = "poll"
      <3>1. /\ UNCHANGED <<qid, worker, produced, queue>>
            /\ Reading /\ Taken = seq + 1
        BY <1>11, KindFacts
        DEF TokenSent, Sending, Reading, Streaming, SendingKind, Taken
      <3>2. Taken' = seq + 1 /\ ~SendingKind({"status"})'
        BY <2>1 DEF SendingKind, Taken
      <3>3. QED BY <3>1, <3>2 DEF QueueInv
    <2>2. CASE Leave
      BY <1>11, <2>2, <1>d DEF TokenSent, Leave
    <2>3. QED BY <1>11, <2>1, <2>2 DEF TokenSent
  <1>12. CASE CompleteSent
    BY <1>12, <1>d DEF CompleteSent, Leave
  <1>13. CASE FailureSent
    BY <1>13, <1>d DEF FailureSent, Leave
  <1>14. CASE Expire
    BY <1>14, <1>b DEF Expire
  <1>15. CASE KeepaliveWakes
    BY <1>15, <1>b DEF KeepaliveWakes
  <1>16. CASE KeepalivePings
    BY <1>16, <1>b DEF KeepalivePings
  <1>17. CASE Client
    BY <1>17, <1>b DEF Client
  <1>18. ASSUME NEW q \in Queries, Worker(q) PROVE QueueInv'
    <2>1. /\ UNCHANGED <<pc, out, qid, seq>>
          /\ WorkerToken(q) \/ WorkerRaises(q) \/ WorkerEnds(q)
      BY <1>18 DEF Worker
    <2>2. /\ Reading' = Reading /\ Taken' = Taken
          /\ SendingKind({"status"})' = SendingKind({"status"})
      BY <2>1 DEF Reading, Streaming, SendingKind, Taken
    <2>3. worker[q] # "none"
      BY <2>1 DEF WorkerToken, WorkerRaises, WorkerEnds
    <2>4. PICK it \in {Delta(q, produced[q] + 1), Exc, Done} :
              /\ queue' = [queue EXCEPT ![q] = Append(@, it)]
              /\ it.kind = "token" => /\ it.item = <<q, produced[q] + 1>>
                                      /\ worker[q] = "running"
              /\ worker'[q] = "running" =>
                    /\ worker[q] = "running"
                    /\ produced'[q] = produced[q] + 1
      <3>1. CASE WorkerToken(q)
        BY <3>1, <1>t DEF WorkerToken, Put, Delta
      <3>2. CASE WorkerRaises(q)
        BY <3>2, <1>t DEF WorkerRaises, Put, Exc
      <3>3. CASE WorkerEnds(q)
        BY <3>3, <1>t DEF WorkerEnds, Put, Done
      <3>4. QED BY <2>1, <3>1, <3>2, <3>3
    <2>5. \A p \in Queries : p # q =>
              worker'[p] = worker[p] /\ queue'[p] = queue[p] /\ produced'[p] = produced[p]
      BY <2>1, <1>t DEF WorkerToken, WorkerRaises, WorkerEnds, Put
    <2>6. \A p \in Queries : p > qid' \/ (p = qid' /\ SendingKind({"status"})') =>
              worker'[p] = "none" /\ queue'[p] = <<>> /\ produced'[p] = 0
      BY <2>1, <2>2, <2>3, <2>5 DEF QueueInv
    <2>7. Reading => qid \in Queries
      BY <1>q DEF Reading
    <2>8. ASSUME Reading, q # qid
          PROVE  /\ queue'[qid] = queue[qid] /\ worker'[qid] = worker[qid]
                 /\ produced'[qid] = produced[qid]
      BY <2>5, <2>7, <2>8
    <2>9. ASSUME Reading, q = qid
          PROVE  /\ \A j \in 1..Len(queue'[qid]) : queue'[qid][j].kind = "token" =>
                        queue'[qid][j].item = <<qid, Taken + j>>
                 /\ worker'[qid] = "running" => Taken + Len(queue'[qid]) = produced'[qid]
      <3>1. it \in Item
        BY DEF Item, Delta, Exc, Done, NoItem, Queries, TC, TypeOK
      <3>2. queue'[q] = Append(queue[q], it)
        BY <2>4, <1>t
      <3>3. /\ Len(queue'[q]) = Len(queue[q]) + 1
            /\ queue'[q][Len(queue[q]) + 1] = it
            /\ \A j \in 1..Len(queue[q]) : queue'[q][j] = queue[q][j]
            /\ Len(queue[q]) \in Nat
        BY <3>1, <3>2, <1>t, AppendFacts
      <3>4. worker[q] = "running" => Taken + Len(queue[q]) = produced[q]
        BY <2>9 DEF QueueInv
      <3>5. ASSUME NEW j \in 1..Len(queue'[q]), queue'[q][j].kind = "token"
            PROVE  queue'[q][j].item = <<q, Taken + j>>
        <4>1. CASE j \in 1..Len(queue[q])
          BY <2>9, <3>3, <3>5, <4>1 DEF QueueInv
        <4>2. CASE j = Len(queue[q]) + 1
          <5>1. it.item = <<q, produced[q] + 1>> /\ worker[q] = "running"
            BY <2>4, <3>3, <3>5, <4>2
          <5>2. produced[q] + 1 = Taken + j
            BY <3>3, <3>4, <4>2, <5>1, TakenType
          <5>3. QED BY <3>3, <4>2, <5>1, <5>2
        <4>3. QED BY <3>3, <4>1, <4>2
      <3>6. worker'[q] = "running" => Taken + Len(queue'[q]) = produced'[q]
        BY <2>4, <3>3, <3>4, TakenType, <1>t
      <3>7. QED BY <2>9, <3>5, <3>6
    <2>10. QED
      BY <2>1, <2>2, <2>6, <2>8, <2>9 DEF QueueInv
  <1>19. CASE UNCHANGED vars
    BY <1>19, <1>b DEF vars
  <1>20. QED
    BY <1>1, <1>2, <1>3, <1>4, <1>5, <1>6, <1>7, <1>8, <1>9, <1>10, <1>11,
       <1>12, <1>13, <1>14, <1>15, <1>16, <1>17, <1>18, <1>19
    DEF Next, Endpoint, Keepalive, Terminated

-----------------------------------------------------------------------------
(***************************************************************************)
(* WireInv: the frames written against what the endpoint is doing.         *)
(***************************************************************************)

LEMMA OutFacts ==
    ASSUME TC, OutInv, pc = "send"
    PROVE  /\ out.kind \in {"welcome", "pong", "refused", "auditing"} =>
                out = Notice(out.kind) /\ out.q = 0
           /\ out.kind = "status" => out = Status(qid) /\ out.q = qid
           /\ out.kind = "token" =>
                /\ out = Token(qid, seq, <<qid, seq + 1>>)
                /\ out.q = qid /\ out.n = seq
           /\ out.kind = "complete" => out = Complete(qid, seq) /\ out.q = qid
           /\ out.kind \in FailureKinds =>
                out = Failure(out.kind, qid) /\ out.q = qid
  BY FrameKinds, KindFacts DEF OutInv

(* A frame that is written is the last one, and the others stay; when the  *)
(* client is gone or the connection is closed nothing changes.             *)
LEMMA WireWritten ==
    ASSUME TC, NEW f \in Frame, Written(f)
    PROVE  /\ clientUp /\ ~closed =>
                /\ wire' = Append(wire, f) /\ wire' # <<>>
                /\ LastFrame(wire') = f /\ wire'[Len(wire')] = f
                /\ Len(wire') = Len(wire) + 1 /\ Len(wire) \in Nat
           /\ ~(clientUp /\ ~closed) => wire' = wire
           /\ \A i \in 1..Len(wire') :
                wire'[i] = f \/ \E j \in 1..Len(wire) : j = i /\ wire'[i] = wire[j]
  <1>1. wire \in Seq(Frame)
    BY DEF TC, TypeOK
  <1>2. CASE clientUp /\ ~closed
    BY <1>1, <1>2, AppendFacts DEF Written, LastFrame
  <1>3. CASE ~(clientUp /\ ~closed)
    BY <1>3 DEF Written
  <1>4. QED BY <1>2, <1>3

LEMMA WireNext ==
    /\ TC /\ ControlInv /\ LockInv /\ OutInv /\ QueueInv /\ WireInv
    /\ [Next]_vars
    => WireInv'
  <1> SUFFICES ASSUME TC, ControlInv, LockInv, OutInv, QueueInv, WireInv,
                      [Next]_vars
               PROVE  WireInv'
    OBVIOUS
  <1>t. /\ out \in Frame /\ qid \in Nat /\ seq \in Nat
        /\ \A i \in 1..Len(wire) : wire[i].q \in Nat
        /\ Notice("ping") \in Frame /\ Notice("ping").kind = "ping"
        /\ Notice("ping").q = 0
    <2>1. out \in Frame /\ qid \in Nat /\ seq \in Nat
      BY TakenType DEF TC, TypeOK
    <2>2. \A i \in 1..Len(wire) : wire[i] \in Frame
      BY DEF TC, TypeOK
    <2>3. \A f \in Frame : f.q \in Nat
      BY DEF Frame
    <2>4. Notice("ping") \in Frame
      BY FrameTypes, KindFacts
    <2>5. QED BY <2>1, <2>2, <2>3, <2>4, FrameKinds
  \* Nothing is written and the endpoint is where it was.
  <1>a. ASSUME UNCHANGED <<wire, qid, seq, pc, out>>, clientUp' => clientUp
        PROVE  WireInv'
    BY <1>a DEF WireInv, Early, Streaming, SendingKind
  \* Nothing is written and the endpoint moves within, or outside, a stream.
  <1>b. ASSUME UNCHANGED <<wire, qid, seq, clientUp>>, Streaming' = Streaming,
               ~SendingKind({"status"})',
               ~Early' /\ pc' # "ended" => ~Early /\ pc # "ended"
        PROVE  WireInv'
    BY <1>b DEF WireInv
  \* The write raises: the client is gone.
  <1>c. ASSUME Raises, UNCHANGED <<qid, clientUp>>, ~SendingKind({"status"})'
        PROVE  WireInv'
    BY <1>c DEF WireInv, Raises
  <1>d. ASSUME NEW l, RunQuery(l), UNCHANGED <<wire, clientUp>>,
               pc = "recv"
        PROVE  WireInv'
    <2>1. /\ qid' = qid + 1 /\ pc' = "send" /\ out'.kind = "status"
      BY <1>d, FrameKinds DEF RunQuery, SendBehind
    <2>2. ~Streaming' /\ ~Early' /\ ~Streaming /\ ~Early
      BY <1>d, <2>1, KindFacts DEF Streaming, Early, SendingKind
    <2>3. \A i \in 1..Len(wire) : wire[i].q < qid'
      BY <2>1, <1>t DEF WireInv
    <2>4. QED BY <1>d, <2>1, <2>2, <2>3, <1>t DEF WireInv
  \* The endpoint's frame is written.
  <1>e. ASSUME Sending(Kinds), Written(out), UNCHANGED clientUp, qid' \in Nat,
               qid' >= qid, SendingKind({"status"})' => qid' > qid,
               Streaming' =>
                  /\ out.kind \in {"status", "token"} /\ out.q = qid'
                  /\ seq' = (IF out.kind = "token" THEN out.n + 1 ELSE 0),
               ~Streaming' => out.kind \notin {"status", "token"} \/ ~clientUp
        PROVE  WireInv'
    <2>1. out.q <= qid /\ out.q \in Nat
      <3>1. pc = "send" /\ out.kind \in Kinds
        BY <1>e DEF Sending
      <3>2. out.q = 0 \/ out.q = qid
        BY <3>1, OutFacts, KindFacts, FrameKinds DEF OutInv
      <3>3. QED BY <3>2, <1>t
    <2>2. clientUp => ~closed
      BY <1>e DEF ControlInv, Sending
    <2>3. \A i \in 1..Len(wire') : wire'[i].q <= qid /\ wire'[i].q \in Nat
      BY <1>e, <1>t, <2>1, WireWritten DEF WireInv
    <2>4. \A i \in 1..Len(wire') :
              wire'[i].q <= qid' /\ (SendingKind({"status"})' => wire'[i].q < qid')
      BY <1>e, <1>t, <2>3
    <2>5. clientUp => wire' # <<>> /\ LastFrame(wire') = out
      BY <1>e, <1>t, <2>2, WireWritten
    <2>6. clientUp /\ ~Streaming' => ~Answering(wire')
      BY <1>e, <2>5 DEF Answering
    <2>7. clientUp /\ Streaming' => /\ Answering(wire')
                                    /\ LastFrame(wire').q = qid'
                                    /\ TokensOut(wire') = seq'
      BY <1>e, <2>5 DEF Answering, TokensOut
    <2>8. QED BY <1>e, <2>4, <2>5, <2>6, <2>7 DEF WireInv
  <1> USE KindFacts
      DEF clientVars, flags, stream, bridge, Streaming, SendingKind, Early
  <1>1. CASE Accept
    BY <1>1, <1>b, NoticeKinds DEF Accept, Send, SendBehind
  <1>2. CASE WelcomeSent
    <2>1. /\ UNCHANGED <<qid, clientUp>> /\ pc' \in {"recv", "ended"}
          /\ Sending(Kinds) /\ out.kind = "welcome"
      BY <1>2 DEF WelcomeSent, Sending
    <2>2. QED BY <1>2, <2>1, <1>c, <1>e, <1>t DEF WelcomeSent
  <1>3. CASE LoopEnds
    BY <1>3, <1>b DEF LoopEnds, Finally
  <1>4. CASE Receive
    <2>0. pc = "recv" /\ UNCHANGED <<wire, clientUp>>
      BY <1>4 DEF Receive
    <2>1. \A k \in {"refused", "pong", "auditing"} : Reply(Notice(k)) => WireInv'
      BY <1>b, <2>0, NoticeKinds DEF Reply, Send, SendBehind
    <2>2. Send(Notice("refused")) /\ UNCHANGED stream => WireInv'
      BY <1>b, <2>0, NoticeKinds DEF Send, SendBehind
    <2>3. RunQuery(lock) => WireInv'
      BY <1>d, <2>0
    <2>4. Finally /\ UNCHANGED stream => WireInv'
      BY <1>b, <2>0 DEF Finally
    <2>5. UNCHANGED <<pc, out, stream>> => WireInv'
      BY <1>a, <2>0
    <2>6. QED
      BY <1>4, <2>1, <2>2, <2>3, <2>4, <2>5 DEF Receive, HandleMessage
  <1>5. CASE ReplySent
    <2>1. /\ UNCHANGED <<qid, clientUp>> /\ pc' = "recv"
          /\ Sending(Kinds) /\ out.kind \in ReplyKinds
      BY <1>5 DEF ReplySent, Sending
    <2>2. QED BY <1>5, <2>1, <1>c, <1>e, <1>t DEF ReplySent
  <1>6. CASE AuditingSent
    <2>1. UNCHANGED clientUp /\ Sending(Kinds) /\ out.kind = "auditing"
      BY <1>6 DEF AuditingSent, Sending
    <2>2. CASE Written(out) /\ RunQuery(Tail(lock))
      <3>1. qid' = qid + 1 /\ pc' = "send" /\ out'.kind = "status"
        BY <2>2, FrameKinds DEF RunQuery, SendBehind
      <3>2. QED BY <2>1, <2>2, <3>1, <1>e, <1>t
    <2>3. CASE Raises /\ pc' = "recv" /\ UNCHANGED stream
      BY <2>1, <2>3, <1>c
    <2>4. QED BY <1>6, <2>2, <2>3 DEF AuditingSent
  <1>7. CASE StatusSent
    <2>1. /\ UNCHANGED <<qid, seq, clientUp>> /\ Sending(Kinds)
          /\ out.kind = "status" /\ out.q = qid /\ seq = 0
      BY <1>7, OutFacts DEF StatusSent, Sending, QueueInv
    <2>2. CASE Written(out) /\ pc' = "poll"
      BY <2>1, <2>2, <1>e, <1>t
    <2>3. CASE Raises /\ Leave
      BY <2>1, <2>3, <1>c DEF Leave
    <2>4. QED BY <1>7, <2>2, <2>3 DEF StatusSent
  <1>8. CASE TakeItem
    BY <1>8, <1>b, TakeItemFacts DEF TakeItem, Send, SendBehind
  <1>9. CASE WaitForItem
    BY <1>9, <1>b DEF WaitForItem
  <1>10. CASE StreamTimesOut
    BY <1>10, <1>b, FrameKinds DEF StreamTimesOut, Send, SendBehind
  <1>11. CASE TokenSent
    <2>1. /\ UNCHANGED <<qid, clientUp>> /\ Sending(Kinds)
          /\ out.kind = "token" /\ out.q = qid /\ out.n = seq
      BY <1>11, OutFacts DEF TokenSent, Sending
    <2>2. CASE Written(out) /\ seq' = seq + 1 /\ pc' = "poll"
      BY <2>1, <2>2, <1>e, <1>t
    <2>3. CASE Raises /\ Leave
      BY <2>1, <2>3, <1>c DEF Leave
    <2>4. QED BY <1>11, <2>2, <2>3 DEF TokenSent
  <1>12. CASE CompleteSent
    <2>1. /\ UNCHANGED <<qid, clientUp>> /\ Sending(Kinds)
          /\ out.kind = "complete" /\ pc' = "recv"
      BY <1>12 DEF CompleteSent, Sending, Leave
    <2>2. QED BY <1>12, <2>1, <1>c, <1>e, <1>t DEF CompleteSent
  <1>13. CASE FailureSent
    <2>1. /\ UNCHANGED <<qid, clientUp>> /\ Sending(Kinds)
          /\ out.kind \in FailureKinds /\ pc' = "recv"
      BY <1>13 DEF FailureSent, Sending, Leave
    <2>2. QED BY <1>13, <2>1, <1>c, <1>e, <1>t DEF FailureSent
  <1>14. CASE Expire
    BY <1>14, <1>a DEF Expire
  <1>15. CASE KeepaliveWakes
    BY <1>15, <1>a DEF KeepaliveWakes
  <1>16. CASE KeepalivePings
    <2>1. /\ UNCHANGED <<qid, seq, pc, out, clientUp, closed>>
          /\ ka = "ping" /\ ~Streaming /\ ~Streaming'
      BY <1>16 DEF KeepalivePings, LockInv
    <2>2. CASE Raises
      BY <2>1, <2>2 DEF Raises, WireInv
    <2>3. CASE Written(Notice("ping"))
      <3>1. SendingKind({"status"}) => 0 < qid
        BY <1>t DEF TC, CountInv, InQuery
      <3>2. \A i \in 1..Len(wire') :
              wire'[i].q <= qid /\ (SendingKind({"status"}) => wire'[i].q < qid)
        BY <1>t, <2>3, <3>1, WireWritten DEF WireInv
      <3>3. clientUp => wire' # <<>> /\ LastFrame(wire').kind = "ping"
        BY <1>t, <2>1, <2>3, WireWritten DEF ControlInv
      <3>4. QED BY <2>1, <3>2, <3>3 DEF WireInv, Answering
    <2>4. QED BY <1>16, <2>2, <2>3 DEF KeepalivePings
  <1>17. CASE Client
    BY <1>17, <1>a DEF Client, ClientLeaves, ClientSends
  <1>18. CASE \E q \in Queries : Worker(q)
    BY <1>18, <1>a DEF Worker
  <1>19. CASE UNCHANGED vars
    BY <1>19, <1>a DEF vars
  <1>20. QED
    BY <1>1, <1>2, <1>3, <1>4, <1>5, <1>6, <1>7, <1>8, <1>9, <1>10, <1>11,
       <1>12, <1>13, <1>14, <1>15, <1>16, <1>17, <1>18, <1>19
    DEF Next, Endpoint, Keepalive, Terminated

-----------------------------------------------------------------------------
(***************************************************************************)
(* AuthInv, and the inductive invariant as a whole.                        *)
(***************************************************************************)

LEMMA AuthNext == TC /\ ControlInv /\ AuthInv /\ [Next]_vars => AuthInv'
  <1> SUFFICES ASSUME TC, ControlInv, AuthInv, [Next]_vars PROVE AuthInv'
    OBVIOUS
  <1> USE DEF clientVars, flags, stream, bridge
  <1>a. ASSUME pc \notin {"accept", "rejected"}, UNCHANGED settings, authed => authed'
        PROVE  AuthInv'
    BY <1>a DEF AuthInv
  <1>b. ASSUME UNCHANGED <<pc, wire, qid, settings, authed>>
        PROVE  AuthInv'
    BY <1>b DEF AuthInv
  <1>1. CASE Accept
    BY <1>1 DEF Accept, AuthInv, ControlInv, Early
  <1>2. CASE WelcomeSent
    BY <1>2, <1>a DEF WelcomeSent, Sending
  <1>3. CASE LoopEnds
    BY <1>3, <1>a DEF LoopEnds
  <1>4. CASE Receive
    <2>1. authed => authed'
      BY <1>4 DEF Receive, HandleMessage, Reply
    <2>2. QED BY <1>4, <2>1, <1>a DEF Receive
  <1>5. CASE ReplySent
    BY <1>5, <1>a DEF ReplySent, Sending
  <1>6. CASE AuditingSent
    BY <1>6, <1>a DEF AuditingSent, Sending
  <1>7. CASE StatusSent
    BY <1>7, <1>a DEF StatusSent, Sending
  <1>8. CASE TakeItem
    BY <1>8, <1>a DEF TakeItem
  <1>9. CASE WaitForItem
    BY <1>9, <1>a DEF WaitForItem
  <1>10. CASE StreamTimesOut
    BY <1>10, <1>a DEF StreamTimesOut
  <1>11. CASE TokenSent
    BY <1>11, <1>a DEF TokenSent, Sending
  <1>12. CASE CompleteSent
    BY <1>12, <1>a DEF CompleteSent, Sending
  <1>13. CASE FailureSent
    BY <1>13, <1>a DEF FailureSent, Sending
  <1>14. CASE Expire
    BY <1>14, <1>b DEF Expire
  <1>15. CASE KeepaliveWakes
    BY <1>15, <1>b DEF KeepaliveWakes
  <1>16. CASE KeepalivePings
    BY <1>16, <1>a DEF KeepalivePings, ControlInv, Early
  <1>17. CASE Client
    BY <1>17, <1>b DEF Client
  <1>18. CASE \E q \in Queries : Worker(q)
    BY <1>18, <1>b DEF Worker
  <1>19. CASE UNCHANGED vars
    BY <1>19, <1>b DEF vars
  <1>20. QED
    BY <1>1, <1>2, <1>3, <1>4, <1>5, <1>6, <1>7, <1>8, <1>9, <1>10, <1>11,
       <1>12, <1>13, <1>14, <1>15, <1>16, <1>17, <1>18, <1>19
    DEF Next, Endpoint, Keepalive, Terminated

LEMMA InvInit == Init => IInv
  <1> SUFFICES ASSUME Init PROVE IInv
    OBVIOUS
  <1>1. TC
    BY TypeInit
  <1>2. ~InQuery /\ ~Streaming /\ Early /\ ~SendingKind({"status"})
    BY KindFacts DEF Init, InQuery, Streaming, Early, SendingKind
  <1>3. ControlInv /\ LockInv /\ OutInv
    BY <1>2, KindFacts
    DEF Init, ControlInv, LockInv, OutInv, SendingKind
  <1>4. QueueInv
    BY <1>2 DEF Init, QueueInv, Reading
  <1>5. WireInv /\ AuthInv
    BY <1>2 DEF Init, WireInv, AuthInv, Answering
  <1>6. QED BY <1>1, <1>3, <1>4, <1>5 DEF IInv, TC

LEMMA InvNext == IInv /\ [Next]_vars => IInv'
  BY TypeNext, ControlNext, LockNext, OutNext, QueueNext, WireNext, AuthNext
  DEF IInv, TC

(* The two tasks, the send lock, the bridge queue and the frames written    *)
(* stay in step, whatever the messages, the tokens and the deployment.      *)
THEOREM Inductive == Spec => []IInv
  BY InvInit, InvNext, PTL DEF Spec

(* With authentication on, no frame is written and no agent is invoked for  *)
(* a handshake whose cookie is not good (close(4001)).                      *)
THEOREM Authenticated == Spec => []AuthBeforeAnything
  <1>1. IInv => AuthBeforeAnything
    BY DEF IInv, AuthInv, AuthBeforeAnything
  <1>2. QED BY Inductive, <1>1, PTL

-----------------------------------------------------------------------------
(***************************************************************************)
(* WsProxy implements StreamProtocol: each step writes no frame or one the *)
(* protocol allows next.                                                   *)
(***************************************************************************)

LEMMA SameFrames ==
    /\ \A k : Promise!Notice(k) = Notice(k)
    /\ \A q : Promise!Status(q) = Status(q)
    /\ \A q, n, it : Promise!Token(q, n, it) = Token(q, n, it)
    /\ \A q, c : Promise!Complete(q, c) = Complete(q, c)
    /\ \A k, q : Promise!Failure(k, q) = Failure(k, q)
    /\ Promise!IdleKinds = IdleKinds /\ Promise!FailureKinds = FailureKinds
  BY DEF Promise!Notice, Promise!Status, Promise!Token, Promise!Complete,
         Promise!Failure, Promise!NoItem, Notice, Status, Token, Complete,
         Failure, NoItem, Promise!IdleKinds, IdleKinds, Promise!ReplyKinds,
         ReplyKinds, Promise!FailureKinds, FailureKinds

LEMMA SameState ==
    /\ Promise!Answering(wire) <=> Answering(wire)
    /\ Promise!LastFrame(wire) = LastFrame(wire)
    /\ Promise!TokensOut(wire) = TokensOut(wire)
  BY DEF Promise!Answering, Answering, Promise!LastFrame, LastFrame,
         Promise!TokensOut, TokensOut

LEMMA StepKeepsPromise == IInv /\ [Next]_vars => [Promise!Next]_wire
  <1> SUFFICES ASSUME IInv, [Next]_vars PROVE [Promise!Next]_wire
    OBVIOUS
  <1>0. /\ TC /\ ControlInv /\ LockInv /\ OutInv /\ QueueInv /\ WireInv
        /\ TypeOK /\ wire \in Seq(Frame) /\ out \in Frame
        /\ Notice("ping") \in Frame
    BY FrameTypes, KindFacts DEF IInv, TC, TypeOK
  \* A write by the endpoint, of a frame the protocol allows.
  <1>a. ASSUME Written(out), pc = "send",
               clientUp /\ ~closed => (wire' = Append(wire, out) => Promise!Next)
        PROVE  [Promise!Next]_wire
    BY <1>0, <1>a, WireWritten
  <1>b. ASSUME clientUp, ~Early, pc # "ended", ~Streaming
        PROVE  wire # <<>> /\ ~Answering(wire)
    BY <1>0, <1>b DEF WireInv
  <1>c. ASSUME clientUp, Streaming
        PROVE  Answering(wire) /\ LastFrame(wire).q = qid /\ TokensOut(wire) = seq
    BY <1>0, <1>c DEF WireInv
  <1>d. Streaming \/ SendingKind({"status"}) => qid \in Queries
    BY <1>0, TakenType DEF TC, CountInv, TypeOK, InQuery, Queries
  <1>e. Raises => UNCHANGED wire
    BY DEF Raises
  <1> USE KindFacts, SameFrames, SameState DEF clientVars, flags, stream, bridge, Sending
  <1>1. CASE WelcomeSent
    <2>1. pc = "send" /\ out = Notice("welcome") /\ wire = <<>>
      BY <1>0, <1>1, OutFacts DEF WelcomeSent, ControlInv, Early, SendingKind
    <2>2. wire' = Append(wire, out) => Promise!Next
      BY <2>1 DEF Promise!Next, Promise!Welcome
    <2>3. QED BY <1>1, <2>1, <2>2, <1>a, <1>e DEF WelcomeSent
  <1>2. CASE ReplySent \/ AuditingSent
    <2>1. /\ pc = "send" /\ out = Notice(out.kind)
          /\ out.kind \in {"pong", "refused", "auditing"}
      BY <1>0, <1>2, OutFacts DEF ReplySent, AuditingSent
    <2>2. ~Early /\ ~Streaming
      BY <2>1 DEF Early, Streaming, SendingKind
    <2>3. clientUp => (wire' = Append(wire, out) => Promise!Aside(out.kind))
      BY <1>b, <2>1, <2>2 DEF Promise!Aside
    <2>4. out.kind \in IdleKinds
      BY <2>1 DEF IdleKinds
    <2>5. QED
      BY <1>2, <2>1, <2>3, <2>4, <1>a, <1>e DEF ReplySent, AuditingSent, Promise!Next
  <1>3. CASE StatusSent
    <2>1. pc = "send" /\ out = Status(qid) /\ out.kind = "status"
      BY <1>0, <1>3, OutFacts DEF StatusSent
    <2>2. ~Early /\ ~Streaming /\ SendingKind({"status"})
      BY <2>1 DEF Early, Streaming, SendingKind
    <2>3. \A i \in 1..Len(wire) : wire[i].q # qid
      <3>1. \A i \in 1..Len(wire) : wire[i].q < qid /\ wire[i].q \in Nat
        <4>1. \A f \in Frame : f.q \in Nat
          BY DEF Frame
        <4>2. QED BY <1>0, <2>2, <4>1 DEF WireInv
      <3>2. QED BY <3>1, <1>0, TakenType
    <2>4. clientUp => (wire' = Append(wire, out) => Promise!Begin(qid))
      BY <1>b, <2>1, <2>2, <2>3 DEF Promise!Begin
    <2>5. QED
      BY <1>3, <1>d, <2>1, <2>2, <2>4, <1>a, <1>e DEF StatusSent, Promise!Next
  <1>4. CASE TokenSent
    <2>1. /\ pc = "send" /\ out = Token(qid, seq, <<qid, seq + 1>>)
          /\ Streaming
      BY <1>0, <1>4, OutFacts DEF TokenSent, Streaming, SendingKind
    <2>2. clientUp => (wire' = Append(wire, out) => Promise!NextToken)
      BY <1>c, <2>1 DEF Promise!NextToken
    <2>3. QED
      BY <1>4, <2>1, <2>2, <1>a, <1>e DEF TokenSent, Promise!Next
  <1>5. CASE CompleteSent
    <2>1. /\ pc = "send" /\ out = Complete(qid, seq) /\ Streaming
      BY <1>0, <1>5, OutFacts DEF CompleteSent, Streaming, SendingKind
    <2>2. clientUp => (wire' = Append(wire, out) => Promise!Finish)
      BY <1>c, <2>1 DEF Promise!Finish
    <2>3. QED
      BY <1>5, <2>1, <2>2, <1>a, <1>e DEF CompleteSent, Promise!Next
  <1>6. CASE FailureSent
    <2>1. /\ pc = "send" /\ out = Failure(out.kind, qid) /\ Streaming
          /\ out.kind \in FailureKinds
      BY <1>0, <1>6, OutFacts DEF FailureSent, Streaming, SendingKind
    <2>2. clientUp => (wire' = Append(wire, out) => Promise!Fail(out.kind))
      BY <1>c, <2>1 DEF Promise!Fail
    <2>3. QED
      BY <1>6, <2>1, <2>2, <1>a, <1>e DEF FailureSent, Promise!Next
  <1>7. CASE KeepalivePings
    <2>1. /\ ka = "ping" /\ ~Streaming /\ ~Early /\ pc # "ended"
      BY <1>0, <1>7 DEF KeepalivePings, LockInv, ControlInv
    <2>2. clientUp => (wire' = Append(wire, Notice("ping")) => Promise!Aside("ping"))
      BY <1>b, <2>1 DEF Promise!Aside
    <2>3. "ping" \in IdleKinds
      BY DEF IdleKinds
    <2>4. CASE Written(Notice("ping"))
      BY <1>0, <2>2, <2>3, <2>4, WireWritten DEF Promise!Next
    <2>5. QED
      BY <1>7, <2>4, <1>e DEF KeepalivePings
  <1>8. CASE UNCHANGED wire
    BY <1>8
  <1>9. QED
    BY <1>1, <1>2, <1>3, <1>4, <1>5, <1>6, <1>7, <1>8
    DEF Next, Endpoint, Keepalive, Terminated, Accept, LoopEnds, Receive,
        TakeItem, WaitForItem, StreamTimesOut, Expire, KeepaliveWakes, Client,
        Worker, vars

(* What a client reads on one socket is what StreamProtocol promises: each  *)
(* query answered by its own frames, in the agent's order, with nothing in  *)
(* between, and once.                                                       *)
THEOREM ProxyKeepsPromise == Spec => KeepsPromise
  <1>1. Init => Promise!Init
    BY DEF Init, Promise!Init
  <1>2. QED
    BY <1>1, Inductive, StepKeepsPromise, PTL DEF Spec, KeepsPromise, Promise!Spec

-----------------------------------------------------------------------------
(***************************************************************************)
(* What the last frame of an answer says of the agent's run, and when a    *)
(* bridge thread is left running, for any number of messages and tokens.   *)
(***************************************************************************)
LEMMA StreamTypes ==
    ASSUME TC
    PROVE  /\ worker \in [Queries -> {"none", "running", "raised", "ended", "failed"}]
           /\ produced \in [Queries -> 0..MaxTokens]
           /\ queue \in [Queries -> Seq(Item)]
           /\ Streaming \/ SendingKind({"status"}) => qid \in Queries
           /\ \A q \in Queries : produced[q] \in Nat /\ q \in Nat
  <1>1. /\ worker \in [Queries -> {"none", "running", "raised", "ended", "failed"}]
        /\ produced \in [Queries -> 0..MaxTokens]
        /\ queue \in [Queries -> Seq(Item)]
    BY DEF TC, TypeOK
  <1>2. Streaming \/ SendingKind({"status"}) => qid \in Queries
    BY BoundsAssumption DEF TC, TypeOK, CountInv, InQuery, Queries
  <1>3. \A q \in Queries : produced[q] \in Nat /\ q \in Nat
    BY <1>1, BoundsAssumption DEF Queries
  <1>4. QED BY <1>1, <1>2, <1>3

(* A thread that has ended, or has raised, stays so. *)
LEMMA WorkerMoves ==
    ASSUME TC, QueueInv, [Next]_vars, NEW q \in Queries
    PROVE  /\ worker[q] = "ended" =>
                worker'[q] = "ended" /\ produced'[q] = produced[q]
           /\ worker[q] \in {"raised", "failed"} =>
                worker'[q] \in {"raised", "failed"}
           /\ worker[q] # "running" /\ worker'[q] = "running" =>
                q = qid' /\ pc' = "poll"
  <1>1. CASE StatusSent
    <2>1. worker[qid] = "none" /\ qid \in Queries
      BY <1>1, StreamTypes DEF StatusSent, Sending, SendingKind, QueueInv
    <2>2. CASE StartStream /\ pc' = "poll" /\ qid' = qid
      BY <1>1, <2>1, <2>2, StreamTypes DEF StartStream
    <2>3. CASE UNCHANGED bridge
      BY <2>3 DEF bridge
    <2>4. QED BY <1>1, <2>2, <2>3 DEF StatusSent, stream
  <1>2. ASSUME NEW p \in Queries, Worker(p) PROVE
           /\ worker[q] = "ended" =>
                worker'[q] = "ended" /\ produced'[q] = produced[q]
           /\ worker[q] \in {"raised", "failed"} =>
                worker'[q] \in {"raised", "failed"}
           /\ worker[q] # "running" => worker'[q] # "running"
    <2>1. CASE WorkerToken(p)
      BY <2>1, StreamTypes DEF WorkerToken
    <2>2. CASE WorkerRaises(p)
      BY <2>2, StreamTypes DEF WorkerRaises
    <2>3. CASE WorkerEnds(p)
      BY <2>3, StreamTypes DEF WorkerEnds
    <2>4. QED BY <1>2, <2>1, <2>2, <2>3 DEF Worker
  <1>3. CASE UNCHANGED <<worker, produced>>
    BY <1>3
  <1>4. QED
    BY <1>1, <1>2, <1>3
    DEF Next, Endpoint, Keepalive, Terminated, Accept, WelcomeSent, LoopEnds,
        Receive, ReplySent, AuditingSent, TakeItem, WaitForItem, StreamTimesOut,
        TokenSent, CompleteSent, FailureSent, Expire, KeepaliveWakes,
        KeepalivePings, Client, vars, bridge

(* Frames written stay, and a new one is the endpoint's or a ping. *)
LEMMA WireGrows ==
    ASSUME TC, [Next]_vars
    PROVE  /\ \A i \in 1..Len(wire) : i \in 1..Len(wire') /\ wire'[i] = wire[i]
           /\ \A i \in 1..Len(wire') :
                \/ i \in 1..Len(wire) /\ wire'[i] = wire[i]
                \/ wire'[i] = out /\ Sending(Kinds) /\ Written(out)
                \/ wire'[i].kind = "ping"
  <1>1. wire \in Seq(Frame) /\ out \in Frame
    BY DEF TC, TypeOK
  <1>2. ASSUME NEW f \in Frame, Written(f)
        PROVE  /\ \A i \in 1..Len(wire) : i \in 1..Len(wire') /\ wire'[i] = wire[i]
               /\ \A i \in 1..Len(wire') :
                    (i \in 1..Len(wire) /\ wire'[i] = wire[i]) \/ wire'[i] = f
    BY <1>1, <1>2, AppendFacts DEF Written
  <1>3. CASE Written(out) /\ Sending(Kinds)
    BY <1>1, <1>2, <1>3
  <1>4. CASE Written(Notice("ping"))
    <2>1. Notice("ping") \in Frame /\ Notice("ping").kind = "ping"
      BY NoticeTypes, KindFacts
    <2>2. QED BY <1>2, <1>4, <2>1
  <1>5. CASE UNCHANGED wire
    BY <1>5
  <1>6. QED
    BY <1>3, <1>4, <1>5, KindFacts
    DEF Next, Endpoint, Keepalive, Terminated, Accept, WelcomeSent, LoopEnds,
        Receive, ReplySent, AuditingSent, StatusSent, TakeItem, WaitForItem,
        StreamTimesOut, TokenSent, CompleteSent, FailureSent, Expire,
        KeepaliveWakes, KeepalivePings, Client, Worker, vars, Raises, Sending

-----------------------------------------------------------------------------
(***************************************************************************)
(* HonestInv, in the parts it is made of.                                  *)
(***************************************************************************)

(* The first part: the queue of the query being read. *)
QueueHonest ==
    Reading =>
        LET w == worker[qid]
            b == queue[qid]
        IN  /\ \A j \in 1..Len(b) :
                /\ b[j].kind = "exc"  => w \in {"raised", "failed"}
                /\ b[j].kind = "done" =>
                      /\ w \in {"ended", "failed"}
                      /\ w = "ended" => produced[qid] = Taken + j - 1
            /\ w \in {"raised", "failed"} =>
                \E i \in 1..Len(b) :
                    b[i].kind = "exc" /\ \A j \in 1..i : b[j].kind # "done"

SendHonest ==
    /\ SendingKind({"complete"}) => worker[qid] = "ended" /\ seq = produced[qid]
    /\ SendingKind({"failed"})   => worker[qid] \in {"raised", "failed"}

WireHonest ==
    \A i \in 1..Len(wire) : wire[i].kind \in TerminalKinds => wire[i].q \in Queries

LEMMA HonestParts == HonestInv <=> QueueHonest /\ SendHonest /\ WireHonest
  BY DEF HonestInv, QueueHonest, SendHonest, WireHonest

LEMMA WireHonestNext ==
    ASSUME IInv, WireHonest, [Next]_vars PROVE WireHonest'
  <1>1. TC /\ OutInv
    BY DEF IInv, TC
  <1>2. SUFFICES ASSUME NEW i \in 1..Len(wire'), wire'[i].kind \in TerminalKinds
                 PROVE  wire'[i].q \in Queries
    BY DEF WireHonest
  <1>3. CASE i \in 1..Len(wire) /\ wire'[i] = wire[i]
    BY <1>2, <1>3 DEF WireHonest
  <1>4. CASE wire'[i] = out /\ Sending(Kinds)
    <2>1. out.q = qid /\ Streaming
      BY <1>1, <1>2, <1>4, OutFacts, KindFacts DEF Sending, Streaming, SendingKind
    <2>2. QED BY <1>1, <1>4, <2>1, StreamTypes
  <1>5. CASE wire'[i].kind = "ping"
    BY <1>2, <1>5, KindFacts
  <1>6. QED BY <1>1, <1>3, <1>4, <1>5, WireGrows

LEMMA SendHonestNext ==
    ASSUME IInv, HonestInv, [Next]_vars PROVE SendHonest'
  <1>1. TC /\ QueueInv /\ OutInv /\ QueueHonest /\ SendHonest
    BY HonestParts DEF IInv, TC
  <1> USE DEF clientVars, flags, stream, bridge
  <1>a. ASSUME UNCHANGED <<pc, out, qid, seq>>
        PROVE  SendHonest'
    <2>1. SendingKind({"complete"}) \/ SendingKind({"failed"}) => qid \in Queries
      BY <1>1, StreamTypes, KindFacts DEF Streaming, SendingKind
    <2>2. QED
      BY <1>1, <1>a, <2>1, WorkerMoves DEF SendHonest, SendingKind
  <1>b. ASSUME pc' = "send" => out'.kind \notin {"complete", "failed"}
        PROVE  SendHonest'
    BY <1>b DEF SendHonest, SendingKind
  <1>2. CASE TakeItem
    <2> DEFINE it == Head(queue[qid])
    <2>1. /\ out' = FrameOf(it) /\ it = queue[qid][1] /\ 1 \in 1..Len(queue[qid])
          /\ it \in Item
      BY <1>1, <1>2, TakeItemFacts, TailFacts
    <2>2. /\ UNCHANGED <<qid, seq, worker, produced>> /\ pc' = "send"
          /\ Reading /\ Taken = seq
      BY <1>2 DEF TakeItem, Send, SendBehind, Reading, Streaming, SendingKind, Taken
    <2>3. CASE it.kind = "token"
      BY <1>b, <2>1, <2>3, FrameKinds DEF FrameOf
    <2>4. CASE it.kind = "exc"
      <3>1. out'.kind = "failed"
        BY <2>1, <2>4, FrameKinds DEF FrameOf
      <3>2. worker[qid] \in {"raised", "failed"}
        BY <1>1, <2>1, <2>2, <2>4 DEF QueueHonest
      <3>3. QED BY <2>2, <3>1, <3>2 DEF SendHonest, SendingKind
    <2>5. CASE it.kind = "done"
      <3>1. out'.kind = "complete"
        BY <2>1, <2>5, FrameKinds DEF FrameOf
      <3>2. worker[qid] \in {"ended", "failed"}
        BY <1>1, <2>1, <2>2, <2>5 DEF QueueHonest
      <3>3. worker[qid] # "failed"
        <4>1. SUFFICES ASSUME worker[qid] = "failed" PROVE FALSE
          OBVIOUS
        <4>2. PICK i \in 1..Len(queue[qid]) :
                  \A j \in 1..i : queue[qid][j].kind # "done"
          BY <1>1, <2>2, <4>1 DEF QueueHonest
        <4>3. 1 \in 1..i
          OBVIOUS
        <4>4. QED BY <2>1, <2>5, <4>2, <4>3
      <3>4. produced[qid] = seq + 1 - 1
        BY <1>1, <2>1, <2>2, <2>5, <3>2, <3>3 DEF QueueHonest
      <3>5. QED
        BY <1>1, <2>2, <3>1, <3>2, <3>3, <3>4, TakenType DEF SendHonest, SendingKind
    <2>6. QED BY <2>1, <2>3, <2>4, <2>5 DEF Item
  <1>3. CASE Endpoint /\ ~TakeItem
    BY <1>3, <1>b, FrameKinds
    DEF Endpoint, Accept, WelcomeSent, LoopEnds, Receive, ReplySent, AuditingSent,
        StatusSent, WaitForItem, StreamTimesOut, TokenSent, CompleteSent,
        FailureSent, Send, SendBehind, Finally, HandleMessage, Reply, RunQuery,
        Leave, Refused, SendHonest, SendingKind
  <1>4. CASE Expire \/ Keepalive \/ Client \/ (\E q \in Queries : Worker(q)) \/ UNCHANGED vars
    BY <1>4, <1>a DEF Expire, Keepalive, KeepaliveWakes, KeepalivePings, Client, Worker, vars
  <1>5. QED
    BY <1>2, <1>3, <1>4 DEF Next, Terminated

LEMMA QueueHonestNext ==
    ASSUME IInv, HonestInv, [Next]_vars PROVE QueueHonest'
  <1>1. TC /\ QueueInv /\ QueueHonest
    BY HonestParts DEF IInv, TC
  <1>t. /\ \A q \in Queries : queue[q] \in Seq(Item)
        /\ Reading => qid \in Queries
    BY <1>1, StreamTypes DEF Reading
  <1> USE DEF clientVars, flags, stream, bridge
  <1>a. ASSUME ~Reading' PROVE QueueHonest'
    BY <1>a DEF QueueHonest
  <1>b. ASSUME UNCHANGED <<pc, out, qid, seq, worker, produced, queue>>
        PROVE  QueueHonest'
    BY <1>1, <1>b DEF QueueHonest, Reading, Streaming, SendingKind, Taken
  <1>c. ASSUME pc' = "send" => out'.kind # "token",
               pc' \notin {"poll", "wait"}
        PROVE  QueueHonest'
    BY <1>a, <1>c, KindFacts DEF Reading, Streaming, SendingKind
  <1>2. CASE StatusSent
    <2>1. CASE Leave
      BY <2>1, <1>c DEF Leave
    <2>2. CASE StartStream /\ pc' = "poll"
      <3>1. /\ qid \in Queries /\ qid' = qid /\ seq' = 0
            /\ worker[qid] = "none" /\ queue[qid] = <<>>
        BY <1>1, <1>2, StreamTypes DEF StatusSent, Sending, SendingKind, QueueInv
      <3>2. Taken' = 0
        BY <2>2, <3>1 DEF Taken, SendingKind
      <3>3. CASE settings.mock
        <4>1. /\ queue'[qid] = MockStream(qid) /\ worker'[qid] = "ended"
              /\ produced'[qid] = MaxTokens
          BY <1>1, <2>2, <3>1, <3>3, StreamTypes DEF StartStream
        <4>2. /\ Len(MockStream(qid)) = MaxTokens + 1
              /\ \A j \in 1..(MaxTokens + 1) :
                    MockStream(qid)[j] = IF j <= MaxTokens THEN Delta(qid, j) ELSE Done
          BY BoundsAssumption DEF MockStream
        <4>3. \A j \in 1..Len(MockStream(qid)) :
                 /\ MockStream(qid)[j].kind # "exc"
                 /\ MockStream(qid)[j].kind = "done" => MaxTokens = 0 + j - 1
          BY <4>2, BoundsAssumption DEF Delta, Done
        <4>4. QED
          BY <3>1, <3>2, <4>1, <4>3 DEF QueueHonest
      <3>4. CASE ~settings.mock
        <4>1. worker'[qid] = "running" /\ Len(queue'[qid]) = 0
          BY <1>1, <2>2, <3>1, <3>4, StreamTypes DEF StartStream
        <4>2. QED BY <3>1, <4>1 DEF QueueHonest
      <3>5. QED BY <3>3, <3>4
    <2>3. QED BY <1>2, <2>1, <2>2 DEF StatusSent
  <1>3. CASE TakeItem
    <2> DEFINE it == Head(queue[qid])
               b == queue[qid]
    <2>1. /\ out' = FrameOf(it) /\ it = b[1] /\ it \in Item /\ qid \in Queries
          /\ b \in Seq(Item) /\ b # <<>>
      BY <1>1, <1>3, TakeItemFacts, TailFacts
    <2>2. /\ UNCHANGED <<qid, seq, worker, produced>> /\ pc' = "send"
          /\ Reading /\ Taken = seq /\ queue'[qid] = Tail(b)
      BY <1>1, <1>3, <2>1, StreamTypes
      DEF TakeItem, Send, SendBehind, Reading, Streaming, SendingKind, Taken
    <2>3. CASE it.kind # "token"
      <3>1. out'.kind # "token"
        BY <2>1, <2>3, FrameKinds DEF FrameOf, Item
      <3>2. QED BY <1>c, <2>2, <3>1
    <2>4. CASE it.kind = "token"
      <3>1. Taken' = seq + 1
        BY <2>1, <2>2, <2>4, FrameKinds DEF FrameOf, Taken, SendingKind
      <3>2. /\ Len(b) \in Nat \ {0} /\ Len(Tail(b)) = Len(b) - 1
            /\ \A j \in 1..Len(Tail(b)) : Tail(b)[j] = b[j + 1] /\ j + 1 \in 1..Len(b)
        BY <2>1, TailFacts
      <3>3. ASSUME NEW j \in 1..Len(Tail(b))
            PROVE  /\ Tail(b)[j].kind = "exc"  => worker[qid] \in {"raised", "failed"}
                   /\ Tail(b)[j].kind = "done" =>
                        /\ worker[qid] \in {"ended", "failed"}
                        /\ worker[qid] = "ended" => produced[qid] = seq + 1 + j - 1
        <4>1. j + 1 \in 1..Len(b) /\ Tail(b)[j] = b[j + 1]
          BY <3>2
        <4>2. /\ b[j + 1].kind = "exc"  => worker[qid] \in {"raised", "failed"}
              /\ b[j + 1].kind = "done" =>
                    /\ worker[qid] \in {"ended", "failed"}
                    /\ worker[qid] = "ended" => produced[qid] = seq + (j + 1) - 1
          BY <1>1, <2>2, <4>1 DEF QueueHonest
        <4>3. seq + (j + 1) - 1 = seq + 1 + j - 1
          BY <1>1, <3>2, TakenType
        <4>4. QED BY <4>1, <4>2, <4>3
      <3>4. ASSUME worker[qid] \in {"raised", "failed"}
            PROVE  \E i \in 1..Len(Tail(b)) : /\ Tail(b)[i].kind = "exc"
                                              /\ \A j \in 1..i : Tail(b)[j].kind # "done"
        <4>1. PICK i \in 1..Len(b) :
                  b[i].kind = "exc" /\ \A j \in 1..i : b[j].kind # "done"
          BY <1>1, <2>2, <3>4 DEF QueueHonest
        <4>2. i # 1
          BY <2>1, <2>4, <4>1
        <4>3. i - 1 \in 1..Len(Tail(b)) /\ Tail(b)[i - 1] = b[i]
          BY <3>2, <4>2
        <4>4. \A j \in 1..(i - 1) : Tail(b)[j].kind # "done"
          BY <3>2, <4>1, <4>3
        <4>5. QED BY <4>1, <4>3, <4>4
      <3>5. QED BY <2>2, <3>1, <3>3, <3>4 DEF QueueHonest
    <2>5. QED BY <2>3, <2>4
  <1>4. CASE WaitForItem
    BY <1>1, <1>4 DEF WaitForItem, QueueHonest, Reading, Streaming, SendingKind, Taken
  <1>5. CASE TokenSent
    <2>1. CASE Leave
      BY <2>1, <1>c DEF Leave
    <2>2. CASE seq' = seq + 1 /\ pc' = "poll"
      <3>1. /\ UNCHANGED <<qid, worker, produced, queue>>
            /\ Reading /\ Taken = seq + 1 /\ Taken' = seq + 1
        BY <1>5, <2>2, KindFacts
        DEF TokenSent, Sending, Reading, Streaming, SendingKind, Taken
      <3>2. QED BY <1>1, <3>1 DEF QueueHonest
    <2>3. QED BY <1>5, <2>1, <2>2 DEF TokenSent
  <1>6. ASSUME NEW q \in Queries, Worker(q) PROVE QueueHonest'
    <2>1. /\ UNCHANGED <<pc, out, qid, seq>>
          /\ WorkerToken(q) \/ WorkerRaises(q) \/ WorkerEnds(q)
      BY <1>6 DEF Worker
    <2>2. Reading' = Reading /\ Taken' = Taken /\ Taken \in Nat
      BY <1>1, <2>1, TakenType DEF Reading, Streaming, SendingKind, Taken
    <2>3. SUFFICES ASSUME Reading PROVE QueueHonest'
      BY <1>a, <2>2
    <2>4. CASE q # qid
      <3>1. /\ queue'[qid] = queue[qid] /\ worker'[qid] = worker[qid]
            /\ produced'[qid] = produced[qid]
        BY <1>1, <1>t, <2>1, <2>3, <2>4, StreamTypes
        DEF WorkerToken, WorkerRaises, WorkerEnds, Put
      <3>2. QED BY <1>1, <2>1, <2>2, <3>1 DEF QueueHonest
    <2>5. CASE q = qid
      <3> DEFINE b == queue[q]
                 n == Len(queue[q])
      <3>1. /\ Delta(q, produced[q] + 1) \in Item /\ Exc \in Item /\ Done \in Item
            /\ Delta(q, produced[q] + 1).kind = "token"
            /\ Exc.kind = "exc" /\ Done.kind = "done"
        BY <1>1, StreamTypes DEF Delta, Exc, Done, Item, NoItem
      <3>2. \A it \in Item : /\ Len(Append(b, it)) = n + 1 /\ n \in Nat
                             /\ Append(b, it)[n + 1] = it
                             /\ \A j \in 1..n : Append(b, it)[j] = b[j]
        BY <1>t, AppendFacts
      <3>3. \A j \in 1..n :
                /\ b[j].kind = "exc"  => worker[q] \in {"raised", "failed"}
                /\ b[j].kind = "done" => worker[q] \in {"ended", "failed"}
        BY <1>1, <2>3, <2>5 DEF QueueHonest
      <3>4. worker[q] = "running" => produced[q] = Taken + n
        BY <1>1, <2>3, <2>5 DEF QueueInv
      <3>5. CASE WorkerToken(q)
        <4>1. /\ queue'[q] = Append(b, Delta(q, produced[q] + 1))
              /\ worker'[q] = "running" /\ worker[q] = "running"
          BY <1>1, <3>5, StreamTypes DEF WorkerToken, Put
        <4>2. \A j \in 1..Len(queue'[q]) : queue'[q][j].kind \notin {"exc", "done"}
          BY <3>1, <3>2, <3>3, <4>1
        <4>3. QED BY <2>1, <2>5, <4>1, <4>2 DEF QueueHonest
      <3>6. CASE WorkerRaises(q)
        <4>1. /\ queue'[q] = Append(b, Exc)
              /\ worker'[q] = "raised" /\ worker[q] = "running"
          BY <1>1, <3>6, StreamTypes DEF WorkerRaises, Put
        <4>2. /\ \A j \in 1..Len(queue'[q]) : queue'[q][j].kind # "done"
              /\ n + 1 \in 1..Len(queue'[q]) /\ queue'[q][n + 1].kind = "exc"
          BY <3>1, <3>2, <3>3, <4>1
        <4>3. \E i \in 1..Len(queue'[q]) :
                  queue'[q][i].kind = "exc" /\ \A j \in 1..i : queue'[q][j].kind # "done"
          <5>1. \A j \in 1..(n + 1) : queue'[q][j].kind # "done"
            BY <3>1, <3>2, <4>1, <4>2
          <5>2. QED BY <4>2, <5>1
        <4>4. QED BY <2>1, <2>5, <4>1, <4>2, <4>3 DEF QueueHonest
      <3>7. CASE WorkerEnds(q)
        <4>1. /\ queue'[q] = Append(b, Done) /\ produced'[q] = produced[q]
              /\ \/ worker[q] = "running" /\ worker'[q] = "ended"
                 \/ worker[q] = "raised" /\ worker'[q] = "failed"
          BY <1>1, <3>7, StreamTypes DEF WorkerEnds, Put
        <4>2. /\ Len(queue'[q]) = n + 1 /\ n \in Nat
              /\ queue'[q][n + 1].kind = "done"
              /\ \A j \in 1..n : queue'[q][j] = b[j]
          BY <3>1, <3>2, <4>1
        <4>3. CASE worker[q] = "running"
          <5>1. \A j \in 1..(n + 1) :
                    /\ queue'[q][j].kind # "exc"
                    /\ queue'[q][j].kind = "done" => j = n + 1
            BY <3>3, <4>2, <4>3
          <5>2. produced'[q] = Taken + (n + 1) - 1
            BY <2>2, <3>4, <4>1, <4>2, <4>3
          <5>3. worker'[q] = "ended"
            BY <4>1, <4>3
          <5>4. QED BY <2>1, <2>2, <2>5, <4>2, <5>1, <5>2, <5>3 DEF QueueHonest
        <4>4. CASE worker[q] = "raised"
          <5>1. PICK i \in 1..n : b[i].kind = "exc" /\ \A j \in 1..i : b[j].kind # "done"
            BY <1>1, <2>3, <2>5, <4>4 DEF QueueHonest
          <5>2. /\ i \in 1..Len(queue'[q]) /\ queue'[q][i].kind = "exc"
                /\ \A j \in 1..i : queue'[q][j].kind # "done"
            BY <4>2, <5>1
          <5>3. worker'[q] = "failed"
            BY <4>1, <4>4
          <5>4. QED BY <2>1, <2>5, <5>2, <5>3 DEF QueueHonest
        <4>5. QED BY <4>1, <4>3, <4>4
      <3>8. QED BY <2>1, <3>5, <3>6, <3>7
    <2>6. QED BY <2>4, <2>5
  <1>7. CASE Endpoint /\ ~StatusSent /\ ~TakeItem /\ ~WaitForItem /\ ~TokenSent
    BY <1>7, <1>c, FrameKinds, KindFacts
    DEF Endpoint, Accept, WelcomeSent, LoopEnds, Receive, ReplySent, AuditingSent,
        StreamTimesOut, CompleteSent, FailureSent, Send, SendBehind, Finally,
        HandleMessage, Reply, RunQuery, Leave, Refused
  <1>8. CASE Expire \/ Keepalive \/ Client \/ UNCHANGED vars
    BY <1>8, <1>b DEF Expire, Keepalive, KeepaliveWakes, KeepalivePings, Client, vars
  <1>9. QED
    BY <1>2, <1>3, <1>4, <1>5, <1>6, <1>7, <1>8 DEF Next, Terminated

-----------------------------------------------------------------------------
LEMMA AnswersNext ==
    ASSUME IInv, HonestInv, AnswersAreHonest, [Next]_vars
    PROVE  HonestInv' /\ AnswersAreHonest'
  <1>1. TC /\ OutInv /\ QueueInv /\ SendHonest /\ WireHonest
    BY HonestParts DEF IInv, TC
  <1>2. HonestInv'
    BY <1>1, QueueHonestNext, SendHonestNext, WireHonestNext
    DEF HonestInv, QueueHonest, SendHonest, WireHonest
  <1>3. ASSUME NEW i \in 1..Len(wire')
        PROVE  /\ wire'[i].kind = "complete" => /\ worker'[wire'[i].q] = "ended"
                                                /\ wire'[i].n = produced'[wire'[i].q]
               /\ wire'[i].kind = "failed" =>
                      worker'[wire'[i].q] \in {"raised", "failed"}
    <2>1. CASE i \in 1..Len(wire) /\ wire'[i] = wire[i]
      <3>1. wire[i].kind \in {"complete", "failed"} => wire[i].q \in Queries
        BY <1>1, <2>1, KindFacts DEF WireHonest
      <3>2. QED
        BY <1>1, <2>1, <3>1, WorkerMoves DEF AnswersAreHonest
    <2>2. CASE wire'[i] = out /\ Sending(Kinds)
      <3>1. CASE out.kind = "complete"
        <4>1. out = Complete(qid, seq) /\ qid \in Queries
          BY <1>1, <2>2, <3>1, OutFacts, StreamTypes, KindFacts
          DEF Sending, Streaming, SendingKind
        <4>2. worker[qid] = "ended" /\ seq = produced[qid]
          BY <1>1, <2>2, <3>1 DEF SendHonest, SendingKind, Sending
        <4>3. QED
          BY <1>1, <2>2, <3>1, <4>1, <4>2, WorkerMoves, FrameKinds
      <3>2. CASE out.kind = "failed"
        <4>1. out.q = qid /\ qid \in Queries
          BY <1>1, <2>2, <3>2, OutFacts, StreamTypes, KindFacts
          DEF Sending, Streaming, SendingKind
        <4>2. worker[qid] \in {"raised", "failed"}
          BY <1>1, <2>2, <3>2 DEF SendHonest, SendingKind, Sending
        <4>3. QED
          BY <1>1, <2>2, <3>2, <4>1, <4>2, WorkerMoves
      <3>3. QED BY <2>2, <3>1, <3>2
    <2>3. CASE wire'[i].kind = "ping"
      BY <2>3
    <2>4. QED BY <1>1, <2>1, <2>2, <2>3, WireGrows
  <1>4. QED BY <1>2, <1>3 DEF AnswersAreHonest

(* A complete frame means that the agent ended by itself and that every     *)
(* token it produced was written before; inference_failed means it raised.  *)
THEOREM Honest == Spec => []AnswersAreHonest
  <1>1. Init => HonestInv /\ AnswersAreHonest
    BY KindFacts DEF Init, HonestInv, AnswersAreHonest, Reading, Streaming, SendingKind
  <1>2. /\ IInv /\ HonestInv /\ AnswersAreHonest /\ [Next]_vars
        => HonestInv' /\ AnswersAreHonest'
    BY AnswersNext
  <1>3. QED BY Inductive, <1>1, <1>2, PTL DEF Spec

-----------------------------------------------------------------------------
LEMMA OrphansNext ==
    ASSUME IInv, HonestInv, OrphansOnlyAfterCut, [Next]_vars
    PROVE  OrphansOnlyAfterCut'
  <1>1. /\ TC /\ OutInv /\ QueueInv /\ ControlInv /\ SendHonest
        /\ qid \in Nat
    BY HonestParts, TakenType DEF IInv, TC
  <1>2. SUFFICES ASSUME NEW q \in Queries, worker'[q] = "running",
                        ~(active' /\ q = qid'), clientUp'
                 PROVE  \E i \in 1..Len(wire') :
                            wire'[i].kind = "timeout" /\ wire'[i].q = q
    BY DEF OrphansOnlyAfterCut, Current
  <1> USE DEF clientVars, flags, stream, bridge
  \* It was an orphan before: the timeout frame is still there.
  <1>a. ASSUME worker[q] = "running", ~Current(q), clientUp
        PROVE  \E i \in 1..Len(wire') :
                   wire'[i].kind = "timeout" /\ wire'[i].q = q
    <2>1. PICK i \in 1..Len(wire) : wire[i].kind = "timeout" /\ wire[i].q = q
      BY <1>a DEF OrphansOnlyAfterCut
    <2>2. i \in 1..Len(wire') /\ wire'[i] = wire[i]
      BY <1>1, WireGrows
    <2>3. QED BY <2>1, <2>2
  <1>3. clientUp
    BY <1>2
    DEF Next, Endpoint, Keepalive, Terminated, Accept, WelcomeSent, LoopEnds,
        Receive, ReplySent, AuditingSent, StatusSent, TakeItem, WaitForItem,
        StreamTimesOut, TokenSent, CompleteSent, FailureSent, Expire,
        KeepaliveWakes, KeepalivePings, Client, ClientLeaves, ClientSends, Worker,
        vars
  \* The thread has just been started: its query is the current one.
  <1>4. worker[q] = "running"
    <2>1. SUFFICES ASSUME worker[q] # "running" PROVE FALSE
      OBVIOUS
    <2>2. q = qid' /\ pc' = "poll"
      BY <1>1, <1>2, <2>1, WorkerMoves
    <2>3. active'
      BY <1>1, <2>2, ControlNext DEF ControlInv, InQuery, Streaming
    <2>4. QED BY <1>2, <2>2, <2>3
  <1>5. CASE ~Current(q)
    BY <1>a, <1>3, <1>4, <1>5
  <1>6. CASE Current(q)
    <2>1. active /\ q = qid
      BY <1>6 DEF Current
    <2>2. ~(active' /\ qid' = qid)
      BY <1>2, <2>1
    <2>3. CASE TokenSent \/ CompleteSent \/ FailureSent
      <3>1. ~Raises
        BY <1>3 DEF Raises
      <3>2. ~TokenSent
        BY <2>1, <2>2, <3>1 DEF TokenSent
      <3>3. ~CompleteSent
        BY <1>1, <1>4, <2>1 DEF CompleteSent, Sending, SendHonest, SendingKind
      <3>4. Written(out) /\ Sending(FailureKinds)
        BY <2>3, <3>1, <3>2, <3>3 DEF FailureSent
      <3>5. out.kind = "timeout"
        BY <1>1, <1>4, <2>1, <3>4, KindFacts DEF Sending, SendHonest, SendingKind
      <3>6. out.q = qid /\ out \in Frame
        BY <1>1, <3>4, OutFacts DEF Sending, TC, TypeOK
      <3>7. ~closed
        BY <1>1, <1>3, <3>4 DEF ControlInv, Sending
      <3>8. /\ wire'[Len(wire')] = out /\ Len(wire') = Len(wire) + 1
            /\ Len(wire) \in Nat
        BY <1>1, <1>3, <3>4, <3>6, <3>7, WireWritten
      <3>9. QED BY <2>1, <3>5, <3>6, <3>8
    <2>4. CASE StatusSent
      <3>1. worker[qid] = "none"
        BY <1>1, <2>4, StreamTypes DEF StatusSent, Sending, SendingKind, QueueInv
      <3>2. QED BY <1>4, <2>1, <3>1
    <2>5. CASE LoopEnds \/ Receive \/ AuditingSent
      BY <1>1, <2>1, <2>5, KindFacts
      DEF LoopEnds, Receive, AuditingSent, Sending, ControlInv, InQuery, Streaming,
          SendingKind
    <2>6. CASE UNCHANGED <<active, qid>>
      BY <2>1, <2>2, <2>6
    <2>7. QED
      BY <2>3, <2>4, <2>5, <2>6
      DEF Next, Endpoint, Keepalive, Terminated, Accept, WelcomeSent, ReplySent,
          TakeItem, WaitForItem, StreamTimesOut, Expire, KeepaliveWakes,
          KeepalivePings, Client, Worker, vars
  <1>7. QED BY <1>5, <1>6

(* While the client is there, a bridge thread runs without its query only   *)
(* after the timeout frame of that query.                                   *)
THEOREM Orphans == Spec => []OrphansOnlyAfterCut
  <1>1. Init => HonestInv /\ AnswersAreHonest /\ OrphansOnlyAfterCut
    BY KindFacts
    DEF Init, HonestInv, AnswersAreHonest, OrphansOnlyAfterCut, Reading, Streaming,
        SendingKind
  <1>2. /\ IInv /\ HonestInv /\ AnswersAreHonest /\ OrphansOnlyAfterCut
        /\ [Next]_vars
        => HonestInv' /\ AnswersAreHonest' /\ OrphansOnlyAfterCut'
    BY AnswersNext, OrphansNext
  <1>3. QED BY Inductive, <1>1, <1>2, PTL DEF Spec

-----------------------------------------------------------------------------
(***************************************************************************)
(* What follows for whoever reads the socket: the theorems about the       *)
(* promise, of the frames that the proxy writes.                           *)
(***************************************************************************)

Reader == INSTANCE StreamProtocolProofs WITH Queries <- Queries, wire <- wire

LEMMA SamePromise == Promise!Spec => Reader!Spec
<1>1. Promise!Init => Reader!Init
  BY DEF Reader!Init, Promise!Init
<1>2. [Promise!Next]_wire => [Reader!Next]_wire
  <2>1. Promise!Welcome => Reader!Welcome
    BY DEF Reader!Welcome, Promise!Welcome, Reader!Notice, Promise!Notice,
         Reader!NoItem, Promise!NoItem
  <2>2. ASSUME NEW k PROVE Promise!Aside(k) => Reader!Aside(k)
    BY DEF Reader!Aside, Promise!Aside, Reader!Notice, Promise!Notice,
         Reader!NoItem, Promise!NoItem, Reader!LastFrame,
         Promise!LastFrame, Reader!Answering, Promise!Answering
  <2>3. ASSUME NEW q PROVE Promise!Begin(q) => Reader!Begin(q)
    BY DEF Reader!Begin, Promise!Begin, Reader!Status, Promise!Status,
         Reader!NoItem, Promise!NoItem, Reader!LastFrame,
         Promise!LastFrame, Reader!Answering, Promise!Answering
  <2>4. Promise!NextToken => Reader!NextToken
    BY DEF Reader!NextToken, Promise!NextToken, Reader!Token, Promise!Token,
         Reader!Answering, Promise!Answering, Reader!LastFrame,
         Promise!LastFrame, Reader!TokensOut, Promise!TokensOut
  <2>5. Promise!Finish => Reader!Finish
    BY DEF Reader!Finish, Promise!Finish, Reader!Complete, Promise!Complete,
         Reader!NoItem, Promise!NoItem, Reader!Answering,
         Promise!Answering, Reader!LastFrame, Promise!LastFrame,
         Reader!TokensOut, Promise!TokensOut
  <2>6. ASSUME NEW k PROVE Promise!Fail(k) => Reader!Fail(k)
    BY DEF Reader!Fail, Promise!Fail, Reader!Failure, Promise!Failure,
         Reader!NoItem, Promise!NoItem, Reader!Answering,
         Promise!Answering, Reader!LastFrame, Promise!LastFrame
  <2>7. /\ Reader!IdleKinds = Promise!IdleKinds
        /\ Reader!FailureKinds = Promise!FailureKinds
    BY DEF Reader!IdleKinds, Promise!IdleKinds, Reader!FailureKinds,
         Promise!FailureKinds, Reader!ReplyKinds, Promise!ReplyKinds
  <2> QED BY <2>1, <2>2, <2>3, <2>4, <2>5, <2>6, <2>7 DEF Reader!Next, Promise!Next
<1> QED BY <1>1, <1>2, PTL DEF Reader!Spec, Promise!Spec

LEMMA QueryNumbers == Queries \subseteq Nat \ {0}
BY BoundsAssumption DEF Queries

(* On the socket no query gets two last frames, of whatever kinds, so that  *)
(* a page that attributes error frames by their position (index.html takes  *)
(* them for the question it awaits) never ends the next question with one.  *)
THEOREM ReaderSeesOneAnswer == Spec => []Reader!OneAnswerPerQuery
<1>1. Reader!Spec => []Reader!OneAnswerPerQuery
  BY QueryNumbers, Reader!OneAnswer
<1> QED BY <1>1, ProxyKeepsPromise, SamePromise, PTL DEF KeepsPromise

(* On the socket the tokens of an answer follow their status frame, and     *)
(* each other, with nothing in between and with no number left out.         *)
THEOREM ReaderSeesNoGap == Spec => []Reader!TokensContiguous
<1>1. Reader!Spec => []Reader!TokensContiguous
  BY QueryNumbers, Reader!Contiguous
<1> QED BY <1>1, ProxyKeepsPromise, SamePromise, PTL DEF KeepsPromise
=============================================================================
