----------------------------- MODULE WsProxyInv -----------------------------
(***************************************************************************)
(* The inductive invariant of WsProxy: what ties the control state of the  *)
(* two tasks, the lock, the bridge queue and the frames written together.  *)
(***************************************************************************)
EXTENDS WsProxy

SendingKind(kinds) == pc = "send" /\ out.kind \in kinds

(* The status frame is out, the last frame of the answer is not. *)
Streaming == pc \in {"poll", "wait"} \/ SendingKind({"token"} \cup TerminalKinds)

InQuery == Streaming \/ SendingKind({"status"})

Early == pc \in {"accept", "rejected"} \/ SendingKind({"welcome"})

ControlInv ==
    /\ active <=> InQuery
    /\ Early => ka = "off" /\ wire = <<>> /\ qid = 0
    /\ pc = "ended" => ka \in {"off", "stopped"}
    /\ ka = "off" => Early \/ pc = "ended"
    /\ closed /\ clientUp => pc = "ended"
    /\ ~wsOpen => ~clientUp

(* Every message received was sent, and an audit being announced still has  *)
(* its query to come.                                                       *)
CountInv ==
    /\ qid + Len(inbox) <= sent
    /\ SendingKind({"auditing"}) => qid + Len(inbox) < sent
    /\ InQuery => qid >= 1

(* Who is at the lock.  A keepalive that saw active = FALSE is in front of  *)
(* the status frame, never behind it, and gone when the answer streams.     *)
LockInv ==
    /\ pc = "send" /\ ka = "ping" => Len(lock) = 2 /\ lock[1] # lock[2]
    /\ pc = "send" /\ ka # "ping" => Len(lock) = 1 /\ lock[1] = "endpoint"
    /\ pc # "send" /\ ka = "ping" => Len(lock) = 1 /\ lock[1] = "keepalive"
    /\ pc # "send" /\ ka # "ping" => lock = <<>>
    /\ SendingKind({"status"}) /\ ka = "ping" => lock[1] = "keepalive"
    /\ Streaming => ka # "ping"

(* Which frame the endpoint is sending. *)
OutInv ==
    pc = "send" =>
        \/ out \in {Notice(k) : k \in {"welcome", "pong", "refused", "auditing"}}
        \/ out = Status(qid)
        \/ out = Token(qid, seq, <<qid, seq + 1>>)
        \/ out = Complete(qid, seq)
        \/ \E k \in FailureKinds : out = Failure(k, qid)

(* How many items of the current query's queue have been taken. *)
Taken == IF SendingKind({"token"}) THEN seq + 1 ELSE seq

(* The queue of the query being streamed holds the agent's next tokens, in  *)
(* order, and while the thread runs nothing else has been produced.         *)
Reading == Streaming /\ ~SendingKind(TerminalKinds)

QueueInv ==
    /\ Reading =>
        /\ \A j \in 1..Len(queue[qid]) :
              queue[qid][j].kind = "token" => queue[qid][j].item = <<qid, Taken + j>>
        /\ worker[qid] = "running" => Taken + Len(queue[qid]) = produced[qid]
    /\ SendingKind({"status"}) => seq = 0
    /\ \A q \in Queries :
        q > qid \/ (q = qid /\ SendingKind({"status"})) =>
            worker[q] = "none" /\ queue[q] = <<>> /\ produced[q] = 0

(* What the frames written so far say of the endpoint. *)
WireInv ==
    /\ \A i \in 1..Len(wire) :
          wire[i].q <= qid /\ (SendingKind({"status"}) => wire[i].q < qid)
    /\ clientUp /\ ~Early /\ pc # "ended" => wire # <<>>
    /\ clientUp /\ ~Streaming => ~Answering(wire)
    /\ clientUp /\ Streaming =>
          Answering(wire) /\ LastFrame(wire).q = qid /\ TokensOut(wire) = seq

(* No frame and no query before authentication (AuthBeforeAnything). *)
AuthInv ==
    pc \notin {"accept", "rejected"} \/ wire # <<>> \/ qid > 0 =>
        authed /\ (settings.auth => settings.cookie = "good")

(* The thread of the current query against what it left on the queue: the   *)
(* end marker comes last, after all that was produced, and an exception     *)
(* comes before it.                                                         *)
HonestInv ==
    /\ Reading =>
        LET w == worker[qid]
            b == queue[qid]
        IN  /\ \A j \in 1..Len(b) :
                /\ b[j].kind = "exc"  => w \in {"raised", "failed"}
                /\ b[j].kind = "done" =>
                      /\ w \in {"ended", "failed"}
                      /\ w = "ended" => produced[qid] = Taken + j - 1
            /\ w \in {"raised", "failed"} =>
                \E i \in 1..Len(b) :
                    b[i].kind = "exc" /\ \A j \in 1..i : b[j].kind # "done"
    /\ SendingKind({"complete"}) => worker[qid] = "ended" /\ seq = produced[qid]
    /\ SendingKind({"failed"})   => worker[qid] \in {"raised", "failed"}
    /\ \A i \in 1..Len(wire) : wire[i].kind \in TerminalKinds => wire[i].q \in Queries

IInv ==
    /\ TypeOK
    /\ ControlInv /\ CountInv /\ LockInv /\ OutInv
    /\ QueueInv /\ WireInv /\ AuthInv
=============================================================================
