--------------------------- MODULE StreamProtocol ---------------------------
(***************************************************************************)
(* What the proxy promises to whoever reads one /ws socket, stated on the  *)
(* frames alone.  The error and token frames carry no query id, so a       *)
(* client can attribute them only by position; this is the order that      *)
(* makes that sound:                                                       *)
(*   - the first frame is welcome;                                         *)
(*   - a query is answered by status, then the agent's tokens in the       *)
(*     agent's order with seq 0, 1, 2, ..., then one complete or error     *)
(*     frame, with nothing else in between: no ping, no reply to another   *)
(*     message, no frame of another query;                                 *)
(*   - no query is answered twice.                                         *)
(* The socket may fall silent anywhere: the client may leave.              *)
(***************************************************************************)
EXTENDS Frames

CONSTANT Queries        \* the query numbers there are

VARIABLE wire           \* the frames written so far, oldest first

Init == wire = <<>>

Welcome ==
    /\ wire = <<>>
    /\ wire' = Append(wire, Notice("welcome"))

Aside(k) ==             \* a frame that belongs to no query
    /\ wire # <<>> /\ ~Answering(wire)
    /\ wire' = Append(wire, Notice(k))

Begin(q) ==
    /\ wire # <<>> /\ ~Answering(wire)
    /\ \A i \in 1..Len(wire) : wire[i].q # q
    /\ wire' = Append(wire, Status(q))

NextToken ==            \* the agent's next one
    /\ Answering(wire)
    /\ LET q == LastFrame(wire).q
           s == TokensOut(wire)
       IN  wire' = Append(wire, Token(q, s, <<q, s + 1>>))

Finish ==
    /\ Answering(wire)
    /\ wire' = Append(wire, Complete(LastFrame(wire).q, TokensOut(wire)))

Fail(k) ==
    /\ Answering(wire)
    /\ wire' = Append(wire, Failure(k, LastFrame(wire).q))

Next ==
    \/ Welcome
    \/ \E k \in IdleKinds : Aside(k)
    \/ \E q \in Queries : Begin(q)
    \/ NextToken
    \/ Finish
    \/ \E k \in FailureKinds : Fail(k)

Spec == Init /\ [][Next]_wire

-----------------------------------------------------------------------------
TypeOK == wire \in Seq(Frame)

(* No query gets two answers: a second complete or error frame of one query *)
(* would be taken by a client for the answer to its next query.             *)
OneAnswerPerQuery ==
    \A i, j \in 1..Len(wire) :
        /\ wire[i].kind \in TerminalKinds
        /\ wire[j].kind \in TerminalKinds
        /\ wire[i].q = wire[j].q
        => i = j

(* Every frame before a token is the previous token of the same answer, or  *)
(* the status frame that opens it: the seq numbers have no gap and no frame *)
(* of anything else comes between.                                          *)
TokensContiguous ==
    \A i \in 1..Len(wire) : wire[i].kind = "token" =>
        /\ i > 1
        /\ wire[i - 1].q = wire[i].q
        /\ IF wire[i].n = 0 THEN wire[i - 1].kind = "status"
                            ELSE /\ wire[i - 1].kind = "token"
                                 /\ wire[i - 1].n = wire[i].n - 1
=============================================================================
