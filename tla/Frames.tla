------------------------------- MODULE Frames -------------------------------
(***************************************************************************)
(* The JSON frames the proxy writes to one /ws socket.  Payload text is    *)
(* abstracted; what is kept is what the protocol's order is about:         *)
(*   kind   the frame's "type" (an "error" frame is split by its code)     *)
(*   q      the query it answers: 0 for a frame that answers none.  The    *)
(*          code sends a queryId in "complete" alone, so for the other     *)
(*          kinds q is history: who the frame belongs to, not its bytes    *)
(*   n      "seq" of a token frame, "tokenCount" of a complete frame       *)
(*   item   a token's content: <<p, i>> is the i-th text delta the agent   *)
(*          produced for query p                                           *)
(***************************************************************************)
EXTENDS Naturals, Sequences

ReplyKinds    == {"pong", "refused"}     \* answers to one client message
IdleKinds     == ReplyKinds \cup {"ping", "auditing"}
FailureKinds  == {"timeout", "failed"}   \* error codes timeout, inference_failed
TerminalKinds == FailureKinds \cup {"complete"}
Kinds         == IdleKinds \cup TerminalKinds \cup {"welcome", "status", "token"}

Frame == [kind : Kinds, q : Nat, n : Nat, item : Nat \X Nat]

NoItem == <<0, 0>>

Notice(k)       == [kind |-> k,          q |-> 0, n |-> 0, item |-> NoItem]
Status(q)       == [kind |-> "status",   q |-> q, n |-> 0, item |-> NoItem]
Token(q, s, it) == [kind |-> "token",    q |-> q, n |-> s, item |-> it]
Complete(q, c)  == [kind |-> "complete", q |-> q, n |-> c, item |-> NoItem]
Failure(k, q)   == [kind |-> k,          q |-> q, n |-> 0, item |-> NoItem]

LastFrame(w) == w[Len(w)]

(* A query is being answered: its status frame is out, its last one is not. *)
Answering(w) == w # <<>> /\ LastFrame(w).kind \in {"status", "token"}

(* How many tokens of the query being answered are out. *)
TokensOut(w) == IF LastFrame(w).kind = "token" THEN LastFrame(w).n + 1 ELSE 0
=============================================================================
