------------------------ MODULE StreamProtocolProofs ------------------------
(***************************************************************************)
(* What follows from the promise alone, for a reader of the frames.        *)
(***************************************************************************)
EXTENDS StreamProtocol, TLAPS

LEMMA AppendFacts ==
    ASSUME NEW S, NEW w \in Seq(S), NEW x \in S
    PROVE  /\ Append(w, x) \in Seq(S)
           /\ Append(w, x) # <<>>
           /\ Len(Append(w, x)) = Len(w) + 1 /\ Len(w) \in Nat
           /\ Append(w, x)[Len(w) + 1] = x
           /\ \A i \in 1..Len(w) : Append(w, x)[i] = w[i]
  OBVIOUS

LEMMA KindFacts ==
    /\ IdleKinds = {"pong", "refused", "ping", "auditing"}
    /\ FailureKinds = {"timeout", "failed"}
    /\ TerminalKinds = {"complete", "timeout", "failed"}
    /\ Kinds = {"welcome", "ping", "pong", "refused", "auditing", "status",
                "token", "complete", "timeout", "failed"}
  BY DEF Kinds, IdleKinds, ReplyKinds, FailureKinds, TerminalKinds

(* A step appends one frame, of one of five shapes. *)
LEMMA Steps ==
    ASSUME Queries \subseteq Nat \ {0}, TypeOK, Next
    PROVE  \E f \in Frame :
             /\ wire' = Append(wire, f)
             /\ \/ f.kind \in {"welcome", "pong", "refused", "ping", "auditing"}
                \/ /\ f.kind = "status" /\ f.q # 0 /\ ~Answering(wire)
                   /\ \A i \in 1..Len(wire) : wire[i].q # f.q
                \/ /\ f.kind = "token" /\ Answering(wire)
                   /\ f.q = LastFrame(wire).q /\ f.n = TokensOut(wire)
                \/ /\ f.kind \in TerminalKinds /\ Answering(wire)
                   /\ f.q = LastFrame(wire).q
  <1>1. Answering(wire) => /\ LastFrame(wire) \in Frame
                           /\ LastFrame(wire).q \in Nat
                           /\ TokensOut(wire) \in Nat
    <2>1. Answering(wire) => LastFrame(wire) \in Frame
      BY DEF TypeOK, Answering, LastFrame
    <2>2. \A f \in Frame : f.q \in Nat /\ f.n \in Nat
      BY DEF Frame
    <2>3. QED BY <2>1, <2>2 DEF TokensOut
  <1> USE KindFacts
  <1>2. CASE Welcome
    <2>1. Notice("welcome") \in Frame /\ Notice("welcome").kind = "welcome"
      BY DEF Notice, Frame, NoItem
    <2>2. QED BY <1>2, <2>1 DEF Welcome
  <1>3. ASSUME NEW k \in IdleKinds, Aside(k) PROVE
          \E f \in Frame : wire' = Append(wire, f) /\ f.kind \in IdleKinds
    <2>1. Notice(k) \in Frame /\ Notice(k).kind = k
      BY DEF Notice, Frame, NoItem
    <2>2. QED BY <1>3, <2>1 DEF Aside
  <1>4. ASSUME NEW q \in Queries, Begin(q) PROVE
          \E f \in Frame : /\ wire' = Append(wire, f)
                           /\ f.kind = "status" /\ f.q # 0 /\ ~Answering(wire)
                           /\ \A i \in 1..Len(wire) : wire[i].q # f.q
    <2>1. Status(q) \in Frame /\ Status(q).kind = "status" /\ Status(q).q = q
      BY DEF Status, Frame, NoItem
    <2>2. QED BY <1>4, <2>1 DEF Begin
  <1>5. CASE NextToken
    <2> DEFINE q == LastFrame(wire).q
               s == TokensOut(wire)
               f == Token(q, s, <<q, s + 1>>)
    <2>1. Answering(wire) /\ wire' = Append(wire, f)
      BY <1>5 DEF NextToken
    <2>2. f \in Frame /\ f.kind = "token" /\ f.q = q /\ f.n = s
      BY <1>1, <2>1 DEF Token, Frame
    <2>3. QED BY <2>1, <2>2
  <1>6. CASE Finish
    <2> DEFINE f == Complete(LastFrame(wire).q, TokensOut(wire))
    <2>1. Answering(wire) /\ wire' = Append(wire, f)
      BY <1>6 DEF Finish
    <2>2. f \in Frame /\ f.kind = "complete" /\ f.q = LastFrame(wire).q
      BY <1>1, <2>1 DEF Complete, Frame, NoItem
    <2>3. QED BY <2>1, <2>2
  <1>7. ASSUME NEW k \in FailureKinds, Fail(k) PROVE
          \E f \in Frame : /\ wire' = Append(wire, f)
                           /\ f.kind \in TerminalKinds /\ Answering(wire)
                           /\ f.q = LastFrame(wire).q
    <2>1. Answering(wire)
      BY <1>7 DEF Fail
    <2>2. /\ Failure(k, LastFrame(wire).q) \in Frame
          /\ Failure(k, LastFrame(wire).q).kind = k
          /\ Failure(k, LastFrame(wire).q).q = LastFrame(wire).q
      BY <1>1, <2>1 DEF Failure, Frame, NoItem
    <2>3. QED BY <1>7, <2>1, <2>2 DEF Fail
  <1>8. QED BY <1>2, <1>3, <1>4, <1>5, <1>6, <1>7 DEF Next

LEMMA TypeStep == Queries \subseteq Nat \ {0} /\ TypeOK /\ [Next]_wire => TypeOK'
  BY Steps, AppendFacts DEF TypeOK

-----------------------------------------------------------------------------
(* While a query is answered none of its frames is a last one, and a last   *)
(* frame that was written is the only one of its query.                     *)
OneAnswerInv ==
    /\ OneAnswerPerQuery
    /\ Answering(wire) => \A i \in 1..Len(wire) :
          wire[i].q = LastFrame(wire).q => wire[i].kind \notin TerminalKinds

LEMMA OneAnswerStep ==
    ASSUME Queries \subseteq Nat \ {0}, TypeOK, OneAnswerInv, Next
    PROVE  OneAnswerInv'
  <1> USE KindFacts
  <1>1. PICK f \in Frame :
             /\ wire' = Append(wire, f)
             /\ \/ f.kind \in {"welcome", "pong", "refused", "ping", "auditing"}
                \/ /\ f.kind = "status" /\ f.q # 0 /\ ~Answering(wire)
                   /\ \A i \in 1..Len(wire) : wire[i].q # f.q
                \/ /\ f.kind = "token" /\ Answering(wire)
                   /\ f.q = LastFrame(wire).q /\ f.n = TokensOut(wire)
                \/ /\ f.kind \in TerminalKinds /\ Answering(wire)
                   /\ f.q = LastFrame(wire).q
    BY Steps
  <1> DEFINE n == Len(wire)
  <1>2. /\ Len(wire') = n + 1 /\ n \in Nat /\ wire' # <<>>
        /\ wire'[n + 1] = f /\ \A i \in 1..n : wire'[i] = wire[i]
    BY <1>1, AppendFacts DEF TypeOK
  <1>3. LastFrame(wire') = f /\ (Answering(wire') <=> f.kind \in {"status", "token"})
    BY <1>2 DEF LastFrame, Answering
  <1>4. f.kind \in TerminalKinds =>
            \A i \in 1..n : wire[i].kind \in TerminalKinds => wire[i].q # f.q
    BY <1>1 DEF OneAnswerInv
  <1>5. OneAnswerPerQuery'
    <2> SUFFICES ASSUME NEW i \in 1..(n + 1), NEW j \in 1..(n + 1),
                        wire'[i].kind \in TerminalKinds,
                        wire'[j].kind \in TerminalKinds,
                        wire'[i].q = wire'[j].q
                 PROVE  i = j
      BY <1>2 DEF OneAnswerPerQuery
    <2>1. CASE i \in 1..n /\ j \in 1..n
      BY <1>2, <2>1 DEF OneAnswerInv, OneAnswerPerQuery
    <2>2. CASE i = n + 1 /\ j \in 1..n
      BY <1>2, <1>4, <2>2
    <2>3. CASE i \in 1..n /\ j = n + 1
      BY <1>2, <1>4, <2>3
    <2>4. QED BY <1>2, <2>1, <2>2, <2>3
  <1>6. ASSUME f.kind \in {"status", "token"}, NEW i \in 1..(n + 1),
               wire'[i].q = f.q
        PROVE  wire'[i].kind \notin TerminalKinds
    <2>1. CASE i = n + 1
      BY <1>2, <1>6, <2>1
    <2>2. CASE i \in 1..n
      BY <1>1, <1>2, <1>6, <2>2 DEF OneAnswerInv
    <2>3. QED BY <1>2, <2>1, <2>2
  <1>7. QED BY <1>2, <1>3, <1>5, <1>6 DEF OneAnswerInv

(* No query gets two answers, whatever the frames in between. *)
THEOREM OneAnswer ==
    ASSUME Queries \subseteq Nat \ {0} PROVE Spec => []OneAnswerPerQuery
  <1>1. Init => TypeOK /\ OneAnswerInv
    BY DEF Init, TypeOK, OneAnswerInv, OneAnswerPerQuery, Answering
  <1>2. TypeOK /\ OneAnswerInv /\ [Next]_wire => TypeOK' /\ OneAnswerInv'
    <2>1. ASSUME TypeOK, OneAnswerInv, UNCHANGED wire PROVE OneAnswerInv'
      BY <2>1 DEF OneAnswerInv, OneAnswerPerQuery, Answering, LastFrame
    <2>2. QED BY <2>1, TypeStep, OneAnswerStep
  <1>3. OneAnswerInv => OneAnswerPerQuery
    BY DEF OneAnswerInv
  <1>4. QED BY <1>1, <1>2, <1>3, PTL DEF Spec

-----------------------------------------------------------------------------
LEMMA ContiguousStep ==
    ASSUME Queries \subseteq Nat \ {0}, TypeOK, TokensContiguous, Next
    PROVE  TokensContiguous'
  <1> USE KindFacts
  <1>1. PICK f \in Frame :
             /\ wire' = Append(wire, f)
             /\ f.kind = "token" =>
                  /\ Answering(wire)
                  /\ f.q = LastFrame(wire).q /\ f.n = TokensOut(wire)
    BY Steps
  <1> DEFINE n == Len(wire)
  <1>2. /\ Len(wire') = n + 1 /\ n \in Nat
        /\ wire'[n + 1] = f /\ \A i \in 1..n : wire'[i] = wire[i]
    BY <1>1, AppendFacts DEF TypeOK
  <1> SUFFICES ASSUME NEW i \in 1..(n + 1), wire'[i].kind = "token"
               PROVE  /\ i > 1
                      /\ wire'[i - 1].q = wire'[i].q
                      /\ IF wire'[i].n = 0
                         THEN wire'[i - 1].kind = "status"
                         ELSE /\ wire'[i - 1].kind = "token"
                              /\ wire'[i - 1].n = wire'[i].n - 1
    BY <1>2 DEF TokensContiguous
  <1>3. CASE i \in 1..n
    <2>1. i > 1 /\ i - 1 \in 1..n
      BY <1>2, <1>3 DEF TokensContiguous
    <2>2. QED BY <1>2, <1>3, <2>1 DEF TokensContiguous
  <1>4. CASE i = n + 1
    <2>1. /\ n >= 1 /\ wire[n] = LastFrame(wire) /\ wire[n] \in Frame
          /\ wire[n].kind \in {"status", "token"}
      BY <1>1, <1>2, <1>4 DEF Answering, LastFrame, TypeOK
    <2>2. f.q = wire[n].q /\ f.n = TokensOut(wire)
      BY <1>1, <1>2, <1>4, <2>1
    <2>3. wire'[i] = f /\ wire'[i - 1] = wire[n] /\ i > 1
      BY <1>2, <1>4, <2>1
    <2>4. wire[n].n \in Nat
      BY <2>1 DEF Frame
    <2>5. QED BY <2>1, <2>2, <2>3, <2>4 DEF TokensOut
  <1>5. QED BY <1>2, <1>3, <1>4

(* The tokens of an answer are numbered without a gap and follow its status *)
(* frame immediately.                                                       *)
THEOREM Contiguous ==
    ASSUME Queries \subseteq Nat \ {0} PROVE Spec => []TokensContiguous
  <1>1. Init => TypeOK /\ TokensContiguous
    BY DEF Init, TypeOK, TokensContiguous
  <1>2. TypeOK /\ TokensContiguous /\ [Next]_wire => TypeOK' /\ TokensContiguous'
    BY TypeStep, ContiguousStep DEF TokensContiguous
  <1>3. QED BY <1>1, <1>2, PTL DEF Spec
=============================================================================
