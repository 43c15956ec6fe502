-------------------------- MODULE RetrieverProofs ---------------------------
(***************************************************************************)
(* The bounds of Retriever for every choice of the times, proved from one  *)
(* inductive invariant.                                                    *)
(***************************************************************************)
EXTENDS Retriever, TLAPS

(* A search is begun by the ceiling; a callback ran if and only if there is *)
(* one and a cold answer was seen; and a cold answer that is not spurious came from a      *)
(* search begun before the collection was up.                               *)
IInv ==
    /\ TypeOK
    /\ pc \in {"start", "search"} => clock <= Ceiling
    /\ clock <= Ceiling + SearchMax
    /\ notified = cold /\ ToldOnce
    /\ pc = "cold" => spurious \/ warmAt + SearchMax > clock
    /\ WarmIsFound

LEMMA LesserFacts ==
    ASSUME NEW a \in Int, NEW b \in Int
    PROVE  Lesser(a, b) \in {a, b} /\ Lesser(a, b) <= a /\ Lesser(a, b) <= b
  BY DEF Lesser

LEMMA InitInv == Init => IInv
<1> SUFFICES ASSUME Init PROVE IInv
  OBVIOUS
<1>1. TypeOK
  <2>1. backoff \in BackoffStart..BackoffMax
    BY TimesAssumption DEF Init
  <2> QED
    BY <2>1 DEF Init, TypeOK
<1>2. clock <= Ceiling /\ clock <= Ceiling + SearchMax
  BY TimesAssumption DEF Init
<1>3. notified = cold /\ ToldOnce
  BY DEF Init, ToldOnce
<1> QED
  BY <1>1, <1>2, <1>3 DEF Init, IInv, WarmIsFound

LEMMA StepInv == IInv /\ [Next]_vars => IInv'
<1> SUFFICES ASSUME IInv, [Next]_vars PROVE IInv'
  OBVIOUS
<1> USE TimesAssumption
<1>1. CASE Retrieve
  BY <1>1 DEF Retrieve, IInv, TypeOK, WarmIsFound, ToldOnce, Results
<1>2. CASE Search
  <2>1. PICK d \in 0..SearchMax : SearchFinds(d) \/ SearchFails(d) \/ SearchCold(d)
    BY <1>2 DEF Search
  <2>2. clock' = clock + d /\ clock' \in Nat /\ clock' <= Ceiling + SearchMax
    BY <2>1 DEF SearchFinds, SearchFails, SearchCold, SearchTakes, IInv, TypeOK
  <2>3. CASE SearchFinds(d) \/ SearchFails(d)
    BY <2>2, <2>3 DEF SearchFinds, SearchFails, IInv, TypeOK, WarmIsFound, ToldOnce, Results
  <2>4. CASE SearchCold(d)
    <3>1. TypeOK'
      <4>1. spurious' \in BOOLEAN /\ notified' \in BOOLEAN /\ cold' \in BOOLEAN
        BY <2>4 DEF SearchCold, IInv, TypeOK
      <4>2. calls' \in Nat
        BY <2>4 DEF SearchCold, IInv, TypeOK
      <4> QED
        BY <2>2, <2>4, <4>1, <4>2 DEF SearchCold, IInv, TypeOK
    <3>2. notified' = cold' /\ ToldOnce'
      <4>1. CASE caller = "direct"
        <5>1. calls = (IF notified THEN 1 ELSE 0)
          BY <4>1 DEF IInv, ToldOnce
        <5>2. calls' = 1
          BY <2>4, <4>1, <5>1 DEF SearchCold, CallbackSet
        <5> QED
          BY <2>4, <4>1, <5>2 DEF SearchCold, ToldOnce
      <4>2. CASE caller # "direct"
        <5>1. calls' = calls /\ calls = 0
          BY <2>4, <4>2 DEF SearchCold, CallbackSet, IInv, ToldOnce
        <5> QED
          BY <2>4, <4>2, <5>1 DEF SearchCold, ToldOnce
      <4> QED
        BY <4>1, <4>2
    <3>3. spurious' \/ warmAt' + SearchMax > clock'
      <4>1. CASE clock >= warmAt
        BY <2>4, <4>1 DEF SearchCold
      <4>2. CASE ~(clock >= warmAt)
        BY <2>2, <2>4, <4>2 DEF SearchCold, IInv, TypeOK
      <4> QED
        BY <4>1, <4>2
    <3>4. pc' = "cold"
      BY <2>4 DEF SearchCold
    <3> QED
      BY <2>2, <3>1, <3>2, <3>3, <3>4 DEF IInv, WarmIsFound
  <2> QED
    BY <2>1, <2>3, <2>4
<1>3. CASE Sleep
  <2>1. clock' \in Nat /\ clock' <= Ceiling
    BY <1>3, LesserFacts DEF Sleep, Remaining, Lesser, IInv, TypeOK
  <2>2. backoff' \in BackoffStart..BackoffMax
    BY <1>3 DEF Sleep, Lesser, IInv, TypeOK
  <2> QED
    BY <1>3, <2>1, <2>2 DEF Sleep, IInv, TypeOK, WarmIsFound, ToldOnce
<1>4. CASE GiveUp
  BY <1>4 DEF GiveUp, Remaining, IInv, TypeOK, WarmIsFound, ToldOnce, Results
<1>5. CASE UNCHANGED vars
  BY <1>5 DEF vars, IInv, TypeOK, WarmIsFound, ToldOnce
<1> QED
  BY <1>1, <1>2, <1>3, <1>4, <1>5 DEF Next, Step, Returned

LEMMA Invariance == Spec => []IInv
  BY InitInv, StepInv, PTL DEF Spec

(* However long the collection stays down and however late the searches    *)
(* come back, a retrieval takes the ceiling and one search at most.        *)
THEOREM Bounded == Spec => []WaitBounded
<1>1. IInv => WaitBounded
  BY DEF IInv, WaitBounded
<1> QED
  BY <1>1, Invariance, PTL

(* The state of a retrieval has its types: its clock and its waits stay     *)
(* natural numbers, whatever the arithmetic of the ceiling and the backoff. *)
THEOREM TypeCorrect == Spec => []TypeOK
<1>1. IInv => TypeOK
  BY DEF IInv
<1> QED
  BY <1>1, Invariance, PTL

(* For every ceiling, backoff and read timeout: RetrievalTimeout is raised  *)
(* after the whole ceiling, and not for a collection that was up in time.   *)
THEOREM Warm == Spec => []WarmIsFound
<1>1. IInv => WarmIsFound
  BY DEF IInv
<1> QED
  BY <1>1, Invariance, PTL

(* A callback that a caller passes runs exactly once in a retrieval that    *)
(* meets a cold start, and never in another; the tool of the deployed agent,*)
(* which passes none, tells nobody of any.                                  *)
THEOREM Told == Spec => []ToldOnce
<1>1. IInv => ToldOnce
  BY DEF IInv
<1> QED
  BY <1>1, Invariance, PTL
=============================================================================
