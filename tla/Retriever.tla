----------------------------- MODULE Retriever ------------------------------
(***************************************************************************)
(* One retrieval of context by the agent's tool: retrieve, the embedding,  *)
(* and the loop that waits out a collection scaling up from zero.          *)
(*                                                                         *)
(* The loop is sequential; what is hard is time.  The deadline is compared *)
(* only after a search has come back cold, a search may itself take as     *)
(* long as the client's read timeout, and the collection warms up at a     *)
(* moment of its own.  clock counts seconds since the deadline was set;    *)
(* time.sleep sleeps what it is given, and the loop's own statements take  *)
(* no time.                                                                *)
(***************************************************************************)
EXTENDS Integers

CONSTANTS
    Ceiling,        \* COLD_START_CEILING_SECONDS
    BackoffStart,   \* COLD_START_BACKOFF_START_SECONDS
    BackoffMax,     \* COLD_START_BACKOFF_MAX_SECONDS
    SearchMax,      \* settings.opensearch_timeout: the longest search
    LastWarmUp,     \* bound: the latest warm-up considered
    Callers         \* who calls: "tool", or "direct" with an on_cold_start

ASSUME TimesAssumption ==
    /\ Ceiling \in Nat /\ SearchMax \in Nat /\ LastWarmUp \in Nat
    /\ BackoffStart \in Nat \ {0} /\ BackoffMax \in Nat
    /\ BackoffStart <= BackoffMax
ASSUME CallersAssumption == Callers \subseteq {"tool", "direct"}

VARIABLES
    caller,
    warmAt,     \* when the collection is up
    pc,
    clock,
    backoff,
    notified,   \* cold_start_notified
    calls,      \* history: how often on_cold_start was invoked
    cold,       \* history: a search has come back cold
    spurious    \* history: one that was begun when the collection was up

vars == <<caller, warmAt, pc, clock, backoff, notified, calls, cold, spurious>>

Results == {"nothing", "mocked", "found", "failed", "timedout"}

Lesser(a, b) == IF a < b THEN a ELSE b

Init ==
    /\ caller \in Callers /\ warmAt \in 0..LastWarmUp
    /\ pc = "start" /\ clock = 0 /\ backoff = BackoffStart
    /\ notified = FALSE /\ calls = 0
    /\ cold = FALSE /\ spurious = FALSE

-----------------------------------------------------------------------------
(* An empty query, mock mode, an embedding that fails, or on to the search. *)
Retrieve ==
    /\ pc = "start"
    /\ pc' \in {"nothing", "mocked", "failed", "search"}
    /\ UNCHANGED <<caller, warmAt, clock, backoff, notified, calls, cold, spurious>>

SearchTakes(d) == pc = "search" /\ clock' = clock + d

SearchFinds(d) ==
    /\ SearchTakes(d)
    /\ clock + d >= warmAt
    /\ pc' = "found"
    /\ UNCHANGED <<caller, warmAt, backoff, notified, calls, cold, spurious>>

SearchFails(d) ==
    /\ SearchTakes(d)
    /\ pc' = "failed"
    /\ UNCHANGED <<caller, warmAt, backoff, notified, calls, cold, spurious>>

(* on_cold_start is not None.  A direct caller passes a callback, as tests  *)
(* do; the tool, which is what the deployed agent calls, passes what the    *)
(* context variable current_cold_start_callback holds.  Its default is      *)
(* None, and nothing in the entrypoint, nor anywhere else, sets it.         *)
CallbackSet == caller = "direct"

(* Mutant: the callback runs on every cold answer. *)
SearchColdUnflagged(d) ==
    /\ SearchTakes(d)
    /\ pc' = "cold"
    /\ calls' = IF CallbackSet THEN calls + 1 ELSE calls
    /\ cold' = TRUE
    /\ spurious' = (spurious \/ clock >= warmAt)
    /\ UNCHANGED <<caller, warmAt, backoff, notified>>

(* Any connection error, read timeout or 503 counts as a cold start, from a *)
(* collection that is up as well.  A callback that is None is passed over,  *)
(* and one that raises cannot break the loop.                               *)
SearchCold(d) ==
    /\ SearchTakes(d)
    /\ pc' = "cold"
    /\ notified' = TRUE
    /\ calls' = IF ~notified /\ CallbackSet THEN calls + 1 ELSE calls
    /\ cold' = TRUE
    /\ spurious' = (spurious \/ clock >= warmAt)
    /\ UNCHANGED <<caller, warmAt, backoff>>

Remaining == Ceiling - clock

(* Mutant: give up when the next wait would not fit. *)
GiveUpEarly ==
    /\ pc = "cold" /\ Remaining <= backoff
    /\ pc' = "timedout"
    /\ UNCHANGED <<caller, warmAt, clock, backoff, notified, calls, cold, spurious>>

GiveUp ==       \* raise RetrievalTimeout
    /\ pc = "cold" /\ Remaining <= 0
    /\ pc' = "timedout"
    /\ UNCHANGED <<caller, warmAt, clock, backoff, notified, calls, cold, spurious>>

(* Mutant: the wait is not cut at the deadline. *)
SleepBackoff ==
    /\ pc = "cold" /\ Remaining > 0
    /\ clock' = clock + backoff
    /\ backoff' = Lesser(backoff * 2, BackoffMax)
    /\ pc' = "search"
    /\ UNCHANGED <<caller, warmAt, notified, calls, cold, spurious>>

(* Mutant: the backoff doubles without its cap. *)
SleepUncapped ==
    /\ pc = "cold" /\ Remaining > 0
    /\ clock' = clock + Lesser(backoff, Remaining)
    /\ backoff' = backoff * 2
    /\ pc' = "search"
    /\ UNCHANGED <<caller, warmAt, notified, calls, cold, spurious>>

(* Mutant: retry at once. *)
SleepNot ==
    /\ pc = "cold" /\ Remaining > 0
    /\ pc' = "search"
    /\ UNCHANGED <<caller, warmAt, clock, backoff, notified, calls, cold, spurious>>

Sleep ==
    /\ pc = "cold" /\ Remaining > 0
    /\ clock' = clock + Lesser(backoff, Remaining)
    /\ backoff' = Lesser(backoff * 2, BackoffMax)
    /\ pc' = "search"
    /\ UNCHANGED <<caller, warmAt, notified, calls, cold, spurious>>

Search == \E d \in 0..SearchMax : SearchFinds(d) \/ SearchFails(d) \/ SearchCold(d)

Returned == pc \in Results /\ UNCHANGED vars

Step == Retrieve \/ Search \/ Sleep \/ GiveUp

Next == Step \/ Returned

(* The thread runs, and a search ends by the client's timeout. *)
Spec == Init /\ [][Next]_vars /\ WF_vars(Step)

-----------------------------------------------------------------------------
TypeOK ==
    /\ caller \in Callers /\ warmAt \in 0..LastWarmUp
    /\ pc \in {"start", "search", "cold"} \cup Results
    /\ clock \in Nat
    /\ backoff \in BackoffStart..BackoffMax
    /\ notified \in BOOLEAN /\ calls \in Nat
    /\ cold \in BOOLEAN /\ spurious \in BOOLEAN

(* A retrieval never takes longer than the ceiling and one search more: the *)
(* last search is begun at the ceiling, never behind it.                    *)
WaitBounded ==
    /\ pc = "search" => clock <= Ceiling
    /\ clock <= Ceiling + SearchMax

(* RetrievalTimeout is the truth: the whole ceiling was waited, and no      *)
(* collection that was up one search before the ceiling is given up, unless *)
(* a search of it failed like a cold one.                                   *)
WarmIsFound ==
    pc = "timedout" =>
        /\ clock >= Ceiling
        /\ spurious \/ warmAt + SearchMax > Ceiling

(* A caller with a callback is told of a cold start once, however often the *)
(* search is retried, and not of one that was not met.  The user of the     *)
(* deployed agent is told of none: its tool has no callback to run.         *)
ToldOnce == calls = IF cold /\ caller = "direct" THEN 1 ELSE 0

(* Every retrieval ends, whatever the collection does. *)
RetrievalEnds == pc = "search" ~> pc \in Results

-----------------------------------------------------------------------------
(* The comment on current_cold_start_callback: "When aoss is scaling from   *)
(* zero, retrieve invokes the callback so the handler can emit a status     *)
(* message".                                                                *)
ColdStartTold == cold => calls > 0
=============================================================================
