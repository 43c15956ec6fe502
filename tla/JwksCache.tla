----------------------------- MODULE JwksCache ------------------------------
(***************************************************************************)
(* The cache of the user pool's signing keys, and the verifications that   *)
(* use it at the same time: verify_token runs on worker threads            *)
(* (asyncio.to_thread) and the cache is two module globals with no lock.   *)
(*                                                                         *)
(* _JWKS_CACHE is a reference to a dict.  A fetch binds it to a new dict;  *)
(* a miss clears IN PLACE whatever dict it is bound to, which another      *)
(* thread may be holding as its own jwks.  So dicts are objects here:      *)
(* content[o] is the key ids in o, {} for one that was cleared (and for    *)
(* the empty dict the module starts with), which Python takes for false.   *)
(***************************************************************************)
EXTENDS Naturals, FiniteSets

CONSTANTS
    Calls,      \* the verifications there are, each on a thread of its own
    Kids,       \* key ids the pool may publish
    FirstKid,   \* the one it publishes at the start
    Unknown,    \* a key id it never publishes
    Malformed,  \* a token whose header does not parse
    TTL,        \* _JWKS_TTL_SECONDS, in ticks
    FetchMax,   \* ticks a fetch may take before it fails (timeout=10)
    MaxTime     \* bound: the clock stops here

ASSUME KidsAssumption ==
    FirstKid \in Kids /\ Unknown \notin Kids /\ Malformed \notin Kids
ASSUME TimesAssumption ==
    TTL \in Nat \ {0} /\ FetchMax \in Nat /\ MaxTime \in Nat

Tokens == Kids \cup {Unknown, Malformed}

(* A dict is named by the call that fetched it and on which try. *)
Objects == {<<"initial", 0>>} \cup Calls \X {0, 1}

VARIABLES
    clock,
    pool,       \* the key ids published now
    lastSeen,   \* per key id, when it was last published
    cache,      \* _JWKS_CACHE: the dict it is bound to
    content,    \* what the dicts hold
    fetchedAt,  \* _JWKS_FETCHED_AT
    pc, kid,    \* per call: where it is; the key id its token names
    tries,      \* how often it has cleared the cache
    now,        \* now of its current _fetch_jwks
    got,        \* the response of its fetch
    jwks,       \* the dict its lookup uses
    absent,     \* history: its key was not published at some moment of the call
    disturbed   \* history: meanwhile another call bound or cleared the cache

env   == <<clock, pool, lastSeen>>
mod   == <<cache, content, fetchedAt>>
local == <<pc, kid, tries, now, got, jwks>>
ghost == <<absent, disturbed>>
vars  == <<env, mod, local, ghost>>

Results == {"accepted", "nokey", "badtoken", "nofetch"}

Init ==
    /\ clock = 0 /\ pool = {FirstKid}
    /\ lastSeen = [k \in Kids |-> 0]
    /\ cache = <<"initial", 0>> /\ fetchedAt = 0
    /\ content = [o \in Objects |-> {}]
    /\ pc    = [c \in Calls |-> "idle"]
    /\ kid   = [c \in Calls |-> Unknown]
    /\ tries = [c \in Calls |-> 0]
    /\ now   = [c \in Calls |-> 0]
    /\ got   = [c \in Calls |-> {}]
    /\ jwks  = [c \in Calls |-> <<"initial", 0>>]
    /\ absent    = [c \in Calls |-> FALSE]
    /\ disturbed = [c \in Calls |-> FALSE]

Goto(c, l) == pc' = [pc EXCEPT ![c] = l]

(* The call is over; its frame, and what it still held, is gone. *)
Ends(c, r) ==
    /\ Goto(c, r)
    /\ tries' = [tries EXCEPT ![c] = 0] /\ now' = [now EXCEPT ![c] = 0]
    /\ got'   = [got   EXCEPT ![c] = {}]
    /\ jwks'  = [jwks  EXCEPT ![c] = <<"initial", 0>>]
    /\ kid'   = [kid   EXCEPT ![c] = Unknown]
    /\ IF r = "nokey" THEN UNCHANGED ghost
       ELSE /\ absent'    = [absent    EXCEPT ![c] = FALSE]
            /\ disturbed' = [disturbed EXCEPT ![c] = FALSE]

Running(c) == pc[c] \notin {"idle"} \cup Results

(* What a write of the cache by c means to the others. *)
Disturb(c) ==
    disturbed' = [d \in Calls |-> disturbed[d] \/ (d # c /\ Running(d))]

-----------------------------------------------------------------------------
(***************************************************************************)
(* verify_token                                                            *)
(***************************************************************************)

Call(c) ==
    /\ pc[c] = "idle"
    /\ \E k \in Tokens :
        /\ kid' = [kid EXCEPT ![c] = k]
        /\ absent' = [absent EXCEPT ![c] = k \notin pool]
    /\ Goto(c, "check")
    /\ UNCHANGED <<env, mod, tries, now, got, jwks, disturbed>>

Fresh == content[cache] # {} /\ clock - fetchedAt < TTL

(* Mutant: a cache that is not empty is used for ever. *)
CheckNoTtl(c) ==
    /\ pc[c] = "check"
    /\ IF content[cache] # {}
       THEN Goto(c, "bound") /\ UNCHANGED now
       ELSE Goto(c, "fetch") /\ now' = [now EXCEPT ![c] = clock]
    /\ UNCHANGED <<env, mod, kid, tries, got, jwks, ghost>>

Check(c) ==     \* _fetch_jwks: now, and the test of both globals
    /\ pc[c] = "check"
    /\ IF Fresh THEN Goto(c, "bound") /\ UNCHANGED now
                ELSE Goto(c, "fetch") /\ now' = [now EXCEPT ![c] = clock]
    /\ UNCHANGED <<env, mod, kid, tries, got, jwks, ghost>>

Answered(c) ==  \* the pool answers; the response is on its way
    /\ pc[c] = "fetch"
    /\ got' = [got EXCEPT ![c] = pool]
    /\ Goto(c, "arrive")
    /\ UNCHANGED <<env, mod, kid, tries, now, jwks, ghost>>

FetchFails(c) ==
    /\ pc[c] \in {"fetch", "arrive"}
    /\ Ends(c, "nofetch")
    /\ UNCHANGED <<env, mod>>

(* Some call is about to look its key up in o; any other dict is garbage    *)
(* once the cache is bound to a new one.                                    *)
InUse(o) == \E c \in Calls : pc[c] = "lookup" /\ jwks[c] = o

Store(c) ==     \* _JWKS_CACHE = json.loads(...)
    /\ pc[c] = "arrive"
    /\ cache' = <<c, tries[c]>>
    /\ content' = [o \in Objects |->
                     IF o = <<c, tries[c]>> THEN got[c]
                     ELSE IF InUse(o) THEN content[o] ELSE {}]
    /\ got' = [got EXCEPT ![c] = {}]
    /\ Goto(c, "stamp")
    /\ Disturb(c)
    /\ UNCHANGED <<env, fetchedAt, kid, tries, now, jwks, absent>>

(* Mutant: the stamp is the time the cache expires at. *)
StampExpiry(c) ==
    /\ pc[c] = "stamp"
    /\ fetchedAt' = now[c] + TTL
    /\ now' = [now EXCEPT ![c] = 0]
    /\ Goto(c, "bound")
    /\ UNCHANGED <<env, cache, content, kid, tries, got, jwks, ghost>>

Stamp(c) ==     \* _JWKS_FETCHED_AT = now
    /\ pc[c] = "stamp"
    /\ fetchedAt' = now[c]
    /\ now' = [now EXCEPT ![c] = 0]
    /\ Goto(c, "bound")
    /\ UNCHANGED <<env, cache, content, kid, tries, got, jwks, ghost>>

Bound(c) ==     \* return _JWKS_CACHE: the global is read again
    /\ pc[c] = "bound"
    /\ jwks' = [jwks EXCEPT ![c] = cache]
    /\ Goto(c, "lookup")
    /\ UNCHANGED <<env, mod, kid, tries, now, got, ghost>>

Found(c)   == kid[c] # Malformed /\ kid[c] \in content[jwks[c]]
Missing(c) == kid[c] # Malformed /\ kid[c] \notin content[jwks[c]]

(* Mutant: the miss after the refresh refreshes again. *)
LookupAgain(c) ==
    /\ pc[c] = "lookup"
    /\ \/ kid[c] = Malformed /\ Ends(c, "badtoken")
       \/ Found(c) /\ (Ends(c, "accepted") \/ Ends(c, "badtoken"))
       \/ Missing(c) /\ Goto(c, "clear")
          /\ UNCHANGED <<kid, tries, now, got, jwks, ghost>>
    /\ UNCHANGED <<env, mod>>

Lookup(c) ==    \* the header, the key, and jwt.decode with it
    /\ pc[c] = "lookup"
    /\ \/ kid[c] = Malformed /\ Ends(c, "badtoken")
       \/ Found(c) /\ (Ends(c, "accepted") \/ Ends(c, "badtoken"))
       \/ Missing(c) /\ tries[c] = 0 /\ Goto(c, "clear")
          /\ UNCHANGED <<kid, tries, now, got, jwks, ghost>>
       \/ Missing(c) /\ tries[c] = 1 /\ Ends(c, "nokey")
    /\ UNCHANGED <<env, mod>>

(* Mutant: the second _fetch_jwks finds the cache as it was. *)
ClearNothing(c) ==
    /\ pc[c] = "clear"
    /\ tries' = [tries EXCEPT ![c] = 1]
    /\ Goto(c, "check")
    /\ UNCHANGED <<env, mod, kid, now, got, jwks, ghost>>

Clear(c) ==     \* _JWKS_CACHE.clear(), in place
    /\ pc[c] = "clear"
    /\ content' = [content EXCEPT ![cache] = {}]
    /\ tries' = [tries EXCEPT ![c] = 1]
    /\ jwks'  = [jwks EXCEPT ![c] = <<"initial", 0>>]
    /\ Goto(c, "check")
    /\ Disturb(c)
    /\ UNCHANGED <<env, cache, fetchedAt, kid, now, got, absent>>

Step(c) ==
    \/ Check(c) \/ Answered(c) \/ FetchFails(c) \/ Store(c) \/ Stamp(c)
    \/ Bound(c) \/ Lookup(c) \/ Clear(c)

-----------------------------------------------------------------------------
(***************************************************************************)
(* The user pool and time.  A thread's own steps take no time against the  *)
(* clock, which counts minutes; a fetch takes at most FetchMax.            *)
(***************************************************************************)

Publish ==      \* a new key, next to the old ones
    /\ \E k \in Kids \ (pool \cup {FirstKid}) :
        /\ pool' = pool \cup {k}
        /\ lastSeen' = [lastSeen EXCEPT ![k] = clock]
    /\ UNCHANGED <<clock, mod, local, ghost>>

Retire ==       \* the old key is withdrawn
    /\ FirstKid \in pool /\ pool # {FirstKid}
    /\ pool' = pool \ {FirstKid}
    /\ absent' = [c \in Calls |-> absent[c] \/ (Running(c) /\ kid[c] = FirstKid)]
    /\ UNCHANGED <<clock, lastSeen, mod, local, disturbed>>

Tick ==
    /\ clock < MaxTime
    /\ \A c \in Calls : Running(c) =>
          pc[c] \in {"fetch", "arrive"} /\ clock - now[c] < FetchMax
    /\ clock' = clock + 1
    /\ lastSeen' = [k \in Kids |-> IF k \in pool THEN clock + 1 ELSE lastSeen[k]]
    /\ UNCHANGED <<pool, mod, local, ghost>>

Finished ==
    /\ \A c \in Calls : pc[c] \in Results
    /\ UNCHANGED vars

Next ==
    \/ \E c \in Calls : Call(c) \/ Step(c)
    \/ Publish \/ Retire \/ Tick \/ Finished

(* A thread that can run does; a fetch is answered or fails (its timeout).  *)
Spec == Init /\ [][Next]_vars /\ \A c \in Calls : WF_vars(Step(c))

-----------------------------------------------------------------------------
TypeOK ==
    /\ clock \in 0..MaxTime /\ fetchedAt \in 0..MaxTime
    /\ pool \subseteq Kids /\ pool # {}
    /\ lastSeen \in [Kids -> 0..MaxTime]
    /\ cache \in Objects /\ content \in [Objects -> SUBSET Kids]
    /\ pc \in [Calls -> {"idle", "check", "fetch", "arrive", "stamp", "bound",
                         "lookup", "clear"} \cup Results]
    /\ kid \in [Calls -> Tokens] /\ tries \in [Calls -> {0, 1}]
    /\ now \in [Calls -> 0..MaxTime] /\ got \in [Calls -> SUBSET Kids]
    /\ jwks \in [Calls -> Objects]
    /\ absent \in [Calls -> BOOLEAN] /\ disturbed \in [Calls -> BOOLEAN]

(* A key that was withdrawn is not accepted for longer than the lifetime of *)
(* the cache and of one fetch.  The fetch counts because two of them may    *)
(* end together and leave the keys of one with the time of the other.       *)
RetiredKeysDie ==
    [][\A c \in Calls :
          pc[c] = "lookup" /\ pc'[c] = "accepted" =>
              clock - lastSeen[kid[c]] < TTL + FetchMax]_vars

(* A call that no other call disturbs rejects a token for want of a key     *)
(* only if the key was not published: however old the cache was, the        *)
(* refresh finds a key that has just been rotated in.                       *)
RefreshFindsKey ==
    \A c \in Calls : pc[c] = "nokey" => absent[c] \/ disturbed[c]

(* Every verification ends, with an answer or an AuthError, also when       *)
(* others keep clearing the cache under it.                                 *)
CallsEnd == \A c \in Calls : Running(c) ~> pc[c] \in Results

-----------------------------------------------------------------------------
(* The comment in verify_token: "Key rotation: refresh once and retry", and *)
(* its docstring: a token is validated unless there is a problem with it.   *)
PublishedKeyFound == \A c \in Calls : pc[c] = "nokey" => absent[c]
=============================================================================
