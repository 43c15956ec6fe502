-------------------------- MODULE JwksCacheProofs ---------------------------
(***************************************************************************)
(* What JwksCache guarantees for any number of verifications, keys, and    *)
(* any lifetime: its types, that withdrawn keys die, and that a call left  *)
(* alone finds a key just rotated in.                                      *)
(***************************************************************************)
EXTENDS JwksCache, TLAPS

(* How old a key is that a call may come to accept.  A dict is bound at     *)
(* most FetchMax after its keys were published; time stands still from the  *)
(* binding to the stamp, so that the stamp, whichever of two fetches that   *)
(* end together sets it, is at most FetchMax later than the keys too.       *)
AgeInv ==
    /\ fetchedAt <= clock
    /\ \A k \in Kids : lastSeen[k] <= clock
    /\ \A k \in pool : lastSeen[k] = clock
    /\ \A k \in content[cache] : fetchedAt <= lastSeen[k] + FetchMax
    /\ \A c \in Calls :
        /\ pc[c] \in {"fetch", "arrive", "stamp"} =>
              now[c] <= clock /\ clock <= now[c] + FetchMax
        /\ pc[c] = "arrive" => \A k \in got[c] : now[c] <= lastSeen[k]
        /\ pc[c] = "stamp" =>
              \A k \in content[cache] : clock <= lastSeen[k] + FetchMax
        /\ pc[c] = "bound" =>
              \A k \in content[cache] : clock < lastSeen[k] + FetchMax + TTL
        /\ pc[c] = "lookup" =>
              \A k \in content[jwks[c]] : clock < lastSeen[k] + FetchMax + TTL

(* A call that nobody disturbs, and whose key stays published, has it in    *)
(* hand from its second fetch on.                                           *)
Kept(c) ==
    ~absent[c] /\ ~disturbed[c] =>
        /\ pc[c] # "nokey"
        /\ Running(c) => kid[c] \in pool
        /\ tries[c] = 1 =>
            /\ pc[c] = "check" => content[cache] = {}
            /\ pc[c] = "arrive" => kid[c] \in got[c]
            /\ pc[c] \in {"stamp", "bound"} => kid[c] \in content[cache]
            /\ pc[c] = "lookup" => kid[c] \in content[jwks[c]]

RefreshInv ==
    \A c \in Calls :
        /\ pc[c] = "idle" => tries[c] = 0
        /\ Kept(c)

IInv == TypeOK /\ AgeInv /\ RefreshInv

-----------------------------------------------------------------------------
LEMMA Initial == ASSUME Init PROVE IInv
<1> USE DEF Init
<1>1. TypeOK
  <2>1. 0 \in 0..MaxTime /\ 0 \in {0, 1}
    BY TimesAssumption
  <2>2. <<"initial", 0>> \in Objects
    BY DEF Objects
  <2>3. Unknown \in Tokens /\ {FirstKid} \subseteq Kids /\ {FirstKid} # {}
    BY KidsAssumption DEF Tokens
  <2>4. /\ clock \in 0..MaxTime /\ fetchedAt \in 0..MaxTime
        /\ pool \subseteq Kids /\ pool # {}
        /\ lastSeen \in [Kids -> 0..MaxTime]
    BY <2>1, <2>3
  <2>5. cache \in Objects /\ content \in [Objects -> SUBSET Kids]
    BY <2>2
  <2>6. /\ pc \in [Calls -> {"idle", "check", "fetch", "arrive", "stamp", "bound",
                            "lookup", "clear"} \cup Results]
        /\ kid \in [Calls -> Tokens] /\ tries \in [Calls -> {0, 1}]
    BY <2>1, <2>3
  <2>7. /\ now \in [Calls -> 0..MaxTime] /\ got \in [Calls -> SUBSET Kids]
        /\ jwks \in [Calls -> Objects]
    BY <2>1, <2>2
  <2>8. absent \in [Calls -> BOOLEAN] /\ disturbed \in [Calls -> BOOLEAN]
    OBVIOUS
  <2> QED BY <2>4, <2>5, <2>6, <2>7, <2>8 DEF TypeOK
<1>2. AgeInv
  <2>1. content[cache] = {}
    BY DEF Objects
  <2>2. clock = 0 /\ fetchedAt = 0 /\ pool \subseteq Kids
        /\ \A k \in Kids : lastSeen[k] = 0
    BY KidsAssumption
  <2>3. \A c \in Calls : pc[c] = "idle"
    OBVIOUS
  <2> HIDE DEF Init
  <2> QED BY <2>1, <2>2, <2>3 DEF AgeInv
<1>3. RefreshInv
  BY DEF RefreshInv, Kept, Running
<1> QED BY <1>1, <1>2, <1>3 DEF IInv

(* The end of a call.                                                       *)
LEMMA TypeEnds ==
    ASSUME TypeOK, NEW c \in Calls, NEW r \in Results, Ends(c, r),
           UNCHANGED <<env, mod>>
    PROVE  TypeOK'
<1>1. /\ pc' \in [Calls -> {"idle", "check", "fetch", "arrive", "stamp", "bound",
                            "lookup", "clear"} \cup Results]
      /\ kid' \in [Calls -> Tokens] /\ tries' \in [Calls -> {0, 1}]
      /\ now' \in [Calls -> 0..MaxTime] /\ got' \in [Calls -> SUBSET Kids]
      /\ jwks' \in [Calls -> Objects]
  BY TimesAssumption DEF TypeOK, Ends, Goto, Tokens, Objects
<1>2. absent' \in [Calls -> BOOLEAN] /\ disturbed' \in [Calls -> BOOLEAN]
  BY DEF TypeOK, Ends, ghost
<1> QED BY <1>1, <1>2 DEF TypeOK, env, mod

LEMMA TypeNext == ASSUME TypeOK, [Next]_vars PROVE TypeOK'
<1> USE DEF TypeOK, env, mod, ghost, Goto
<1>1. ASSUME NEW c \in Calls, Call(c) PROVE TypeOK'
  BY <1>1 DEF Call
<1>2. ASSUME NEW c \in Calls, Check(c) PROVE TypeOK'
  BY <1>2 DEF Check
<1>3. ASSUME NEW c \in Calls, Answered(c) PROVE TypeOK'
  BY <1>3 DEF Answered
<1>4. ASSUME NEW c \in Calls, FetchFails(c) PROVE TypeOK'
  BY <1>4, TypeEnds DEF FetchFails, Results
<1>5. ASSUME NEW c \in Calls, Store(c) PROVE TypeOK'
  BY <1>5 DEF Store, Disturb, Objects
<1>6. ASSUME NEW c \in Calls, Stamp(c) PROVE TypeOK'
  BY <1>6, TimesAssumption DEF Stamp
<1>7. ASSUME NEW c \in Calls, Bound(c) PROVE TypeOK'
  BY <1>7 DEF Bound
<1>8. ASSUME NEW c \in Calls, Lookup(c) PROVE TypeOK'
  <2>1. CASE \E r \in Results : Ends(c, r)
    BY <1>8, <2>1, TypeEnds DEF Lookup
  <2>2. CASE Goto(c, "clear") /\ UNCHANGED <<kid, tries, now, got, jwks, ghost>>
    BY <1>8, <2>2 DEF Lookup
  <2> QED BY <1>8, <2>1, <2>2 DEF Lookup, Results
<1>9. ASSUME NEW c \in Calls, Clear(c) PROVE TypeOK'
  BY <1>9 DEF Clear, Disturb, Objects
<1>10. CASE Publish
  BY <1>10 DEF Publish, local
<1>11. CASE Retire
  BY <1>11 DEF Retire, local
<1>12. CASE Tick
  BY <1>12, TimesAssumption DEF Tick, local
<1>13. CASE UNCHANGED vars
  BY <1>13 DEF vars, local
<1> QED BY <1>1, <1>2, <1>3, <1>4, <1>5, <1>6, <1>7, <1>8, <1>9, <1>10, <1>11,
          <1>12, <1>13 DEF Next, Step, Finished

-----------------------------------------------------------------------------
(***************************************************************************)
(* The age of keys                                                         *)
(***************************************************************************)

(* A step of a call that changes nothing for the others, and leaves its own *)
(* call neither fetching nor with keys in hand.                             *)
LEMMA AgeRests ==
    ASSUME TypeOK, AgeInv, NEW c \in Calls, UNCHANGED <<env, mod>>,
           NEW r, r \notin {"fetch", "arrive", "stamp", "bound", "lookup"},
           pc' = [pc EXCEPT ![c] = r],
           \A d \in Calls \ {c} :
              now'[d] = now[d] /\ got'[d] = got[d] /\ jwks'[d] = jwks[d]
    PROVE  AgeInv'
<1>1. ASSUME NEW d \in Calls
      PROVE  /\ pc'[d] \in {"fetch", "arrive", "stamp"} =>
                   now'[d] <= clock' /\ clock' <= now'[d] + FetchMax
             /\ pc'[d] = "arrive" => \A k \in got'[d] : now'[d] <= lastSeen'[k]
             /\ pc'[d] = "stamp" =>
                   \A k \in content'[cache'] : clock' <= lastSeen'[k] + FetchMax
             /\ pc'[d] = "bound" =>
                   \A k \in content'[cache'] : clock' < lastSeen'[k] + FetchMax + TTL
             /\ pc'[d] = "lookup" => \A k \in content'[jwks'[d]] :
                   clock' < lastSeen'[k] + FetchMax + TTL
  <2>1. CASE d = c
    BY <2>1 DEF TypeOK
  <2>2. CASE d # c
    BY <2>2 DEF TypeOK, AgeInv, env, mod
  <2> QED BY <2>1, <2>2
<1> QED BY <1>1 DEF AgeInv, env, mod

LEMMA AgeNext == ASSUME TypeOK, AgeInv, [Next]_vars PROVE AgeInv'
<1> USE TimesAssumption
<1>0. /\ clock \in Nat /\ fetchedAt \in Nat /\ lastSeen \in [Kids -> Nat]
      /\ now \in [Calls -> Nat] /\ content \in [Objects -> SUBSET Kids]
      /\ cache \in Objects /\ jwks \in [Calls -> Objects] /\ pool \subseteq Kids
      /\ got \in [Calls -> SUBSET Kids] /\ DOMAIN pc = Calls
  BY DEF TypeOK
<1>1. ASSUME NEW c \in Calls, Call(c) PROVE AgeInv'
  BY <1>1, AgeRests DEF Call, Goto
<1>2. ASSUME NEW c \in Calls, Check(c) PROVE AgeInv'
  <2>1. UNCHANGED <<env, mod, got, jwks>>
    BY <1>2 DEF Check
  <2>2. CASE Fresh
    <3>1. pc' = [pc EXCEPT ![c] = "bound"] /\ now' = now
      BY <1>2, <2>2 DEF Check, Goto
    <3>2. \A k \in content[cache] : clock < lastSeen[k] + FetchMax + TTL
      BY <1>0, <2>2 DEF Fresh, AgeInv
    <3> QED BY <1>0, <2>1, <3>1, <3>2 DEF AgeInv, env, mod
  <2>3. CASE ~Fresh
    <3>1. pc' = [pc EXCEPT ![c] = "fetch"] /\ now' = [now EXCEPT ![c] = clock]
      BY <1>2, <2>3 DEF Check, Goto
    <3> QED BY <1>0, <2>1, <3>1 DEF AgeInv, env, mod
  <2> QED BY <2>2, <2>3
<1>3. ASSUME NEW c \in Calls, Answered(c) PROVE AgeInv'
  <2>1. /\ pc[c] = "fetch" /\ pc' = [pc EXCEPT ![c] = "arrive"]
        /\ got' = [got EXCEPT ![c] = pool] /\ UNCHANGED <<env, mod, now, jwks>>
    BY <1>3 DEF Answered, Goto
  <2> QED BY <1>0, <2>1 DEF AgeInv, env, mod
<1>4. ASSUME NEW c \in Calls, FetchFails(c) PROVE AgeInv'
  BY <1>0, <1>4, AgeRests DEF FetchFails, Ends, Goto
<1>5. ASSUME NEW c \in Calls, Store(c) PROVE AgeInv'
  <2> DEFINE o == <<c, tries[c]>>
  <2>1. /\ pc[c] = "arrive" /\ pc' = [pc EXCEPT ![c] = "stamp"] /\ cache' = o
        /\ content' = [x \in Objects |-> IF x = o THEN got[c]
                          ELSE IF InUse(x) THEN content[x] ELSE {}]
        /\ got' = [got EXCEPT ![c] = {}]
        /\ UNCHANGED <<env, fetchedAt, now, jwks>>
    BY <1>5 DEF Store, Goto
  <2>2. o \in Objects
    BY DEF Objects, TypeOK
  <2>3. content'[cache'] = got[c]
    BY <2>1, <2>2
  <2>4. \A k \in got[c] : /\ clock <= lastSeen[k] + FetchMax
                          /\ fetchedAt <= lastSeen[k] + FetchMax
                          /\ clock < lastSeen[k] + FetchMax + TTL
    BY <1>0, <2>1 DEF AgeInv
  <2>5. \A x \in Objects : content'[x] \subseteq got[c] \cup content[x]
    BY <2>1, <1>0
  <2>6. \A d \in Calls : pc'[d] = "lookup" =>
           \A k \in content'[jwks'[d]] : clock < lastSeen[k] + FetchMax + TTL
    <3> SUFFICES ASSUME NEW d \in Calls, pc'[d] = "lookup",
                        NEW k \in content'[jwks'[d]]
                 PROVE  clock < lastSeen[k] + FetchMax + TTL
      OBVIOUS
    <3>1. jwks'[d] = jwks[d] /\ jwks[d] \in Objects /\ pc[d] = "lookup"
      BY <1>0, <2>1
    <3> QED BY <2>4, <2>5, <3>1 DEF AgeInv
  <2>7. \A d \in Calls :
          /\ pc'[d] \in {"fetch", "arrive", "stamp"} =>
                now'[d] <= clock' /\ clock' <= now'[d] + FetchMax
          /\ pc'[d] = "arrive" => \A k \in got'[d] : now'[d] <= lastSeen'[k]
    BY <1>0, <2>1 DEF AgeInv, env
  <2> HIDE DEF o
  <2> QED BY <1>0, <2>1, <2>3, <2>4, <2>6, <2>7 DEF AgeInv, env
<1>6. ASSUME NEW c \in Calls, Stamp(c) PROVE AgeInv'
  <2>1. /\ pc[c] = "stamp" /\ pc' = [pc EXCEPT ![c] = "bound"]
        /\ fetchedAt' = now[c] /\ now' = [now EXCEPT ![c] = 0]
        /\ UNCHANGED <<env, cache, content, got, jwks>>
    BY <1>6 DEF Stamp, Goto
  <2>2. /\ now[c] <= clock
        /\ \A k \in content[cache] : clock <= lastSeen[k] + FetchMax
    BY <2>1 DEF AgeInv
  <2>3. content[cache] \subseteq Kids
    BY <1>0
  <2>4. \A k \in content[cache] : /\ now[c] <= lastSeen[k] + FetchMax
                                  /\ clock < lastSeen[k] + FetchMax + TTL
    BY <1>0, <2>2, <2>3
  <2> QED BY <1>0, <2>1, <2>2, <2>4 DEF AgeInv, env
<1>7. ASSUME NEW c \in Calls, Bound(c) PROVE AgeInv'
  <2>1. /\ pc[c] = "bound" /\ pc' = [pc EXCEPT ![c] = "lookup"]
        /\ jwks' = [jwks EXCEPT ![c] = cache] /\ UNCHANGED <<env, mod, now, got>>
    BY <1>7 DEF Bound, Goto
  <2> QED BY <1>0, <2>1 DEF AgeInv, env, mod
<1>8. ASSUME NEW c \in Calls, Lookup(c) PROVE AgeInv'
  <2>0. UNCHANGED <<env, mod>>
    BY <1>8 DEF Lookup
  <2>1. ASSUME NEW r \in Results, Ends(c, r) PROVE AgeInv'
    BY <1>0, <2>0, <2>1, AgeRests DEF Ends, Goto, Results
  <2>2. CASE Goto(c, "clear") /\ UNCHANGED <<kid, tries, now, got, jwks, ghost>>
    BY <1>0, <2>0, <2>2, AgeRests DEF Goto
  <2> QED BY <1>8, <2>1, <2>2 DEF Lookup, Results
<1>9. ASSUME NEW c \in Calls, Clear(c) PROVE AgeInv'
  <2>1. /\ pc' = [pc EXCEPT ![c] = "check"]
        /\ content' = [content EXCEPT ![cache] = {}]
        /\ jwks' = [jwks EXCEPT ![c] = <<"initial", 0>>]
        /\ UNCHANGED <<env, cache, fetchedAt, now, got>>
    BY <1>9 DEF Clear, Goto
  <2>2. content'[cache'] = {}
    BY <1>0, <2>1
  <2>3. \A d \in Calls : pc'[d] = "lookup" =>
           \A k \in content'[jwks'[d]] : clock < lastSeen[k] + FetchMax + TTL
    BY <1>0, <2>1 DEF AgeInv
  <2>4. \A d \in Calls :
          /\ pc'[d] \in {"fetch", "arrive", "stamp"} =>
                now'[d] <= clock' /\ clock' <= now'[d] + FetchMax
          /\ pc'[d] = "arrive" => \A k \in got'[d] : now'[d] <= lastSeen'[k]
    BY <1>0, <2>1 DEF AgeInv, env
  <2> QED BY <2>1, <2>2, <2>3, <2>4 DEF AgeInv, env
<1>10. CASE Publish
  <2>1. PICK k \in Kids \ (pool \cup {FirstKid}) :
          pool' = pool \cup {k} /\ lastSeen' = [lastSeen EXCEPT ![k] = clock]
    BY <1>10 DEF Publish
  <2>2. UNCHANGED <<clock, mod, local>>
    BY <1>10 DEF Publish
  <2>3. /\ \A l \in Kids : lastSeen[l] <= lastSeen'[l] /\ lastSeen'[l] <= clock
        /\ \A l \in pool' : lastSeen'[l] = clock
        /\ \A l \in Kids : lastSeen'[l] \in Nat
    BY <1>0, <2>1 DEF AgeInv
  <2> QED BY <1>0, <2>2, <2>3 DEF AgeInv, mod, local
<1>11. CASE Retire
  BY <1>11 DEF Retire, AgeInv, mod, local
<1>12. CASE Tick
  <2>1. /\ clock' = clock + 1 /\ UNCHANGED <<pool, mod, local>>
        /\ lastSeen' = [k \in Kids |-> IF k \in pool THEN clock + 1 ELSE lastSeen[k]]
        /\ \A c \in Calls : Running(c) =>
              pc[c] \in {"fetch", "arrive"} /\ clock - now[c] < FetchMax
    BY <1>12 DEF Tick
  <2>2. /\ \A k \in Kids : lastSeen[k] <= lastSeen'[k] /\ lastSeen'[k] <= clock'
        /\ \A k \in pool' : lastSeen'[k] = clock'
        /\ \A k \in Kids : lastSeen'[k] \in Nat
    BY <1>0, <2>1 DEF AgeInv
  <2>3. ASSUME NEW c \in Calls
        PROVE  /\ pc'[c] \notin {"stamp", "bound", "lookup"}
               /\ pc'[c] \in {"fetch", "arrive"} =>
                     now'[c] <= clock' /\ clock' <= now'[c] + FetchMax
               /\ pc'[c] = "arrive" => \A k \in got'[c] : now'[c] <= lastSeen'[k]
    <3>1. pc'[c] = pc[c] /\ now'[c] = now[c] /\ got'[c] = got[c]
      BY <2>1 DEF local
    <3>2. pc[c] \notin {"stamp", "bound", "lookup"}
      BY <2>1 DEF Running, Results
    <3>3. pc[c] \in {"fetch", "arrive"} => clock - now[c] < FetchMax
      BY <2>1 DEF Running, Results
    <3> QED BY <1>0, <2>1, <2>2, <3>1, <3>2, <3>3 DEF AgeInv
  <2>4. fetchedAt' = fetchedAt /\ content'[cache'] = content[cache]
    BY <2>1 DEF mod
  <2>5. fetchedAt' <= clock'
        /\ \A k \in content'[cache'] : fetchedAt' <= lastSeen'[k] + FetchMax
    BY <1>0, <2>1, <2>2, <2>4 DEF AgeInv
  <2> QED BY <2>2, <2>3, <2>5 DEF AgeInv
<1>13. CASE UNCHANGED vars
  BY <1>13 DEF vars, AgeInv, env, mod, local
<1> QED BY <1>1, <1>2, <1>3, <1>4, <1>5, <1>6, <1>7, <1>8, <1>9, <1>10, <1>11,
          <1>12, <1>13 DEF Next, Step, Finished

-----------------------------------------------------------------------------
(***************************************************************************)
(* The key in hand                                                         *)
(***************************************************************************)

(* What a step of c that leaves the cache alone does not change: everything *)
(* the invariant says of the others.                                        *)
LEMMA RefreshOthers ==
    ASSUME TypeOK, RefreshInv, NEW c \in Calls, NEW d \in Calls, d # c,
           UNCHANGED <<env, mod>>,
           pc'[d] = pc[d], kid'[d] = kid[d], tries'[d] = tries[d],
           got'[d] = got[d], jwks'[d] = jwks[d],
           absent'[d] = absent[d], disturbed'[d] = disturbed[d]
    PROVE  (pc'[d] = "idle" => tries'[d] = 0) /\ Kept(d)'
BY DEF RefreshInv, Kept, Running, env, mod

(* One that binds or clears it marks those of them that run, and the others *)
(* have nothing to lose.                                                    *)
LEMMA RefreshDisturbed ==
    ASSUME TypeOK, RefreshInv, NEW c \in Calls, NEW d \in Calls, d # c,
           Disturb(c), UNCHANGED <<env, absent>>,
           pc'[d] = pc[d], tries'[d] = tries[d]
    PROVE  (pc'[d] = "idle" => tries'[d] = 0) /\ Kept(d)'
<1>1. disturbed'[d] = (disturbed[d] \/ Running(d))
  BY DEF Disturb
<1>2. CASE Running(d)
  BY <1>1, <1>2 DEF RefreshInv, Kept, Running, Results
<1>3. CASE ~Running(d)
  BY <1>1, <1>3 DEF RefreshInv, Kept, Running, Results
<1> QED BY <1>2, <1>3

LEMMA RefreshEnds ==
    ASSUME TypeOK, RefreshInv, NEW c \in Calls, NEW r \in Results \ {"nokey"},
           Ends(c, r), UNCHANGED <<env, mod>>
    PROVE  RefreshInv'
<1>1. ASSUME NEW d \in Calls, d # c
      PROVE  (pc'[d] = "idle" => tries'[d] = 0) /\ Kept(d)'
  BY <1>1, RefreshOthers DEF Ends, Goto, TypeOK
<1>2. (pc'[c] = "idle" => tries'[c] = 0) /\ Kept(c)'
  BY DEF Ends, Goto, TypeOK, Kept, Running, Results
<1> QED BY <1>1, <1>2 DEF RefreshInv

LEMMA RefreshNext == ASSUME TypeOK, RefreshInv, [Next]_vars PROVE RefreshInv'
<1>0. /\ DOMAIN pc = Calls /\ DOMAIN kid = Calls /\ DOMAIN tries = Calls
      /\ DOMAIN got = Calls /\ DOMAIN jwks = Calls /\ DOMAIN absent = Calls
      /\ DOMAIN disturbed = Calls /\ DOMAIN content = Objects
      /\ cache \in Objects /\ tries \in [Calls -> {0, 1}]
  BY DEF TypeOK
<1>1. ASSUME NEW c \in Calls, Call(c) PROVE RefreshInv'
  <2>1. ASSUME NEW d \in Calls, d # c
        PROVE  (pc'[d] = "idle" => tries'[d] = 0) /\ Kept(d)'
    BY <1>0, <1>1, <2>1, RefreshOthers DEF Call, Goto
  <2>2. /\ pc'[c] = "check" /\ tries'[c] = 0 /\ UNCHANGED pool
        /\ ~absent'[c] => kid'[c] \in pool
    BY <1>0, <1>1 DEF Call, Goto, RefreshInv, env
  <2>3. Kept(c)'
    BY <2>2 DEF Kept, Running
  <2> QED BY <2>1, <2>2, <2>3 DEF RefreshInv
<1>2. ASSUME NEW c \in Calls, Check(c) PROVE RefreshInv'
  <2>1. ASSUME NEW d \in Calls, d # c
        PROVE  (pc'[d] = "idle" => tries'[d] = 0) /\ Kept(d)'
    BY <1>0, <1>2, <2>1, RefreshOthers DEF Check, Goto, ghost
  <2>2. /\ pc[c] = "check" /\ UNCHANGED <<env, mod, kid, tries, ghost>>
        /\ pc'[c] = IF Fresh THEN "bound" ELSE "fetch"
    BY <1>0, <1>2 DEF Check, Goto
  <2>3. Kept(c)'
    BY <2>2 DEF RefreshInv, Kept, Running, Results, Fresh, env, mod, ghost
  <2> QED BY <2>1, <2>2, <2>3 DEF RefreshInv
<1>3. ASSUME NEW c \in Calls, Answered(c) PROVE RefreshInv'
  <2>1. ASSUME NEW d \in Calls, d # c
        PROVE  (pc'[d] = "idle" => tries'[d] = 0) /\ Kept(d)'
    BY <1>0, <1>3, <2>1, RefreshOthers DEF Answered, Goto, ghost
  <2>2. /\ pc[c] = "fetch" /\ pc'[c] = "arrive" /\ got'[c] = pool
        /\ UNCHANGED <<env, kid, ghost>>
    BY <1>0, <1>3 DEF Answered, Goto
  <2>3. Kept(c)'
    BY <2>2 DEF RefreshInv, Kept, Running, Results, env, ghost
  <2> QED BY <2>1, <2>2, <2>3 DEF RefreshInv
<1>4. ASSUME NEW c \in Calls, FetchFails(c) PROVE RefreshInv'
  BY <1>4, RefreshEnds DEF FetchFails, Results
<1>5. ASSUME NEW c \in Calls, Store(c) PROVE RefreshInv'
  <2>1. ASSUME NEW d \in Calls, d # c
        PROVE  (pc'[d] = "idle" => tries'[d] = 0) /\ Kept(d)'
    BY <1>0, <1>5, <2>1, RefreshDisturbed DEF Store, Goto
  <2>2. /\ pc[c] = "arrive" /\ pc'[c] = "stamp"
        /\ content'[cache'] = got[c]
        /\ UNCHANGED <<env, kid, tries, absent>>
    <3>1. <<c, tries[c]>> \in Objects
      BY <1>0 DEF Objects
    <3> QED BY <1>0, <1>5, <3>1 DEF Store, Goto
  <2>3. disturbed'[c] = disturbed[c]
    BY <1>5 DEF Store, Disturb, TypeOK
  <2>4. Kept(c)'
    BY <2>2, <2>3 DEF RefreshInv, Kept, Running, Results, env
  <2> QED BY <2>1, <2>2, <2>4 DEF RefreshInv
<1>6. ASSUME NEW c \in Calls, Stamp(c) PROVE RefreshInv'
  <2>1. /\ pc[c] = "stamp" /\ pc' = [pc EXCEPT ![c] = "bound"]
        /\ UNCHANGED <<env, cache, content, kid, tries, got, jwks, ghost>>
    BY <1>6 DEF Stamp, Goto
  <2> QED BY <1>0, <2>1 DEF RefreshInv, Kept, Running, Results, env, ghost
<1>7. ASSUME NEW c \in Calls, Bound(c) PROVE RefreshInv'
  <2>1. /\ pc[c] = "bound" /\ pc' = [pc EXCEPT ![c] = "lookup"]
        /\ jwks' = [jwks EXCEPT ![c] = cache]
        /\ UNCHANGED <<env, mod, kid, tries, got, ghost>>
    BY <1>7 DEF Bound, Goto
  <2> QED BY <1>0, <2>1 DEF RefreshInv, Kept, Running, Results, env, mod, ghost
<1>8. ASSUME NEW c \in Calls, Lookup(c) PROVE RefreshInv'
  <2>0. pc[c] = "lookup" /\ UNCHANGED <<env, mod>>
    BY <1>8 DEF Lookup
  <2>1. ASSUME NEW r \in Results \ {"nokey"}, Ends(c, r) PROVE RefreshInv'
    BY <2>0, <2>1, RefreshEnds
  <2>2. CASE Goto(c, "clear") /\ UNCHANGED <<kid, tries, now, got, jwks, ghost>>
    BY <1>0, <2>0, <2>2
       DEF RefreshInv, Kept, Running, Results, Goto, env, mod, ghost
  <2>3. CASE Missing(c) /\ tries[c] = 1 /\ Ends(c, "nokey")
    <3>1. ASSUME NEW d \in Calls, d # c
          PROVE  (pc'[d] = "idle" => tries'[d] = 0) /\ Kept(d)'
      BY <1>0, <2>0, <2>3, <3>1, RefreshOthers DEF Ends, Goto, ghost
    <3>2. absent[c] \/ disturbed[c]
      BY <2>0, <2>3 DEF RefreshInv, Kept, Missing
    <3>3. pc'[c] = "nokey" /\ UNCHANGED ghost
      BY <1>0, <2>3 DEF Ends, Goto
    <3> QED BY <3>1, <3>2, <3>3 DEF RefreshInv, Kept, ghost
  <2> QED BY <1>8, <2>1, <2>2, <2>3 DEF Lookup, Results
<1>9. ASSUME NEW c \in Calls, Clear(c) PROVE RefreshInv'
  <2>1. ASSUME NEW d \in Calls, d # c
        PROVE  (pc'[d] = "idle" => tries'[d] = 0) /\ Kept(d)'
    BY <1>0, <1>9, <2>1, RefreshDisturbed DEF Clear, Goto
  <2>2. /\ pc[c] = "clear" /\ pc'[c] = "check" /\ content'[cache'] = {}
        /\ UNCHANGED <<env, kid, absent>>
    BY <1>0, <1>9 DEF Clear, Goto
  <2>3. disturbed'[c] = disturbed[c]
    BY <1>9 DEF Clear, Disturb, TypeOK
  <2>4. Kept(c)'
    BY <2>2, <2>3 DEF RefreshInv, Kept, Running, Results, env
  <2> QED BY <2>1, <2>2, <2>4 DEF RefreshInv
<1>10. CASE Publish
  BY <1>10 DEF Publish, RefreshInv, Kept, Running, Results, mod, local, ghost
<1>11. CASE Retire
  <2>1. /\ pool' = pool \ {FirstKid} /\ UNCHANGED <<mod, local, disturbed>>
        /\ \A c \in Calls : absent'[c] =
              (absent[c] \/ (Running(c) /\ kid[c] = FirstKid))
    BY <1>11 DEF Retire
  <2> QED BY <2>1 DEF RefreshInv, Kept, Running, mod, local
<1>12. CASE Tick
  BY <1>12 DEF Tick, RefreshInv, Kept, Running, Results, mod, local, ghost
<1>13. CASE UNCHANGED vars
  BY <1>13 DEF vars, RefreshInv, Kept, Running, Results, env, mod, local, ghost
<1> QED BY <1>1, <1>2, <1>3, <1>4, <1>5, <1>6, <1>7, <1>8, <1>9, <1>10, <1>11,
          <1>12, <1>13 DEF Next, Step, Finished

-----------------------------------------------------------------------------
(***************************************************************************)
(* What follows for the behaviours                                         *)
(***************************************************************************)

(* The invariant holds in every reachable state.                            *)
THEOREM Inductive == Spec => []IInv
<1>1. Init => IInv
  BY Initial
<1>2. IInv /\ [Next]_vars => IInv'
  BY TypeNext, AgeNext, RefreshNext DEF IInv
<1> QED BY <1>1, <1>2, PTL DEF Spec

(* The globals of auth.py and the frames of the verifications keep their    *)
(* types.                                                                   *)
THEOREM TypeCorrect == Spec => []TypeOK
<1>1. IInv => TypeOK
  BY DEF IInv
<1> QED BY <1>1, Inductive, PTL

(* _fetch_jwks and verify_token: for any lifetime and any number of threads *)
(* that bind, stamp and clear one cache, a withdrawn key is accepted for    *)
(* less than the lifetime and one fetch more.                               *)
THEOREM RetiredDie == Spec => RetiredKeysDie
<1>1. ASSUME IInv, [Next]_vars, NEW c \in Calls,
             pc[c] = "lookup", pc'[c] = "accepted"
      PROVE  clock - lastSeen[kid[c]] < TTL + FetchMax
  <2>0. DOMAIN pc = Calls /\ kid[c] \in Tokens
    BY <1>1 DEF IInv, TypeOK
  <2>1. Lookup(c)
    <3>1. CASE UNCHANGED pc
      BY <1>1, <3>1
    <3>2. ASSUME NEW d \in Calls, Call(d) \/ Step(d) PROVE Lookup(c)
      <4>1. d = c
        BY <1>1, <2>0, <3>2
           DEF Call, Step, Check, Answered, FetchFails, Store, Stamp, Bound,
               Lookup, Clear, Ends, Goto
      <4> QED BY <1>1, <2>0, <3>2, <4>1
           DEF Call, Step, Check, Answered, FetchFails, Store, Stamp, Bound,
               Clear, Goto
    <3> QED BY <1>1, <3>1, <3>2
         DEF Next, Publish, Retire, Tick, Finished, vars, local
  <2>2. kid[c] \in content[jwks[c]]
    BY <1>1, <2>0, <2>1 DEF Lookup, Found, Ends, Goto
  <2>3. clock < lastSeen[kid[c]] + FetchMax + TTL /\ kid[c] \in Kids
    BY <1>1, <2>2 DEF IInv, AgeInv, TypeOK
  <2>4. clock \in Nat /\ lastSeen[kid[c]] \in Nat
    BY <1>1, <2>3, TimesAssumption DEF IInv, TypeOK
  <2> QED BY <2>3, <2>4, TimesAssumption
<1>2. IInv /\ [Next]_vars =>
        [\A c \in Calls :
           pc[c] = "lookup" /\ pc'[c] = "accepted" =>
              clock - lastSeen[kid[c]] < TTL + FetchMax]_vars
  BY <1>1
<1> QED BY <1>2, Inductive, PTL DEF Spec, RetiredKeysDie

(* verify_token: "Key rotation: refresh once and retry" finds the key for a *)
(* call that no other call bound or cleared the cache under.                *)
THEOREM RefreshFinds == Spec => []RefreshFindsKey
<1>1. IInv => RefreshFindsKey
  BY DEF IInv, RefreshInv, Kept, RefreshFindsKey
<1> QED BY <1>1, Inductive, PTL
=============================================================================
