--------------------------- MODULE ImageContract ----------------------------
(***************************************************************************)
(* What the image repositories promise to whatever runs containers, stated *)
(* without stacks, builds or commands: an image that somebody refers to,   *)
(* and may have to pull at any moment, is there.                           *)
(***************************************************************************)
CONSTANTS Images, Tags

VARIABLES
    pushed,        \* the <<image, tag>> pairs that can be pulled
    inUse          \* the pairs that a runtime or a task definition names

vars == <<pushed, inUse>>

Init == pushed = {} /\ inUse = {}

Push(i, t) ==
    /\ pushed' = pushed \cup {<<i, t>>}
    /\ UNCHANGED inUse

(* Whoever starts to refer to an image, instead of another one or not,     *)
(* finds it.                                                                *)
Refer(i, t) ==
    /\ <<i, t>> \in pushed
    /\ inUse' \subseteq inUse \cup {<<i, t>>}
    /\ UNCHANGED pushed

Release ==
    /\ inUse' \subseteq inUse
    /\ UNCHANGED pushed

(* A repository goes with everything in it, once nobody refers to it. *)
Wipe(i) ==
    /\ \A t \in Tags : <<i, t>> \notin inUse
    /\ pushed' = {x \in pushed : x[1] # i}
    /\ UNCHANGED inUse

Next ==
    \/ \E i \in Images, t \in Tags : Push(i, t) \/ Refer(i, t)
    \/ Release
    \/ \E i \in Images : Wipe(i)

Spec == Init /\ [][Next]_vars

(* Whatever is referred to can be pulled. *)
Kept == inUse \subseteq pushed
=============================================================================
