---------------------------- MODULE SteadyBucket ----------------------------
(***************************************************************************)
(* What the rate limiter promises, as a bucket that fills steadily: at     *)
(* every moment its level is what the client may still spend, it rises by  *)
(* the limit each tick, never above one second's worth, and each request   *)
(* sees it as it is.  There are no timestamps, locks or pending requests.  *)
(*                                                                         *)
(* A token is PerSecond units, so that a tick adds whole units.            *)
(***************************************************************************)
EXTENDS Integers

CONSTANTS
    Clients,
    Limits,    \* tokens per second
    None,      \* marks a client without a bucket
    PerSecond  \* ticks in a second

VARIABLES
    level, \* units in each client's bucket, or None
    limit  \* the limit it follows

vars == <<level, limit>>

Capacity(l) == PerSecond * l

Smaller(a, b) == IF a < b THEN a ELSE b

Init ==
    /\ level = [c \in Clients |-> None]
    /\ limit = [c \in Clients |-> None]

Grow ==
    /\ level' = [c \in Clients |->
                   IF level[c] = None THEN None
                   ELSE Smaller(Capacity(limit[c]), level[c] + limit[c])]
    /\ UNCHANGED limit

Fill(c, l) ==
    /\ level[c] = None
    /\ level' = [level EXCEPT ![c] = Capacity(l)]
    /\ limit' = [limit EXCEPT ![c] = l]

(***************************************************************************)
(* A raise of the limit adds the difference at once, a cut spills.         *)
(***************************************************************************)
Adopted(c, l) ==
    Smaller(Capacity(l),
            level[c] + (IF l > limit[c] THEN Capacity(l) - Capacity(limit[c]) ELSE 0))

Spend(c, l) ==
    /\ level[c] # None
    /\ limit' = [limit EXCEPT ![c] = l]
    /\ level' = [level EXCEPT ![c] = IF Adopted(c, l) >= PerSecond
                                       THEN Adopted(c, l) - PerSecond ELSE Adopted(c, l)]

Next ==
    \/ Grow
    \/ \E c \in Clients, l \in Limits : Fill(c, l) \/ Spend(c, l)

Spec == Init /\ [][Next]_vars
===============================================================================
