----------------------------- MODULE RateLimiter -----------------------------
(***************************************************************************)
(* The rate limiter of one control-plane replica for one route: Allow and  *)
(* resolveRateLimit (control-plane/ratelimit.go) and the endpoints that    *)
(* set and check limits (control-plane/main.go).                           *)
(*                                                                         *)
(* A check resolves the client's limit under rlMu, finds or creates the    *)
(* client's bucket under bucketsMu, and refills and spends under the       *)
(* bucket's own mutex.  Nothing is held in between, so a check may apply a *)
(* limit that is no longer configured, and two checks may apply an old and *)
(* a new one in turn.  A bucket remembers when it was last refilled and    *)
(* adopts a limit only when a check brings it along.                       *)
(*                                                                         *)
(* A token is PerSecond units and a tick of the clock adds limit units:    *)
(* the code's rate and capacity are both the limit.  An age beyond one     *)
(* second is not told from one second, which fills any bucket.  Limits are *)
(* not negative.  A restart is the initial state: buckets are not stored.  *)
(*                                                                         *)
(* A definition marked "faulty" is a plausible bug in the one after it and *)
(* is not used.                                                            *)
(***************************************************************************)
EXTENDS Integers

CONSTANTS
    Users, Tenants, \* of the clients; "" stands for none
    Scopes,         \* pairs of them for which operators configure limits
    Limits,         \* limits they configure, requests per second
    DefaultLimit,   \* the limit where none is configured (100 in the code)
    Requests,       \* checks that may be in progress at once
    None,
    PerSecond       \* ticks in a second

Clients == Users \X Tenants
AppliedLimits == Limits \cup {DefaultLimit}

\* tokenBucket: units, the limit it follows, and the age of its last refill.
BucketType == [tokens : Nat, limit : AppliedLimits, age : 0..PerSecond]

ASSUME RateLimiterAssumption ==
    /\ Limits \subseteq Nat
    /\ DefaultLimit \in Nat
    /\ PerSecond \in Nat \ {0}
    /\ None \notin Int \cup Clients \cup BucketType

VARIABLES
    limits,  \* the configured limits
    buckets, \* each client's bucket, or None
    pc,      \* the step each check is at: idle, resolved or found
    req      \* its client and the limit it resolved

requestVars == <<pc, req>>
vars == <<limits, buckets, pc, req>>

Config == [Scopes -> Limits \cup {None}]

NoRequest == [client |-> None, limit |-> None]

Capacity(l) == PerSecond * l

Smaller(a, b) == IF a < b THEN a ELSE b

(***************************************************************************)
(* resolveRateLimit: the exact scope, the user's, the tenant's, the        *)
(* route's; checkRateLimitHandler supplies the default.                    *)
(***************************************************************************)
ScopesOf(c) == << c, <<c[1], "">>, <<"", c[2]>>, <<"", "">> >>

Configured(s) == s \in Scopes /\ limits[s] # None

resolveRateLimit(c) ==
    IF \E i \in 1..4 : Configured(ScopesOf(c)[i])
      THEN LET first == CHOOSE i \in 1..4 :
                           /\ Configured(ScopesOf(c)[i])
                           /\ \A j \in 1..(i - 1) : ~Configured(ScopesOf(c)[j])
           IN  limits[ScopesOf(c)[first]]
      ELSE DefaultLimit

\* What loadFromStore found, and no bucket yet.
Init ==
    /\ limits \in Config
    /\ buckets = [c \in Clients |-> None]
    /\ pc = [q \in Requests |-> "idle"]
    /\ req = [q \in Requests |-> NoRequest]

-------------------------------------------------------------------------------
Aged(b) == IF b = None THEN None
           ELSE [b EXCEPT !.age = IF @ < PerSecond THEN @ + 1 ELSE @]

Tick ==
    /\ buckets' = [c \in Clients |-> Aged(buckets[c])]
    /\ UNCHANGED <<limits, requestVars>>

-------------------------------------------------------------------------------
(***************************************************************************)
(* setRateLimitHandler.  Its store error is ignored.                       *)
(***************************************************************************)
SetLimit(s, l) ==
    /\ limits' = [limits EXCEPT ![s] = l]
    /\ UNCHANGED <<buckets, requestVars>>

(***************************************************************************)
(* loadFromStore replaces the map: by what any replica stored, without the *)
(* entries whose GET failed.                                               *)
(***************************************************************************)
Synchronise ==
    /\ limits' \in Config
    /\ UNCHANGED <<buckets, requestVars>>

-------------------------------------------------------------------------------
\* checkRateLimitHandler resolves the client's limit.
Resolve(q, c) ==
    /\ pc[q] = "idle"
    /\ pc' = [pc EXCEPT ![q] = "resolved"]
    /\ req' = [req EXCEPT ![q] = [client |-> c, limit |-> resolveRateLimit(c)]]
    /\ UNCHANGED <<limits, buckets>>

(***************************************************************************)
(* Allow, under bucketsMu: the first check of a client makes its bucket,   *)
(* full, with the limit it brings along.                                   *)
(***************************************************************************)
NewBucket(l) == [tokens |-> Capacity(l), limit |-> l, age |-> 0]

Find(q) ==
    LET c == req[q].client
        l == req[q].limit
    IN  /\ pc[q] = "resolved"
        /\ pc' = [pc EXCEPT ![q] = "found"]
        /\ buckets' = [buckets EXCEPT ![c] = IF @ = None THEN NewBucket(l) ELSE @]
        /\ UNCHANGED <<limits, req>>

(***************************************************************************)
(* Allow, under the bucket's mutex: the time since the last refill counts  *)
(* at the old limit, a raise adds its difference, the new capacity caps.   *)
(***************************************************************************)
ElapsedInSeconds(b) == (b.age \div PerSecond) * PerSecond * b.limit  \* faulty

Elapsed(b) == b.age * b.limit

Raise(b, l) == IF l > b.limit THEN Capacity(l) - Capacity(b.limit) ELSE 0

RefilledAtNewRate(b, l) ==  \* faulty
    Smaller(Capacity(l), b.tokens + b.age * l + Raise(b, l))

RefilledUncapped(b, l) == b.tokens + Elapsed(b) + Raise(b, l)  \* faulty

Refilled(b, l) == Smaller(Capacity(l), b.tokens + Elapsed(b) + Raise(b, l))

Allowed(b, l) == Refilled(b, l) >= PerSecond

Spent(b, l) ==
    [tokens |-> Refilled(b, l) - (IF Allowed(b, l) THEN PerSecond ELSE 0),
     limit |-> l, age |-> 0]

Take(q) ==
    LET c == req[q].client
        l == req[q].limit
        b == buckets[c]
    IN  /\ pc[q] = "found"
        /\ buckets' = [buckets EXCEPT ![c] = Spent(b, l)]
        /\ pc' = [pc EXCEPT ![q] = "idle"]
        /\ req' = [req EXCEPT ![q] = NoRequest]
        /\ UNCHANGED limits

-------------------------------------------------------------------------------
Next ==
    \/ Tick
    \/ \E s \in Scopes, l \in Limits : SetLimit(s, l)
    \/ Synchronise
    \/ \E q \in Requests :
          \/ \E c \in Clients : Resolve(q, c)
          \/ Find(q)
          \/ Take(q)

Spec == Init /\ [][Next]_vars

(***************************************************************************)
(* Time passes, every client keeps asking, and checks run to their end.    *)
(***************************************************************************)
FairSpec ==
    /\ Spec
    /\ WF_vars(Tick)
    /\ \A c \in Clients : SF_vars(\E q \in Requests : Resolve(q, c))
    /\ \A q \in Requests : WF_vars(Find(q) \/ Take(q))

-------------------------------------------------------------------------------
(***************************************************************************)
(* The type invariant: a bucket never holds more than one second's worth   *)
(* of the limit it follows, whichever limits checks bring along.           *)
(***************************************************************************)
RequestType == [client : Clients, limit : AppliedLimits]

TypeOK ==
    /\ limits \in Config
    /\ buckets \in [Clients -> BucketType \cup {None}]
    /\ \A c \in Clients : buckets[c] # None => buckets[c].tokens <= Capacity(buckets[c].limit)
    /\ pc \in [Requests -> {"idle", "resolved", "found"}]
    /\ req \in [Requests -> RequestType \cup {NoRequest}]
    /\ \A q \in Requests :
          /\ pc[q] # "idle" => req[q] \in RequestType
          /\ pc[q] = "found" => buckets[req[q].client] # None

(***************************************************************************)
(* The bucket with timestamps behaves as one that fills steadily, although *)
(* it is only looked at when checks arrive and is given limits late.       *)
(***************************************************************************)
Level(b) == IF b = None THEN None
            ELSE Smaller(Capacity(b.limit), b.tokens + Elapsed(b))

Steady == INSTANCE SteadyBucket
    WITH Limits <- AppliedLimits,
         level <- [c \in Clients |-> Level(buckets[c])],
         limit <- [c \in Clients |-> IF buckets[c] = None THEN None ELSE buckets[c].limit]

ImplementsSteadyBucket == Steady!Spec

(***************************************************************************)
(* A client whose limit stays above zero and who keeps asking, however     *)
(* often, is let through again and again: no refill is lost to checks that *)
(* come faster than tokens do, nor to changes of the limit.                *)
(***************************************************************************)
Admission(c) ==
    \E q \in Requests :
        Take(q) /\ req[q].client = c /\ Allowed(buckets[c], req[q].limit)

KeepsAdmitting ==
    \A c \in Clients :
        <>[](resolveRateLimit(c) > 0) => []<><<Admission(c)>>_vars
===============================================================================
