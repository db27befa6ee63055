-------------------------- MODULE RateLimiterProofs --------------------------
(***************************************************************************)
(* Proofs about RateLimiter: type correctness, and that the bucket with    *)
(* timestamps implements SteadyBucket, for any clients, limits and ticks.  *)
(***************************************************************************)
EXTENDS RateLimiter, TLAPS

LEMMA LimitsAreNat == AppliedLimits \subseteq Nat /\ PerSecond \in Nat \ {0}
BY RateLimiterAssumption DEF AppliedLimits

(***************************************************************************)
(* A resolved limit is one an operator configured, or the default.         *)
(***************************************************************************)
LEMMA ResolvedType ==
    ASSUME limits \in Config, NEW c \in Clients
    PROVE  resolveRateLimit(c) \in AppliedLimits
<1>. DEFINE P(i) == Configured(ScopesOf(c)[i])
            first == CHOOSE i \in 1..4 : P(i) /\ \A j \in 1..(i - 1) : ~P(j)
<1>1. CASE \E i \in 1..4 : P(i)
  <2>1. \E i \in 1..4 : P(i) /\ \A j \in 1..(i - 1) : ~P(j)
    <3>. HIDE DEF P
    <3>1. CASE P(1)
      BY <3>1
    <3>2. CASE ~P(1) /\ P(2)
      BY <3>2
    <3>3. CASE ~P(1) /\ ~P(2) /\ P(3)
      BY <3>3
    <3>4. CASE ~P(1) /\ ~P(2) /\ ~P(3) /\ P(4)
      BY <3>4
    <3>. QED
      BY <1>1, <3>1, <3>2, <3>3, <3>4
  <2>2. P(first)
    <3>. HIDE DEF P
    <3>. QED
      BY <2>1
  <2>3. limits[ScopesOf(c)[first]] \in AppliedLimits
    BY <2>2 DEF Configured, Config, AppliedLimits
  <2>. QED
    BY <1>1, <2>3 DEF resolveRateLimit
<1>2. CASE ~ \E i \in 1..4 : P(i)
  BY <1>2 DEF resolveRateLimit, AppliedLimits
<1>. QED
  BY <1>1, <1>2

-------------------------------------------------------------------------------
(***************************************************************************)
(* What refilling and spending do to a bucket.                             *)
(***************************************************************************)
LEMMA ProductNat == \A a, l \in Nat : a * l \in Nat
OBVIOUS

LEMMA RefilledBounds ==
    ASSUME NEW b \in BucketType, NEW l \in AppliedLimits
    PROVE  /\ Refilled(b, l) \in Nat
           /\ Refilled(b, l) <= Capacity(l)
<1>1. /\ b.tokens \in Nat /\ b.limit \in Nat /\ b.age \in Nat /\ l \in Nat
      /\ PerSecond \in Nat
  <2>1. PerSecond \in Nat /\ l \in Nat /\ \A a \in AppliedLimits : a \in Nat
    BY LimitsAreNat
  <2>2. b.tokens \in Nat /\ b.limit \in AppliedLimits /\ b.age \in 0..PerSecond
    BY DEF BucketType
  <2>3. b.age \in Nat
    <3>. DEFINE a == b.age
    <3>1. a \in 0..PerSecond
      BY <2>2
    <3>. HIDE DEF a
    <3>2. a \in Nat
      BY <2>1, <3>1
    <3>. QED
      BY <3>2 DEF a
  <2>. QED
    BY <2>1, <2>2, <2>3, Zenon
<1>2. Elapsed(b) \in Nat /\ Capacity(l) \in Nat /\ Capacity(b.limit) \in Nat
  BY <1>1, ProductNat DEF Elapsed, Capacity
<1>3. Raise(b, l) \in Nat
  <2>1. CASE l > b.limit
    <3>1. PerSecond * l >= PerSecond * b.limit
      BY <1>1, <2>1
    <3>. QED
      BY <1>2, <2>1, <3>1 DEF Raise, Capacity
  <2>2. CASE ~(l > b.limit)
    BY <2>2 DEF Raise
  <2>. QED
    BY <2>1, <2>2
<1>. QED
  BY <1>1, <1>2, <1>3 DEF Refilled, Smaller

LEMMA SpentType ==
    ASSUME NEW b \in BucketType, NEW l \in AppliedLimits
    PROVE  /\ Spent(b, l) \in BucketType
           /\ Spent(b, l).tokens <= Capacity(l)
           /\ Spent(b, l).limit = l
           /\ Spent(b, l).age = 0
<1>1. /\ Refilled(b, l) \in Nat /\ Refilled(b, l) <= Capacity(l)
      /\ PerSecond \in Nat /\ Capacity(l) \in Nat
  BY RefilledBounds, LimitsAreNat, ProductNat DEF Capacity
<1>2. /\ Spent(b, l).tokens \in Nat
      /\ Spent(b, l).tokens <= Capacity(l)
  BY <1>1 DEF Spent, Allowed
<1>. QED
  BY <1>1, <1>2 DEF Spent, BucketType

LEMMA NewBucketType ==
    ASSUME NEW l \in AppliedLimits
    PROVE  /\ NewBucket(l) \in BucketType
           /\ NewBucket(l).tokens = Capacity(l)
           /\ NewBucket(l).limit = l
           /\ NewBucket(l).age = 0
BY LimitsAreNat, ProductNat DEF NewBucket, BucketType, Capacity

LEMMA AgedType ==
    ASSUME NEW b \in BucketType
    PROVE  /\ Aged(b) \in BucketType
           /\ Aged(b).tokens = b.tokens
           /\ Aged(b).limit = b.limit
           /\ Aged(b).age = IF b.age < PerSecond THEN b.age + 1 ELSE b.age
<1>1. b # None
  BY RateLimiterAssumption
<1>2. b.age \in 0..PerSecond /\ PerSecond \in Nat
  BY LimitsAreNat DEF BucketType
<1>3. Aged(b) = [b EXCEPT !.age = IF b.age < PerSecond THEN b.age + 1 ELSE b.age]
  BY <1>1 DEF Aged
<1>4. (IF b.age < PerSecond THEN b.age + 1 ELSE b.age) \in 0..PerSecond
  BY <1>2
<1>. QED
  BY <1>3, <1>4 DEF BucketType

-------------------------------------------------------------------------------
(***************************************************************************)
(* Type correctness: whatever limits concurrent checks bring along, no     *)
(* bucket ever holds more than a second's worth.                           *)
(***************************************************************************)
THEOREM TypeCorrect == Spec => []TypeOK
<1>1. Init => TypeOK
  BY DEF Init, TypeOK, RequestType
<1>2. TypeOK /\ [Next]_vars => TypeOK'
  <2>. SUFFICES ASSUME TypeOK, [Next]_vars
                PROVE  TypeOK'
    OBVIOUS
  <2>1. CASE Tick
    <3>1. ASSUME NEW c \in Clients
          PROVE  /\ buckets'[c] \in BucketType \cup {None}
                 /\ buckets'[c] = None <=> buckets[c] = None
                 /\ buckets'[c] # None => buckets'[c].tokens <= Capacity(buckets'[c].limit)
      <4>1. CASE buckets[c] = None
        BY <2>1, <4>1 DEF Tick, Aged
      <4>2. CASE buckets[c] # None
        <5>1. buckets[c] \in BucketType /\ buckets'[c] = Aged(buckets[c])
          BY <2>1, <4>2 DEF Tick, TypeOK
        <5>. QED
          BY <4>2, <5>1, AgedType, RateLimiterAssumption DEF TypeOK
      <4>. QED
        BY <4>1, <4>2
    <3>2. buckets' \in [Clients -> BucketType \cup {None}]
      BY <2>1, <3>1 DEF Tick
    <3>. QED
      BY <2>1, <3>1, <3>2 DEF Tick, TypeOK, requestVars, RequestType
  <2>2. CASE \E s \in Scopes, l \in Limits : SetLimit(s, l)
    BY <2>2 DEF SetLimit, TypeOK, Config, requestVars
  <2>3. CASE Synchronise
    BY <2>3 DEF Synchronise, TypeOK, requestVars
  <2>4. ASSUME NEW q \in Requests, NEW c \in Clients, Resolve(q, c)
        PROVE  TypeOK'
    <3>1. [client |-> c, limit |-> resolveRateLimit(c)] \in RequestType
      BY ResolvedType DEF TypeOK, RequestType
    <3>. QED
      BY <2>4, <3>1 DEF Resolve, TypeOK
  <2>5. ASSUME NEW q \in Requests, Find(q)
        PROVE  TypeOK'
    <3>1. req[q] \in RequestType /\ req[q].client \in Clients /\ req[q].limit \in AppliedLimits
      BY <2>5 DEF Find, TypeOK, RequestType
    <3>2. /\ buckets' \in [Clients -> BucketType \cup {None}]
          /\ \A c \in Clients : /\ buckets[c] # None => buckets'[c] = buckets[c]
                                /\ buckets'[c] # buckets[c] =>
                                     c = req[q].client /\ buckets'[c] = NewBucket(req[q].limit)
          /\ buckets'[req[q].client] # None
      BY <2>5, <3>1, NewBucketType, RateLimiterAssumption DEF Find, TypeOK
    <3>3. \A c \in Clients : buckets'[c] # None =>
             buckets'[c].tokens <= Capacity(buckets'[c].limit)
      <4>1. Capacity(req[q].limit) <= Capacity(req[q].limit)
        <5>1. PerSecond \in Nat /\ req[q].limit \in Nat
          BY <3>1, LimitsAreNat
        <5>2. Capacity(req[q].limit) \in Nat
          BY <5>1, ProductNat DEF Capacity
        <5>. QED
          BY <5>2
      <4>. QED
        BY <3>1, <3>2, <4>1, NewBucketType DEF TypeOK
    <3>. QED
      BY <2>5, <3>1, <3>2, <3>3 DEF Find, TypeOK, RequestType
  <2>6. ASSUME NEW q \in Requests, Take(q)
        PROVE  TypeOK'
    <3>1. /\ req[q] \in RequestType /\ req[q].client \in Clients
          /\ req[q].limit \in AppliedLimits
          /\ buckets[req[q].client] \in BucketType
      BY <2>6 DEF Take, TypeOK, RequestType
    <3>. DEFINE spent == Spent(buckets[req[q].client], req[q].limit)
    <3>2. spent \in BucketType /\ spent # None /\ spent.tokens <= Capacity(spent.limit)
      BY <3>1, SpentType, RateLimiterAssumption
    <3>3. buckets' = [buckets EXCEPT ![req[q].client] = spent]
      BY <2>6 DEF Take
    <3>. HIDE DEF spent
    <3>4. /\ buckets' \in [Clients -> BucketType \cup {None}]
          /\ \A c \in Clients : buckets'[c] # None =>
                buckets'[c].tokens <= Capacity(buckets'[c].limit)
          /\ \A c \in Clients : buckets[c] # None => buckets'[c] # None
      BY <3>1, <3>2, <3>3 DEF TypeOK
    <3>. QED
      BY <2>6, <3>1, <3>4 DEF Take, TypeOK, RequestType
  <2>7. CASE UNCHANGED vars
    BY <2>7 DEF vars, TypeOK
  <2>. QED
    BY <2>1, <2>2, <2>3, <2>4, <2>5, <2>6, <2>7 DEF Next
<1>. QED
  BY <1>1, <1>2, PTL DEF Spec
-------------------------------------------------------------------------------
(***************************************************************************)
(* The level of a bucket, and what the code does to it.                    *)
(***************************************************************************)
LEMMA Monotone == \A p, a, b \in Nat : a <= b => p * a <= p * b
<1>. SUFFICES ASSUME NEW p \in Nat, NEW a \in Nat, NEW b \in Nat, a <= b
              PROVE  p * a <= p * b
  OBVIOUS
<1>. QED
  OBVIOUS

LEMMA BucketFacts ==
    ASSUME NEW b \in BucketType
    PROVE  /\ b # None /\ b.tokens \in Nat /\ b.limit \in Nat /\ b.age \in Nat
           /\ b.age <= PerSecond /\ b.limit \in AppliedLimits
           /\ Capacity(b.limit) \in Nat /\ b.age * b.limit \in Nat
           /\ Level(b) = Smaller(Capacity(b.limit), b.tokens + b.age * b.limit)
           /\ Level(b) \in Nat /\ Level(b) # None
<1>1. PerSecond \in Nat /\ \A a \in AppliedLimits : a \in Nat
  BY LimitsAreNat
<1>2. b.tokens \in Nat /\ b.limit \in AppliedLimits /\ b.age \in 0..PerSecond
  BY DEF BucketType
<1>3. b.age \in Nat /\ b.age <= PerSecond
  <2>. DEFINE a == b.age
  <2>1. a \in 0..PerSecond
    BY <1>2
  <2>. HIDE DEF a
  <2>2. a \in Nat /\ a <= PerSecond
    BY <1>1, <2>1
  <2>. QED
    BY <2>2 DEF a
<1>4. b.limit \in Nat
  BY <1>1, <1>2, Zenon
<1>5. Capacity(b.limit) \in Nat /\ b.age * b.limit \in Nat
  BY <1>1, <1>3, <1>4, ProductNat DEF Capacity
<1>6. b # None
  BY RateLimiterAssumption
<1>7. Level(b) = Smaller(Capacity(b.limit), b.tokens + b.age * b.limit)
  BY <1>6 DEF Level, Elapsed
<1>8. Level(b) \in Nat
  BY <1>2, <1>5, <1>7 DEF Smaller
<1>9. Level(b) # None
  BY <1>8, RateLimiterAssumption
<1>. QED
  BY <1>2, <1>3, <1>4, <1>5, <1>6, <1>7, <1>8, <1>9, Zenon

(***************************************************************************)
(* A tick raises the level by the limit, also when the age has stopped     *)
(* counting: the bucket is full by then.                                   *)
(***************************************************************************)
LEMMA LevelAged ==
    ASSUME NEW b \in BucketType, b.tokens <= Capacity(b.limit)
    PROVE  Level(Aged(b)) = Smaller(Capacity(b.limit), Level(b) + b.limit)
<1>1. /\ Aged(b) \in BucketType /\ Aged(b).tokens = b.tokens /\ Aged(b).limit = b.limit
      /\ Aged(b).age = IF b.age < PerSecond THEN b.age + 1 ELSE b.age
  BY AgedType
<1>2. /\ b.tokens \in Nat /\ b.limit \in Nat /\ b.age \in Nat /\ b.age <= PerSecond
      /\ Capacity(b.limit) \in Nat /\ b.age * b.limit \in Nat
      /\ Level(b) = Smaller(Capacity(b.limit), b.tokens + b.age * b.limit)
      /\ PerSecond \in Nat
  BY BucketFacts, LimitsAreNat
<1>3. Level(Aged(b)) = Smaller(Capacity(b.limit), b.tokens + Aged(b).age * b.limit)
  BY <1>1, BucketFacts
<1>4. CASE b.age < PerSecond
  <2>1. Aged(b).age * b.limit = b.age * b.limit + b.limit
    BY <1>1, <1>2, <1>4
  <2>. QED
    BY <1>2, <1>3, <2>1 DEF Smaller
<1>5. CASE ~(b.age < PerSecond)
  <2>1. b.age = PerSecond /\ Aged(b).age = b.age
    BY <1>1, <1>2, <1>5
  <2>2. b.age * b.limit = Capacity(b.limit)
    BY <2>1 DEF Capacity
  <2>. QED
    BY <1>2, <1>3, <2>1, <2>2 DEF Smaller
<1>. QED
  BY <1>4, <1>5

(***************************************************************************)
(* Refilling late, at the limit of the time passed, is refilling eagerly.  *)
(***************************************************************************)
LEMMA RefilledIsAdopted ==
    ASSUME NEW b \in BucketType, NEW l \in AppliedLimits
    PROVE  Refilled(b, l) = Smaller(Capacity(l), Level(b) + Raise(b, l))
<1>1. /\ b.tokens \in Nat /\ b.limit \in Nat
      /\ Capacity(b.limit) \in Nat /\ b.age * b.limit \in Nat
      /\ Level(b) = Smaller(Capacity(b.limit), b.tokens + b.age * b.limit)
  BY BucketFacts
<1>2. l \in Nat /\ PerSecond \in Nat /\ Capacity(l) \in Nat
  <2>1. l \in Nat /\ PerSecond \in Nat
    BY LimitsAreNat
  <2>. QED
    BY <2>1, ProductNat DEF Capacity
<1>3. CASE l > b.limit
  <2>1. Capacity(b.limit) <= Capacity(l)
    BY <1>1, <1>2, <1>3, Monotone DEF Capacity
  <2>. QED
    BY <1>1, <1>2, <1>3, <2>1 DEF Refilled, Elapsed, Raise, Smaller
<1>4. CASE ~(l > b.limit)
  <2>1. Capacity(l) <= Capacity(b.limit)
    BY <1>1, <1>2, <1>4, Monotone DEF Capacity
  <2>. QED
    BY <1>1, <1>2, <1>4, <2>1 DEF Refilled, Elapsed, Raise, Smaller
<1>. QED
  BY <1>3, <1>4

LEMMA FreshLevel ==
    ASSUME NEW b \in BucketType, b.age = 0, b.tokens <= Capacity(b.limit)
    PROVE  Level(b) = b.tokens
<1>1. /\ b.tokens \in Nat /\ b.limit \in Nat /\ Capacity(b.limit) \in Nat
      /\ Level(b) = Smaller(Capacity(b.limit), b.tokens + b.age * b.limit)
  BY BucketFacts
<1>2. b.age * b.limit = 0
  BY <1>1
<1>. QED
  BY <1>1, <1>2 DEF Smaller

-------------------------------------------------------------------------------
(***************************************************************************)
(* The bucket that is refilled when checks arrive implements the one that  *)
(* fills steadily, whichever limits the checks resolved and whenever.      *)
(***************************************************************************)
THEOREM Refinement == Spec => ImplementsSteadyBucket
<1>. DEFINE LevelBar == [c \in Clients |-> Level(buckets[c])]
            LimitBar == [c \in Clients |->
                           IF buckets[c] = None THEN None ELSE buckets[c].limit]
<1>1. Init => Steady!Init
  <2>. SUFFICES ASSUME Init
                PROVE  /\ LevelBar = [c \in Clients |-> None]
                       /\ LimitBar = [c \in Clients |-> None]
    BY DEF Steady!Init
  <2>. QED
    BY DEF Init, Level
<1>2. TypeOK /\ TypeOK' /\ [Next]_vars => [Steady!Next]_(Steady!vars)
  <2>. SUFFICES ASSUME TypeOK, TypeOK', [Next]_vars
                PROVE  Steady!Next \/ (LevelBar' = LevelBar /\ LimitBar' = LimitBar)
    BY DEF Steady!vars
  <2>1. CASE Tick
    <3>1. ASSUME NEW c \in Clients
          PROVE  /\ LevelBar'[c] = IF LevelBar[c] = None THEN None
                        ELSE Smaller(Capacity(LimitBar[c]), LevelBar[c] + LimitBar[c])
                 /\ LimitBar'[c] = LimitBar[c]
      <4>1. buckets'[c] = Aged(buckets[c])
        BY <2>1 DEF Tick
      <4>2. CASE buckets[c] = None
        BY <4>1, <4>2 DEF Aged, Level
      <4>3. CASE buckets[c] # None
        <5>1. /\ buckets[c] \in BucketType
              /\ buckets[c].tokens <= Capacity(buckets[c].limit)
          BY <4>3 DEF TypeOK
        <5>2. /\ Aged(buckets[c]) # None
              /\ Aged(buckets[c]).limit = buckets[c].limit
              /\ Level(buckets[c]) # None
          BY <5>1, AgedType, BucketFacts
        <5>3. Level(Aged(buckets[c])) =
                Smaller(Capacity(buckets[c].limit), Level(buckets[c]) + buckets[c].limit)
          BY <5>1, LevelAged
        <5>. QED
          BY <4>1, <4>3, <5>2, <5>3
      <4>. QED
        BY <4>2, <4>3
    <3>. HIDE DEF LevelBar, LimitBar
    <3>2. /\ LevelBar' = [c \in Clients |-> LevelBar'[c]]
          /\ LimitBar' = [c \in Clients |-> LimitBar'[c]]
          /\ LimitBar = [c \in Clients |-> LimitBar[c]]
      BY Zenon DEF LevelBar, LimitBar
    <3>3. LevelBar' = [c \in Clients |->
             IF LevelBar[c] = None THEN None
             ELSE Smaller(Capacity(LimitBar[c]), LevelBar[c] + LimitBar[c])]
      BY <3>1, <3>2
    <3>4. LimitBar' = LimitBar
      BY <3>1, <3>2
    <3>5. Steady!Grow
      BY <3>3, <3>4 DEF Steady!Grow, Steady!Smaller, Steady!Capacity, Smaller, Capacity,
                        LevelBar, LimitBar
    <3>. QED
      BY <3>5 DEF Steady!Next
  <2>2. CASE UNCHANGED buckets
    BY <2>2
  <2>3. ASSUME NEW q \in Requests, Find(q)
        PROVE  Steady!Next \/ UNCHANGED buckets
    <3>1. PICK c \in Clients, l \in AppliedLimits : c = req[q].client /\ l = req[q].limit
      BY <2>3 DEF Find, TypeOK, RequestType
    <3>2. CASE buckets[c] # None
      BY <2>3, <3>1, <3>2 DEF Find, TypeOK
    <3>3. CASE buckets[c] = None
      <4>1. buckets' = [buckets EXCEPT ![c] = NewBucket(l)]
        BY <2>3, <3>1, <3>3 DEF Find
      <4>2. /\ NewBucket(l) \in BucketType /\ NewBucket(l) # None
            /\ NewBucket(l).limit = l /\ NewBucket(l).age = 0
            /\ NewBucket(l).tokens = Capacity(l)
        BY <3>1, NewBucketType, BucketFacts
      <4>3. Level(NewBucket(l)) = Capacity(l)
        <5>1. NewBucket(l).tokens <= Capacity(NewBucket(l).limit)
          <6>1. Capacity(l) \in Nat
            BY <4>2, BucketFacts
          <6>. QED
            BY <4>2, <6>1
        <5>. QED
          BY <4>2, <5>1, FreshLevel
      <4>4. LevelBar[c] = None
        BY <3>1, <3>3 DEF Level
      <4>5. LevelBar' = [LevelBar EXCEPT ![c] = Capacity(l)]
        BY <3>1, <4>1, <4>3 DEF TypeOK
      <4>6. LimitBar' = [LimitBar EXCEPT ![c] = l]
        BY <3>1, <4>1, <4>2 DEF TypeOK
      <4>7. Steady!Fill(c, l)
        BY <4>4, <4>5, <4>6 DEF Steady!Fill, Steady!Capacity, Capacity
      <4>8. \E d \in Clients, m \in AppliedLimits : Steady!Fill(d, m) \/ Steady!Spend(d, m)
        BY <4>7
      <4>. QED
        BY <4>8 DEF Steady!Next
    <3>. QED
      BY <3>2, <3>3
  <2>4. ASSUME NEW q \in Requests, Take(q)
        PROVE  Steady!Next
    <3>1. PICK c \in Clients, l \in AppliedLimits, b \in BucketType :
             c = req[q].client /\ l = req[q].limit /\ b = buckets[c]
      BY <2>4 DEF Take, TypeOK, RequestType
    <3>2. buckets' = [buckets EXCEPT ![c] = Spent(b, l)]
      BY <2>4, <3>1 DEF Take
    <3>3. /\ Spent(b, l) \in BucketType /\ Spent(b, l) # None
          /\ Spent(b, l).limit = l
          /\ Level(Spent(b, l)) = Spent(b, l).tokens
      BY <3>1, SpentType, BucketFacts, FreshLevel
    <3>4. /\ b # None /\ Level(b) # None /\ buckets[c] = b
      BY <3>1, BucketFacts
    <3>5. /\ LevelBar[c] = Level(b) /\ LimitBar[c] = b.limit
      BY <3>1, <3>4
    <3>6. Steady!Adopted(c, l) = Refilled(b, l)
      BY <3>1, <3>5, RefilledIsAdopted
         DEF Steady!Adopted, Steady!Smaller, Steady!Capacity, Smaller, Capacity, Raise
    <3>7. Spent(b, l).tokens = IF Refilled(b, l) >= PerSecond
                                 THEN Refilled(b, l) - PerSecond ELSE Refilled(b, l)
      <4>1. Refilled(b, l) \in Nat
        BY <3>1, RefilledBounds
      <4>. QED
        BY <4>1, LimitsAreNat DEF Spent, Allowed
    <3>8. LevelBar' = [LevelBar EXCEPT ![c] = Spent(b, l).tokens]
      BY <3>1, <3>2, <3>3 DEF TypeOK
    <3>9. LimitBar' = [LimitBar EXCEPT ![c] = l]
      BY <3>1, <3>2, <3>3 DEF TypeOK
    <3>10. Steady!Spend(c, l)
      BY <3>4, <3>5, <3>6, <3>7, <3>8, <3>9 DEF Steady!Spend
    <3>11. \E d \in Clients, m \in AppliedLimits : Steady!Fill(d, m) \/ Steady!Spend(d, m)
      BY <3>10
    <3>. QED
      BY <3>11 DEF Steady!Next
  <2>5. \/ Tick
        \/ UNCHANGED buckets
        \/ \E q \in Requests : Find(q) \/ Take(q)
    BY DEF Next, SetLimit, Synchronise, Resolve, vars
  <2>. QED
    BY <2>1, <2>2, <2>3, <2>4, <2>5
<1>. QED
  BY <1>1, <1>2, TypeCorrect, PTL DEF Spec, ImplementsSteadyBucket, Steady!Spec
===============================================================================
