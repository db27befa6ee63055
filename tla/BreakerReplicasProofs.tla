------------------------- MODULE BreakerReplicasProofs -------------------------
(***************************************************************************)
(* Proofs about BreakerReplicas, for every number of replicas, requests    *)
(* and faults, every open period and every label operators may force.      *)
(***************************************************************************)
EXTENDS BreakerReplicas, FiniteSetTheorems, TLAPS

(* steps at which a request points to an object                            *)
Holding == {"check", "report", "force", "marshal", "labelled"}

(***************************************************************************)
(* A request that is served has a replica, and up to Marshal an object;    *)
(* requests that share one are served by the same replica.                 *)
(***************************************************************************)
PointersOK ==
    /\ \A c \in Requests : ptr[c] # None <=> pc[c] \in Holding
    /\ \A c \in Requests : at[c] # None <=> Serving(c)
    /\ \A c \in Requests : ptr[c] \in Replicas => ptr[c] = at[c]
    /\ \A c, d \in Requests : ptr[c] # None /\ ptr[c] = ptr[d] => at[c] = at[d]
    /\ \A c \in Requests : pc[c] \in {"labelled", "store"} => snap[c] # None

WellFormed == TypeOK /\ PointersOK

-------------------------------------------------------------------------------
(***************************************************************************)
(* The methods keep an object well formed.                                 *)
(***************************************************************************)
LEMMA NewTyped == NewCircuitBreaker \in Breakers
  BY BreakerAssumption DEF NewCircuitBreaker, Breakers, Labels, States

LEMMA RefreshTyped ==
    ASSUME NEW cb \in Breakers
    PROVE  refreshState(cb) \in Breakers
<1>1. CASE Expired(cb)
  <2>1. refreshState(cb) = [cb EXCEPT !.State = "half-open",
                                      !.probeInFlight = FALSE, !.age = 0]
    BY <1>1 DEF refreshState
  <2>2. 0 \in 0..OpenDuration /\ "half-open" \in Labels
    BY BreakerAssumption DEF Labels, States
  <2>. QED
    BY <2>1, <2>2 DEF Breakers
<1>2. CASE ~Expired(cb)
  BY <1>2 DEF refreshState
<1>. QED
  BY <1>1, <1>2

LEMMA CheckTyped ==
    ASSUME NEW cb \in Breakers
    PROVE  Check(cb) \in Breakers /\ Admits(cb) \in BOOLEAN
<1> DEFINE now == refreshState(cb)
<1>1. now \in Breakers
  BY RefreshTyped
<1>2. [now EXCEPT !.probeInFlight = TRUE] \in Breakers
  <2> HIDE DEF now
  <2>. QED
    BY <1>1 DEF Breakers
<1>3. Check(cb) \in Breakers
  BY <1>1, <1>2, Zenon DEF Check
<1>4. Admits(cb) \in BOOLEAN
  BY DEF Admits
<1>. QED
  BY <1>3, <1>4

LEMMA SetTyped ==
    ASSUME NEW cb \in Breakers, NEW state \in Labels
    PROVE  SetState(cb, state) \in Breakers
<1> DEFINE moved == [cb EXCEPT !.State = state]
           reset == [moved EXCEPT !.successes = 0, !.failures = 0]
           final == [reset EXCEPT !.probeInFlight = FALSE, !.age = 0]
<1>1. moved \in Breakers
  BY DEF Breakers
<1>2. reset \in Breakers
  <2> HIDE DEF moved
  <2>. QED
    BY <1>1 DEF Breakers
<1>3. final \in Breakers
  <2> HIDE DEF reset
  <2>1. 0 \in 0..OpenDuration
    BY BreakerAssumption
  <2>. QED
    BY <1>2, <2>1 DEF Breakers
<1>4. SetState(cb, state) = final
  BY Zenon DEF SetState
<1>. QED
  BY <1>3, <1>4

LEMMA ObservedTyped ==
    ASSUME NEW cb \in Breakers
    PROVE  Successful(cb) \in Breakers /\ RecordFailure(cb) \in Breakers
<1>1. SetState(cb, "closed") \in Breakers /\ SetState(cb, "open") \in Breakers
  BY SetTyped DEF Labels, States
<1>2. [cb EXCEPT !.probeInFlight = FALSE] \in Breakers
  BY DEF Breakers
<1>3. [cb EXCEPT !.successes = cb.successes + 1, !.probeInFlight = FALSE] \in Breakers
  <2>1. cb.successes + 1 \in Nat
    BY DEF Breakers
  <2>. QED
    BY <2>1 DEF Breakers
<1>4. [cb EXCEPT !.failures = cb.failures + 1, !.probeInFlight = FALSE] \in Breakers
  <2>1. cb.failures + 1 \in Nat
    BY DEF Breakers
  <2>. QED
    BY <2>1 DEF Breakers
<1>5. RecordSuccess(cb) \in Breakers
  BY <1>1, <1>3, Zenon DEF RecordSuccess
<1>6. Successful(cb) \in Breakers
  BY <1>2, <1>5, Zenon DEF Successful
<1>7. RecordFailure(cb) \in Breakers
  BY <1>1, <1>4, Zenon DEF RecordFailure
<1>. QED
  BY <1>6, <1>7

LEMMA RestoredTyped ==
    ASSUME NEW p \in Records
    PROVE  Restored(p) \in Breakers /\ Restored(p) # None /\ Described(Restored(p)) = p
<1>1. Restored(p) \in Breakers
  BY NewTyped DEF Restored, Records, Breakers
<1>2. Restored(p) # None
  BY <1>1, BreakerReplicasAssumption
<1>3. Restored(p).State = p.State /\ Restored(p).age = p.age
  BY DEF Restored, NewCircuitBreaker
<1>4. p = [State |-> p.State, age |-> p.age]
  BY DEF Records
<1>. QED
  BY <1>1, <1>2, <1>3, <1>4 DEF Described

LEMMA AgedTyped ==
    /\ \A cb \in Breakers \cup {None} :
          Aged(cb) \in Breakers \cup {None} /\ (Aged(cb) = None <=> cb = None)
    /\ \A p \in Records \cup {None} :
          Aged(p) \in Records \cup {None} /\ (Aged(p) = None <=> p = None)
    /\ \A cb \in Breakers \cup {None} : Described(Aged(cb)) = Aged(Described(cb))
<1>1. ASSUME NEW cb \in Breakers
      PROVE  Aged(cb) \in Breakers /\ Described(Aged(cb)) = Aged(Described(cb))
  <2>1. cb # None
    BY BreakerReplicasAssumption
  <2>2. Aged(cb) = [cb EXCEPT !.age = IF @ < OpenDuration THEN @ + 1 ELSE @]
    BY <2>1 DEF Aged
  <2>3. Aged(cb) \in Breakers
    BY <2>2, BreakerAssumption DEF Breakers
  <2>4. Aged(cb) # None
    BY <2>3, BreakerReplicasAssumption
  <2>5. Described(cb) \in Records
    BY <2>1 DEF Described, Records, Breakers
  <2>6. Described(cb) # None
    BY <2>5, BreakerReplicasAssumption
  <2>. QED
    BY <2>1, <2>2, <2>3, <2>4, <2>6 DEF Described, Aged, Breakers
<1>2. ASSUME NEW p \in Records
      PROVE  Aged(p) \in Records
  <2>1. p # None
    BY BreakerReplicasAssumption
  <2>. QED
    BY <2>1, BreakerAssumption DEF Aged, Records
<1>3. Aged(None) = None /\ Described(None) = None
  BY DEF Aged, Described
<1>4. None \notin Breakers /\ None \notin Records
  BY BreakerReplicasAssumption
<1>. QED
  BY <1>1, <1>2, <1>3, <1>4

(***************************************************************************)
(* While a request points to a replica's object, not every request can be  *)
(* the name of an orphan.                                                  *)
(***************************************************************************)
LEMMA SpareExists ==
    ASSUME WellFormed, NEW h \in Requests, ptr[h] \in Replicas
    PROVE  \E i \in Requests : \A c \in Requests : ptr[c] # i
<1> SUFFICES ASSUME \A i \in Requests : \E c \in Requests : ptr[c] = i
             PROVE  FALSE
  OBVIOUS
<1> DEFINE holder == [i \in Requests |-> CHOOSE c \in Requests : ptr[c] = i]
           others == Requests \ {h}
<1>1. \A i \in Requests : holder[i] \in Requests /\ ptr[holder[i]] = i
  OBVIOUS
<1>2. \A i \in Requests : holder[i] # h
  <2> HIDE DEF holder
  <2>. QED
    BY <1>1, BreakerReplicasAssumption
<1>3. holder \in [Requests -> others]
  BY <1>1, <1>2
<1>4. IsFiniteSet(Requests) /\ Cardinality(Requests) \in Nat
  BY FS_CardinalityType, BreakerReplicasAssumption
<1>5. IsFiniteSet(others) /\ Cardinality(others) = Cardinality(Requests) - 1
  BY <1>4, FS_RemoveElement
<1> HIDE DEF holder, others
<1>6. Cardinality(others) < Cardinality(Requests)
  BY <1>4, <1>5
<1>7. \E x, y \in Requests : x # y /\ holder[x] = holder[y]
  BY <1>3, <1>4, <1>5, <1>6, FS_PigeonHole
<1>. QED
  BY <1>1, <1>7
-------------------------------------------------------------------------------
(***************************************************************************)
(* Every step keeps objects and pointers well formed.                      *)
(***************************************************************************)
LEMMA DeployedTyped ==
    ASSUME TypeOK
    PROVE  /\ deployed.replicas \subseteq Replicas
           /\ deployed.operators \subseteq Requests
           /\ deployed.faults \in Nat
  BY BreakerReplicasAssumption DEF TypeOK, Requests

LEMMA FaultTyped ==
    ASSUME TypeOK, UNCHANGED deployed, Fault
    PROVE  faults' \in 0..deployed'.faults
  BY DeployedTyped DEF TypeOK, Fault

LEMMA TickTyped ==
    ASSUME WellFormed, Tick
    PROVE  WellFormed'
<1>1. UNCHANGED <<deployed, pc, at, ptr, admitted, round, faults, alone, clean, synced>>
  BY DEF Tick, auxVars
<1>2. /\ objs' \in [Objects -> Breakers \cup {None}]
      /\ \A i \in Objects : objs'[i] = None <=> objs[i] = None
  BY AgedTyped, Zenon DEF Tick, WellFormed, TypeOK
<1>3. /\ snap' \in [Requests -> Records \cup {None}]
      /\ \A c \in Requests : snap'[c] = None <=> snap[c] = None
  BY AgedTyped, Zenon DEF Tick, WellFormed, TypeOK
<1>4. store' \in Records \cup {None} /\ got' \in [Replicas -> Records \cup {None}]
  BY AgedTyped, Zenon DEF Tick, WellFormed, TypeOK
<1>5. TypeOK'
  BY <1>1, <1>2, <1>3, <1>4 DEF WellFormed, TypeOK
<1>6. PointersOK'
  BY <1>1, <1>3 DEF WellFormed, PointersOK, Serving
<1>. QED
  BY <1>5, <1>6 DEF WellFormed

LEMMA ArriveTyped ==
    ASSUME WellFormed, NEW c \in Requests, NEW r \in Replicas,
           NEW step \in {"check", "report", "force"}, pc[c] \in {"idle", "working"},
           Arrive(c, r, step), faults' \in 0..deployed.faults
    PROVE  WellFormed'
<1> USE DEF WellFormed
<1>1. /\ UNCHANGED <<deployed, store, admitted, snap, round, got>>
      /\ ptr' = [ptr EXCEPT ![c] = r] /\ at' = [at EXCEPT ![c] = r]
      /\ pc' = [pc EXCEPT ![c] = step]
      /\ clean' = {} /\ synced' = {} /\ alone' \in {c, None}
  BY DEF Arrive, roundVars
<1>2. /\ r \in Objects /\ r # None /\ r \notin Requests
      /\ NewCircuitBreaker \in Breakers /\ NewCircuitBreaker # None
  BY NewTyped, BreakerReplicasAssumption DEF Objects
<1>3. /\ objs' \in [Objects -> Breakers \cup {None}]
      /\ objs'[r] # None
      /\ \A i \in Objects : objs[i] # None => objs'[i] # None
  BY <1>2 DEF Arrive, TypeOK
<1>4. \A d \in Requests : ptr'[d] # None => objs'[ptr'[d]] # None
  BY <1>1, <1>2, <1>3 DEF TypeOK
<1>5. TypeOK'
  BY <1>1, <1>2, <1>3, <1>4 DEF TypeOK, Steps, Objects
<1>6. PointersOK'
  <2>1. \A d \in Requests : ptr[d] = r => at[d] = r
    BY DEF PointersOK
  <2>. QED
    BY <1>1, <1>2, <2>1 DEF PointersOK, TypeOK, Holding, Serving
<1>. QED
  BY <1>5, <1>6

LEMMA UpdateTyped ==
    ASSUME WellFormed, NEW c \in Requests, pc[c] \in {"check", "report", "force"},
           NEW breaker \in Breakers, Update(c, breaker),
           admitted' \in [Requests -> BOOLEAN], faults' \in 0..deployed.faults,
           UNCHANGED <<deployed, store, at, ptr, snap, roundVars, auxVars>>
    PROVE  WellFormed'
<1> USE DEF WellFormed
<1>1. ptr[c] \in Objects /\ breaker # None
  BY BreakerReplicasAssumption DEF TypeOK, PointersOK, Holding
<1>2. TypeOK'
  BY <1>1 DEF Update, TypeOK, Steps, roundVars, auxVars
<1>3. PointersOK'
  BY DEF Update, TypeOK, PointersOK, Holding, Serving
<1>. QED
  BY <1>2, <1>3

(* the object a request points to                                          *)
LEMMA HeldTyped ==
    ASSUME WellFormed, NEW c \in Requests, pc[c] \in Holding
    PROVE  ptr[c] \in Objects /\ objs[ptr[c]] \in Breakers /\ at[c] \in Replicas
  BY DEF WellFormed, TypeOK, PointersOK, Holding, Serving

LEMMA MethodTyped ==
    ASSUME WellFormed, NEW c \in Requests,
           CheckIt(c) \/ ReportSuccess(c) \/ ReportFailure(c)
                      \/ \E state \in ForcedStates : ForceState(c, state)
    PROVE  WellFormed'
<1> DEFINE held == objs[ptr[c]]
<1>1. ASSUME pc[c] \in {"check", "report", "force"}
      PROVE  held \in Breakers
  BY <1>1, HeldTyped DEF Holding
<1>2. faults \in 0..deployed.faults /\ admitted \in [Requests -> BOOLEAN]
  BY DEF WellFormed, TypeOK
<1>3. CASE CheckIt(c)
  <2>1. held \in Breakers
    BY <1>1, <1>3 DEF CheckIt
  <2>2. Check(held) \in Breakers /\ Admits(held) \in BOOLEAN
    BY <2>1, CheckTyped
  <2>3. admitted' \in [Requests -> BOOLEAN] /\ faults' \in 0..deployed.faults
    BY <1>2, <1>3, <2>2, Zenon DEF CheckIt
  <2>4. /\ pc[c] = "check" /\ Update(c, Check(held))
        /\ UNCHANGED <<deployed, store, at, ptr, snap, roundVars, auxVars>>
    BY <1>3, Zenon DEF CheckIt
  <2>. QED
    BY <2>2, <2>3, <2>4, UpdateTyped
<1>4. CASE ReportSuccess(c)
  <2>1. Successful(held) \in Breakers
    BY <1>1, <1>4, ObservedTyped DEF ReportSuccess
  <2>2. admitted' \in [Requests -> BOOLEAN] /\ faults' \in 0..deployed.faults
    BY <1>2, <1>4 DEF ReportSuccess
  <2>3. /\ pc[c] = "report" /\ Update(c, Successful(held))
        /\ UNCHANGED <<deployed, store, at, ptr, snap, roundVars, auxVars>>
    BY <1>4, Zenon DEF ReportSuccess
  <2>. QED
    BY <2>1, <2>2, <2>3, UpdateTyped
<1>5. CASE ReportFailure(c)
  <2>1. RecordFailure(held) \in Breakers
    BY <1>1, <1>5, ObservedTyped DEF ReportFailure
  <2>2. /\ pc[c] = "report" /\ Update(c, RecordFailure(held))
        /\ UNCHANGED <<deployed, store, at, ptr, snap, roundVars, auxVars>>
    BY <1>5, Zenon DEF ReportFailure
  <2>3. admitted' \in [Requests -> BOOLEAN]
    BY <1>2, <1>5 DEF ReportFailure
  <2>4. faults' \in 0..deployed.faults
    BY <1>5, FaultTyped DEF ReportFailure, WellFormed
  <2>. QED
    BY <2>1, <2>2, <2>3, <2>4, UpdateTyped
<1>6. ASSUME NEW state \in ForcedStates, ForceState(c, state)
      PROVE  WellFormed'
  <2>1. SetState(held, state) \in Breakers
    BY <1>1, <1>6, SetTyped DEF ForceState, Labels, States
  <2>2. admitted' \in [Requests -> BOOLEAN] /\ faults' \in 0..deployed.faults
    BY <1>2, <1>6 DEF ForceState
  <2>3. /\ pc[c] = "force" /\ Update(c, SetState(held, state))
        /\ UNCHANGED <<deployed, store, at, ptr, snap, roundVars, auxVars>>
    BY <1>6, Zenon DEF ForceState
  <2>. QED
    BY <2>1, <2>2, <2>3, UpdateTyped
<1>. QED
  BY <1>3, <1>4, <1>5, <1>6

LEMMA MarshalTyped ==
    ASSUME WellFormed, NEW c \in Requests, MarshalState(c) \/ Marshal(c)
    PROVE  WellFormed'
<1> USE DEF WellFormed
<1>1. CASE MarshalState(c)
  <2>1. objs[ptr[c]] \in Breakers
    BY <1>1, HeldTyped DEF MarshalState, Holding
  <2>2. Described(objs[ptr[c]]) \in Records
    BY <2>1, BreakerReplicasAssumption DEF Described, Breakers, Records, Labels
  <2>3. snap' \in [Requests -> Records \cup {None}] /\ snap'[c] # None
    BY <1>1, <2>2, BreakerReplicasAssumption DEF MarshalState, TypeOK
  <2>4. TypeOK'
    BY <1>1, <2>3 DEF MarshalState, TypeOK, Steps, roundVars, auxVars
  <2>5. PointersOK'
    BY <1>1, <2>3 DEF MarshalState, TypeOK, PointersOK, Holding, Serving
  <2>. QED
    BY <2>4, <2>5
<1>2. CASE Marshal(c)
  <2>1. objs[ptr[c]] \in Breakers /\ snap[c] \in Records
    BY <1>2, HeldTyped DEF Marshal, TypeOK, PointersOK, Holding
  <2>2. PICK label \in {snap[c].State, objs[ptr[c]].State} \cup {"torn"},
             time \in {snap[c].age, objs[ptr[c]].age} :
          snap' = [snap EXCEPT ![c] = [State |-> label, age |-> time]]
    BY <1>2 DEF Marshal
  <2>3. [State |-> label, age |-> time] \in Records
    BY <2>1 DEF Breakers, Records, Labels
  <2>4. snap' \in [Requests -> Records \cup {None}] /\ snap'[c] # None
    BY <2>2, <2>3, BreakerReplicasAssumption DEF TypeOK
  <2>5. /\ objs' \in [Objects -> Breakers \cup {None}]
        /\ \A i \in Objects : (i \in Replicas \/ \E x \in Requests \ {c} : ptr[x] = i)
              => objs'[i] = objs[i]
    BY <1>2 DEF Marshal, TypeOK
  <2>6. /\ ptr' = [ptr EXCEPT ![c] = None] /\ pc' = [pc EXCEPT ![c] = "store"]
        /\ pc[c] = "labelled"
        /\ UNCHANGED <<deployed, store, at, admitted, round, got, faults, alone, clean, synced>>
    BY <1>2 DEF Marshal, roundVars, auxVars
  <2>7. \A d \in Requests : ptr'[d] # None => objs'[ptr'[d]] # None
    BY <2>5, <2>6 DEF TypeOK
  <2>8. TypeOK'
    BY <2>4, <2>5, <2>6, <2>7 DEF TypeOK, Steps
  <2>9. PointersOK'
    <3>1. None \notin Replicas
      BY BreakerReplicasAssumption
    <3>2. ptr'[c] = None /\ pc'[c] = "store" /\ snap'[c] # None
      BY <2>4, <2>6 DEF TypeOK
    <3>3. \A d \in Requests \ {c} : ptr'[d] = ptr[d] /\ pc'[d] = pc[d] /\ snap'[d] = snap[d]
      BY <2>2, <2>6 DEF TypeOK
    <3>. QED
      BY <2>6, <3>1, <3>2, <3>3 DEF PointersOK, Holding, Serving
  <2>. QED
    BY <2>8, <2>9
<1>. QED
  BY <1>1, <1>2

LEMMA StoreTyped ==
    ASSUME WellFormed, NEW c \in Requests, Store(c) \/ StoreFails(c)
    PROVE  WellFormed'
<1> USE DEF WellFormed
<1>1. pc[c] = "store" /\ Answer(c) /\ alone' = None
  BY DEF Store, StoreFails
<1>2. at[c] \in Replicas /\ ptr[c] = None
  BY <1>1 DEF TypeOK, PointersOK, Serving, Holding
<1>3. /\ store' \in Records \cup {None} /\ synced' \subseteq Replicas /\ clean' = clean
      /\ faults' \in 0..deployed.faults
  <2>1. CASE Store(c)
    BY <1>2, <2>1 DEF Store, TypeOK
  <2>2. CASE StoreFails(c)
    BY <2>2, FaultTyped DEF StoreFails, Answer, TypeOK
  <2>. QED
    BY <2>1, <2>2
<1>4. TypeOK'
  BY <1>1, <1>3 DEF Answer, TypeOK, Steps, roundVars
<1>5. PointersOK'
  BY <1>1, <1>2 DEF Answer, TypeOK, PointersOK, Holding, Serving
<1>. QED
  BY <1>4, <1>5

LEMMA AbandonTyped ==
    ASSUME WellFormed, NEW c \in Requests, Abandon(c)
    PROVE  WellFormed'
<1> USE DEF WellFormed
<1>1. faults' \in 0..deployed'.faults
  BY FaultTyped DEF Abandon
<1>2. TypeOK'
  BY <1>1 DEF Abandon, TypeOK, Steps, roundVars, auxVars
<1>3. PointersOK'
  BY DEF Abandon, TypeOK, PointersOK, Holding, Serving
<1>. QED
  BY <1>2, <1>3

LEMMA RoundTyped ==
    ASSUME WellFormed, NEW r \in Replicas,
           SyncRead(r) \/ SyncReadFails(r) \/ SyncAborts(r)
    PROVE  WellFormed'
<1> USE DEF WellFormed
<1>1. UNCHANGED <<deployed, objs, store, pc, at, ptr, admitted, snap, synced>>
  BY DEF SyncRead, SyncReadFails, SyncAborts, requestVars
<1>2. faults' \in 0..deployed.faults
  BY FaultTyped DEF SyncRead, SyncReadFails, SyncAborts, TypeOK
<1>3. alone' \in Requests \cup {None}
  BY DEF SyncRead, SyncReadFails, SyncAborts, Meets, TypeOK
<1>4. /\ round' \subseteq Replicas /\ clean' \subseteq round'
      /\ got' \in [Replicas -> Records \cup {None}]
  BY DEF SyncRead, SyncReadFails, SyncAborts, EndRound, TypeOK
<1>5. TypeOK'
  BY <1>1, <1>2, <1>3, <1>4 DEF TypeOK
<1>6. PointersOK'
  BY <1>1 DEF PointersOK, Serving
<1>. QED
  BY <1>5, <1>6

LEMMA ReplaceTyped ==
    ASSUME WellFormed, NEW r \in Replicas, NEW p \in Records \cup {None},
           Replace(r, p, {c \in Requests : ptr[c] = r})
    PROVE  /\ objs' \in [Objects -> Breakers \cup {None}]
           /\ ptr' \in [Requests -> Objects \cup {None}]
           /\ \A c \in Requests : ptr'[c] # None => objs'[ptr'[c]] # None
           /\ \A c \in Requests : ptr'[c] # None <=> ptr[c] # None
           /\ \A c \in Requests : ptr'[c] \in Replicas => ptr'[c] = at[c]
           /\ \A c, d \in Requests : ptr'[c] # None /\ ptr'[c] = ptr'[d] => at[c] = at[d]
           /\ objs'[r] = IF p = None THEN None ELSE Restored(p)
           /\ \A i \in Replicas \ {r} : objs'[i] = objs[i]
           /\ \A c \in Requests : ptr[c] # r => ptr'[c] = ptr[c]
<1> DEFINE holders == {c \in Requests : ptr[c] = r}
           next == IF p = None THEN None ELSE Restored(p)
           spare == CHOOSE i \in Requests : \A c \in Requests : ptr[c] # i
<1> USE DEF WellFormed
<1>1. next \in Breakers \cup {None} /\ r \in Objects /\ r # None /\ r \notin Requests
  BY RestoredTyped, BreakerReplicasAssumption DEF Objects
<1>2. CASE holders = {}
  <2>1. objs' = [objs EXCEPT ![r] = next] /\ ptr' = ptr /\ \A c \in Requests : ptr[c] # r
    BY <1>2, Zenon DEF Replace
  <2> HIDE DEF next
  <2>2. objs' \in [Objects -> Breakers \cup {None}] /\ objs'[r] = next
        /\ \A i \in Objects \ {r} : objs'[i] = objs[i]
    BY <1>1, <2>1 DEF TypeOK
  <2>. QED
    BY <2>1, <2>2, <1>1 DEF TypeOK, PointersOK, next, Objects
<1>3. CASE holders # {}
  <2>1. PICK h \in Requests : ptr[h] = r
    BY <1>3
  <2>2. spare \in Requests /\ \A c \in Requests : ptr[c] # spare
    <3>1. \E i \in Requests : \A c \in Requests : ptr[c] # i
      BY <2>1, SpareExists
    <3>. QED
      BY <3>1, Zenon
  <2>3. /\ objs' = [objs EXCEPT ![r] = next, ![spare] = objs[r]]
        /\ ptr' = [c \in Requests |-> IF c \in holders THEN spare ELSE ptr[c]]
    BY <1>3, Zenon DEF Replace
  <2> HIDE DEF next, spare
  <2>4. spare \in Objects /\ spare # r /\ spare # None /\ spare \notin Replicas
    BY <2>2, <1>1, BreakerReplicasAssumption DEF Objects
  <2>5. objs[r] \in Breakers
    BY <2>1, <1>1 DEF TypeOK
  <2>6. /\ objs' \in [Objects -> Breakers \cup {None}]
        /\ objs'[r] = next /\ objs'[spare] = objs[r]
        /\ \A i \in Objects \ {r, spare} : objs'[i] = objs[i]
    BY <1>1, <2>3, <2>4, <2>5 DEF TypeOK
  <2>7. /\ ptr' \in [Requests -> Objects \cup {None}]
        /\ \A c \in Requests : ptr'[c] = IF ptr[c] = r THEN spare ELSE ptr[c]
    BY <2>3, <2>4 DEF TypeOK
  <2>8. \A c \in Requests : ptr[c] = r => at[c] = r
    BY DEF PointersOK
  <2>9. \A c \in Requests : ptr'[c] # None => objs'[ptr'[c]] # None
    BY <1>1, <2>2, <2>4, <2>5, <2>6, <2>7, BreakerReplicasAssumption DEF TypeOK
  <2>10. \A c, d \in Requests : ptr'[c] # None /\ ptr'[c] = ptr'[d] => at[c] = at[d]
    BY <2>2, <2>7, <2>8 DEF PointersOK
  <2>11. \A i \in Replicas \ {r} : objs'[i] = objs[i]
    BY <2>4, <2>6 DEF Objects
  <2>12. objs'[r] = IF p = None THEN None ELSE Restored(p)
    BY <2>6 DEF next
  <2>. QED
    BY <1>1, <2>4, <2>6, <2>7, <2>9, <2>10, <2>11, <2>12 DEF PointersOK
<1>. QED
  BY <1>2, <1>3

LEMMA SwapTyped ==
    ASSUME WellFormed, NEW r \in Replicas, SyncSwap(r)
    PROVE  WellFormed'
<1> USE DEF WellFormed
<1>1. got[r] \in Records \cup {None}
  BY DEF TypeOK
<1>2. Replace(r, got[r], {c \in Requests : ptr[c] = r})
  BY DEF SyncSwap
<1>3. /\ UNCHANGED <<deployed, store, pc, at, admitted, snap, faults, alone>>
      /\ round' \subseteq Replicas /\ clean' \subseteq round' /\ synced' \subseteq Replicas
      /\ got' \in [Replicas -> Records \cup {None}]
  BY DEF SyncSwap, EndRound, TypeOK
<1>4. TypeOK'
  BY <1>1, <1>2, <1>3, ReplaceTyped DEF TypeOK
<1>5. PointersOK'
  BY <1>1, <1>2, <1>3, ReplaceTyped DEF PointersOK, Serving
<1>. QED
  BY <1>4, <1>5

LEMMA RestartTyped ==
    ASSUME WellFormed, NEW r \in Replicas, Restart(r)
    PROVE  /\ WellFormed'
           /\ \A i \in Replicas \ {r} : objs'[i] = objs[i]
<1> DEFINE gone == {c \in Requests : at[c] = r}
<1> USE DEF WellFormed
<1>1. /\ pc' = [c \in Requests |-> IF c \in gone THEN "idle" ELSE pc[c]]
      /\ at' = [c \in Requests |-> IF c \in gone THEN None ELSE at[c]]
      /\ ptr' = [c \in Requests |-> IF c \in gone THEN None ELSE ptr[c]]
      /\ snap' = [c \in Requests |-> IF c \in gone THEN None ELSE snap[c]]
      /\ admitted' = [c \in Requests |-> c \notin gone /\ admitted[c]]
      /\ UNCHANGED <<deployed, store>>
  BY DEF Restart
<1>2. PICK p \in {store, None} :
        objs' = [i \in Objects |->
                   IF i = r THEN IF p = None THEN None ELSE Restored(p)
                   ELSE IF \E c \in gone : ptr[c] = i THEN None ELSE objs[i]]
  BY DEF Restart
<1>3. faults' \in 0..deployed'.faults
  BY FaultTyped DEF Restart
<1>4. /\ round' \subseteq Replicas /\ clean' \subseteq round' /\ synced' \subseteq Replicas
      /\ got' \in [Replicas -> Records \cup {None}] /\ alone' \in Requests \cup {None}
  BY DEF Restart, EndRound, TypeOK
<1>5. p \in Records \cup {None}
  BY <1>2 DEF TypeOK
<1>6. objs' \in [Objects -> Breakers \cup {None}]
  BY <1>2, <1>5, RestoredTyped DEF TypeOK
<1>7. ASSUME NEW d \in Requests \ gone, ptr[d] # None
      PROVE  ptr[d] \in Objects /\ objs'[ptr[d]] = objs[ptr[d]]
  <2>1. ptr[d] \in Objects /\ ptr[d] # r
    BY <1>7 DEF TypeOK, PointersOK
  <2>2. ~ \E c \in gone : ptr[c] = ptr[d]
    BY <1>7 DEF PointersOK
  <2>. QED
    BY <1>2, <2>1, <2>2
<1>8. \A i \in Replicas \ {r} : objs'[i] = objs[i]
  <2>1. \A i \in Replicas \ {r} : ~ \E c \in gone : ptr[c] = i
    BY DEF PointersOK
  <2>. QED
    BY <1>2, <2>1 DEF Objects
<1>9. admitted' \in [Requests -> BOOLEAN]
  BY <1>1, Zenon
<1>10. TypeOK'
  <2>1. \A d \in Requests : ptr'[d] # None => objs'[ptr'[d]] # None
    BY <1>1, <1>7 DEF TypeOK
  <2> HIDE DEF gone
  <2>. QED
    BY <1>1, <1>3, <1>4, <1>6, <1>9, <2>1 DEF TypeOK, Steps
<1>11. PointersOK'
  BY <1>1 DEF TypeOK, PointersOK, Holding, Serving
<1>. QED
  BY <1>8, <1>10, <1>11
-------------------------------------------------------------------------------
(***************************************************************************)
(* BreakerReplicas' type invariant: whatever requests marshal and rounds   *)
(* replace, every object a map or a request points to is well formed, and  *)
(* no request loses the object it holds.                                   *)
(***************************************************************************)
LEMMA InitWellFormed == Init => WellFormed
  BY NewTyped, BreakerReplicasAssumption
  DEF Init, WellFormed, TypeOK, PointersOK, Steps, Holding, Serving

LEMMA StepWellFormed ==
    ASSUME WellFormed, [Next]_vars
    PROVE  WellFormed'
<1>1. deployed.replicas \subseteq Replicas /\ deployed.operators \subseteq Requests
  BY DeployedTyped DEF WellFormed
<1>2. Callers \subseteq Requests
  BY DEF Requests
<1>3. faults \in 0..deployed.faults
  BY DEF WellFormed, TypeOK
<1>4. CASE Tick
  BY <1>4, TickTyped
<1>5. ASSUME NEW c \in Callers, NEW r \in deployed.replicas,
             ArriveCheck(c, r) \/ ArriveReport(c, r)
      PROVE  WellFormed'
  BY <1>1, <1>2, <1>3, <1>5, ArriveTyped DEF ArriveCheck, ArriveReport
<1>6. ASSUME NEW c \in deployed.operators, NEW r \in deployed.replicas, ArriveForce(c, r)
      PROVE  WellFormed'
  <2>1. faults' \in 0..deployed.faults
    BY <1>6, FaultTyped DEF ArriveForce, Arrive, WellFormed
  <2>. QED
    BY <1>1, <1>6, <2>1, ArriveTyped DEF ArriveForce
<1>7. ASSUME NEW c \in Requests, Serve(c)
      PROVE  WellFormed'
  BY <1>7, MethodTyped, MarshalTyped, StoreTyped DEF Serve
<1>8. ASSUME NEW c \in Callers, Abandon(c)
      PROVE  WellFormed'
  BY <1>2, <1>8, AbandonTyped
<1>9. ASSUME NEW r \in deployed.replicas,
             SyncRead(r) \/ SyncReadFails(r) \/ SyncAborts(r) \/ SyncSwap(r) \/ Restart(r)
      PROVE  WellFormed'
  BY <1>1, <1>9, RoundTyped, SwapTyped, RestartTyped
<1>10. CASE UNCHANGED vars
  BY <1>10 DEF vars, WellFormed, TypeOK, PointersOK, Serving
<1>. QED
  BY <1>4, <1>5, <1>6, <1>7, <1>8, <1>9, <1>10 DEF Next

THEOREM TypeCorrect == Spec => []TypeOK
<1>1. WellFormed => TypeOK
  BY DEF WellFormed
<1>. QED
  BY <1>1, InitWellFormed, StepWellFormed, PTL DEF Spec
-------------------------------------------------------------------------------
(***************************************************************************)
(* Agreement.  While a round is clean or a replica is in step with the     *)
(* store nobody is served, so that neither the store nor an object changes *)
(* but by ageing; and what a lone request marshals is its replica's        *)
(* object, which no round replaces before it is stored.                    *)
(***************************************************************************)
QuietOK ==
    /\ clean # {} \/ synced # {} => NobodyServed
    /\ \A r \in clean : got[r] = store
    /\ SyncedReplicasAgree

Alone(c) ==
    /\ Serving(c) /\ at[c] \notin round
    /\ \A d \in Requests \ {c} : ~ Serving(d)
    /\ pc[c] \in Holding => ptr[c] = at[c]
    /\ pc[c] \in {"labelled", "store"} => snap[c] = Described(objs[at[c]])

LoneOK == \A c \in Requests : alone = c => Alone(c)

IInv == WellFormed /\ QuietOK /\ LoneOK

LEMMA InitAgrees == Init => IInv
<1> SUFFICES ASSUME Init PROVE IInv
  OBVIOUS
<1>1. WellFormed
  BY InitWellFormed
<1>2. QuietOK
  <2>1. NobodyServed /\ clean = {}
    BY DEF Init, NobodyServed, Serving
  <2>2. \A r \in Replicas : Described(objs[r]) = store
    BY DEF Init, Described, Objects
  <2>. QED
    BY <2>1, <2>2 DEF Init, QuietOK, SyncedReplicasAgree
<1>3. LoneOK
  BY BreakerReplicasAssumption DEF Init, LoneOK
<1>. QED
  BY <1>1, <1>2, <1>3 DEF IInv

LEMMA TickAgrees ==
    ASSUME IInv, Tick
    PROVE  QuietOK' /\ LoneOK'
<1> USE DEF IInv
<1>1. UNCHANGED <<pc, at, ptr, round, alone, clean, synced>>
  BY DEF Tick, auxVars
<1>2. /\ \A i \in Objects : objs'[i] = Aged(objs[i])
      /\ \A c \in Requests : snap'[c] = Aged(snap[c])
      /\ \A r \in Replicas : got'[r] = Aged(got[r])
      /\ store' = Aged(store)
  BY DEF Tick
<1>3. \A i \in Objects : Described(objs'[i]) = Aged(Described(objs[i]))
  BY <1>2, AgedTyped DEF WellFormed, TypeOK
<1>4. clean \subseteq Replicas /\ synced \subseteq Replicas
  BY DEF WellFormed, TypeOK
<1>5. QuietOK'
  BY <1>1, <1>2, <1>3, <1>4
  DEF QuietOK, SyncedReplicasAgree, NobodyServed, Serving, Objects
<1>6. ASSUME NEW c \in Requests, alone = c
      PROVE  Alone(c)'
  <2>1. Alone(c)
    BY <1>6 DEF LoneOK
  <2>2. at[c] \in Objects
    BY <2>1 DEF WellFormed, TypeOK, PointersOK, Alone, Objects
  <2>3. pc[c] \in {"labelled", "store"} => snap'[c] = Described(objs'[at[c]])
    BY <1>2, <1>3, <2>1, <2>2 DEF Alone
  <2>. QED
    BY <1>1, <2>1, <2>3 DEF Alone, Serving
<1>. QED
  BY <1>1, <1>5, <1>6 DEF LoneOK

LEMMA ArriveAgrees ==
    ASSUME IInv, NEW c \in Requests, NEW r \in Replicas,
           NEW step \in {"check", "report", "force"}, Arrive(c, r, step)
    PROVE  QuietOK' /\ LoneOK'
<1> USE DEF IInv
<1>1. QuietOK'
  BY DEF Arrive, QuietOK, SyncedReplicasAgree
<1>2. ASSUME alone' = c
      PROVE  Alone(c)'
  <2>1. NobodyServed /\ r \notin round
    BY <1>2, BreakerReplicasAssumption DEF Arrive
  <2>2. ptr'[c] = r /\ at'[c] = r /\ pc'[c] = step /\ round' = round
        /\ \A d \in Requests \ {c} : pc'[d] = pc[d]
    BY DEF Arrive, roundVars, WellFormed, TypeOK
  <2>. QED
    BY <2>1, <2>2 DEF Alone, NobodyServed, Serving
<1>3. alone' \in {c, None} /\ None \notin Requests
  BY BreakerReplicasAssumption DEF Arrive
<1>. QED
  BY <1>1, <1>2, <1>3 DEF LoneOK

(* while a request is served no replica is in step with the store          *)
LEMMA ServedIsNotQuiet ==
    ASSUME IInv, NEW c \in Requests, Serving(c)
    PROVE  clean = {} /\ synced = {}
  BY DEF IInv, QuietOK, NobodyServed

LEMMA UpdateAgrees ==
    ASSUME IInv, NEW c \in Requests, NEW breaker, pc[c] \in {"check", "report", "force"},
           Update(c, breaker), UNCHANGED <<at, ptr, snap, roundVars, auxVars>>
    PROVE  QuietOK' /\ LoneOK'
<1> USE DEF IInv
<1>1. Serving(c)
  BY DEF Serving
<1>2. clean' = {} /\ synced' = {}
  BY <1>1, ServedIsNotQuiet DEF auxVars
<1>3. QuietOK'
  BY <1>2 DEF QuietOK, SyncedReplicasAgree
<1>4. ASSUME NEW d \in Requests, alone' = d
      PROVE  Alone(d)'
  <2>1. Alone(d)
    BY <1>4 DEF LoneOK, auxVars
  <2>2. d = c
    BY <1>1, <2>1 DEF Alone
  <2>3. pc'[c] = "marshal" /\ \A e \in Requests \ {c} : pc'[e] = pc[e]
    BY DEF Update, WellFormed, TypeOK
  <2>. QED
    BY <2>1, <2>2, <2>3 DEF Alone, Serving, Holding, roundVars
<1>. QED
  BY <1>3, <1>4 DEF LoneOK

LEMMA MethodAgrees ==
    ASSUME IInv, NEW c \in Requests,
           CheckIt(c) \/ ReportSuccess(c) \/ ReportFailure(c)
                      \/ \E state \in ForcedStates : ForceState(c, state)
    PROVE  QuietOK' /\ LoneOK'
<1>1. /\ pc[c] \in {"check", "report", "force"}
      /\ \E breaker : Update(c, breaker)
      /\ UNCHANGED <<at, ptr, snap, roundVars, auxVars>>
  BY Zenon DEF CheckIt, ReportSuccess, ReportFailure, ForceState
<1>. QED
  BY <1>1, UpdateAgrees

LEMMA MarshalAgrees ==
    ASSUME IInv, NEW c \in Requests, MarshalState(c) \/ Marshal(c)
    PROVE  QuietOK' /\ LoneOK'
<1> USE DEF IInv
<1>1. pc[c] \in {"marshal", "labelled"} /\ UNCHANGED <<at, round, alone, clean, synced>>
  BY DEF MarshalState, Marshal, roundVars, auxVars
<1>2. Serving(c) /\ pc[c] \in Holding
  BY <1>1 DEF Serving, Holding
<1>3. clean' = {} /\ synced' = {}
  BY <1>1, <1>2, ServedIsNotQuiet
<1>4. QuietOK'
  BY <1>3 DEF QuietOK, SyncedReplicasAgree
<1>5. objs[ptr[c]] \in Breakers /\ at[c] \in Replicas
  BY <1>2, HeldTyped
<1>6. ASSUME NEW d \in Requests, alone' = d
      PROVE  Alone(d)'
  <2>1. Alone(d)
    BY <1>1, <1>6 DEF LoneOK
  <2>2. d = c /\ ptr[c] = at[c]
    BY <1>2, <2>1 DEF Alone
  <2>3. CASE MarshalState(c)
    <3>1. /\ pc'[c] = "labelled" /\ \A e \in Requests \ {c} : pc'[e] = pc[e]
          /\ snap'[c] = Described(objs[ptr[c]])
          /\ UNCHANGED <<objs, ptr>>
      BY <2>3 DEF MarshalState, WellFormed, TypeOK
    <3>. QED
      BY <1>1, <2>1, <2>2, <3>1 DEF Alone, Serving, Holding
  <2>4. CASE Marshal(c)
    <3>1. /\ pc[c] = "labelled" /\ pc'[c] = "store"
          /\ \A e \in Requests \ {c} : pc'[e] = pc[e]
          /\ objs'[at[c]] = objs[at[c]]
      BY <1>5, <2>4 DEF Marshal, WellFormed, TypeOK, Objects
    <3>2. objs[ptr[c]] # None
      BY <1>5, BreakerReplicasAssumption
    <3>3. snap[c] = [State |-> objs[ptr[c]].State, age |-> objs[ptr[c]].age]
      BY <2>1, <2>2, <3>1, <3>2 DEF Alone, Described
    <3>4. snap'[c] = [State |-> objs[ptr[c]].State, age |-> objs[ptr[c]].age]
      BY <2>4, <3>3 DEF Marshal, WellFormed, TypeOK
    <3>5. snap'[c] = Described(objs'[at'[c]])
      BY <1>1, <2>2, <3>1, <3>2, <3>4 DEF Described
    <3>. QED
      BY <1>1, <2>1, <2>2, <3>1, <3>5 DEF Alone, Serving, Holding
  <2>. QED
    BY <2>3, <2>4
<1>. QED
  BY <1>4, <1>6 DEF LoneOK

LEMMA StoreAgrees ==
    ASSUME IInv, NEW c \in Requests, Store(c) \/ StoreFails(c)
    PROVE  QuietOK' /\ LoneOK'
<1> USE DEF IInv
<1>1. pc[c] = "store" /\ Answer(c) /\ alone' = None /\ clean' = clean
  BY DEF Store, StoreFails
<1>2. Serving(c)
  BY <1>1 DEF Serving
<1>3. clean = {} /\ synced = {}
  BY <1>2, ServedIsNotQuiet
<1>4. LoneOK'
  BY <1>1, BreakerReplicasAssumption DEF LoneOK
<1>5. CASE alone = c /\ Store(c)
  <2>1. Alone(c)
    BY <1>5 DEF LoneOK
  <2>2. store' = Described(objs'[at[c]]) /\ synced' = {at[c]}
    BY <1>1, <1>5, <2>1 DEF Store, Answer, Alone
  <2>3. NobodyServed'
    BY <1>1, <2>1 DEF Answer, Alone, NobodyServed, Serving, WellFormed, TypeOK
  <2>. QED
    BY <1>1, <1>3, <1>4, <2>2, <2>3 DEF QuietOK, SyncedReplicasAgree
<1>6. CASE ~ (alone = c /\ Store(c))
  <2>1. synced' = {}
    BY <1>3, <1>6 DEF Store, StoreFails
  <2>. QED
    BY <1>1, <1>3, <1>4, <2>1 DEF QuietOK, SyncedReplicasAgree
<1>. QED
  BY <1>5, <1>6

LEMMA AbandonAgrees ==
    ASSUME IInv, NEW c \in Requests, Abandon(c)
    PROVE  QuietOK' /\ LoneOK'
<1> USE DEF IInv
<1>1. /\ pc[c] = "working" /\ pc' = [pc EXCEPT ![c] = "idle"]
      /\ UNCHANGED <<objs, store, at, ptr, snap, round, got, alone, clean, synced>>
  BY DEF Abandon, roundVars, auxVars
<1>2. \A d \in Requests : (Serving(d)' <=> Serving(d)) /\ (Serving(d) => pc'[d] = pc[d])
  BY <1>1 DEF Serving, WellFormed, TypeOK
<1>3. QuietOK'
  BY <1>1, <1>2 DEF QuietOK, NobodyServed, SyncedReplicasAgree
<1>4. LoneOK'
  BY <1>1, <1>2 DEF LoneOK, Alone
<1>. QED
  BY <1>3, <1>4
LEMMA RoundAgrees ==
    ASSUME IInv, NEW r \in Replicas, SyncRead(r) \/ SyncReadFails(r) \/ SyncAborts(r)
    PROVE  QuietOK' /\ LoneOK'
<1> USE DEF IInv
<1>1. UNCHANGED <<objs, store, pc, at, ptr, snap, synced>>
  BY DEF SyncRead, SyncReadFails, SyncAborts, requestVars
<1>2. clean \subseteq round /\ clean \subseteq Replicas
  BY DEF WellFormed, TypeOK
<1>3. clean' # {} \/ synced' # {} => NobodyServed
  BY <1>1 DEF SyncRead, SyncReadFails, SyncAborts, EndRound, QuietOK
<1>4. \A q \in clean' : got'[q] = store
  <2>1. CASE SyncRead(r)
    BY <1>2, <2>1 DEF SyncRead, QuietOK, WellFormed, TypeOK
  <2>2. CASE SyncReadFails(r)
    BY <2>2 DEF SyncReadFails, QuietOK
  <2>3. CASE SyncAborts(r)
    BY <1>2, <2>3 DEF SyncAborts, EndRound, QuietOK, WellFormed, TypeOK
  <2>. QED
    BY <2>1, <2>2, <2>3
<1>5. QuietOK'
  BY <1>1, <1>3, <1>4 DEF QuietOK, SyncedReplicasAgree, NobodyServed, Serving
<1>6. ASSUME NEW c \in Requests, alone' = c
      PROVE  Alone(c)'
  <2>1. alone = c /\ at[c] \notin round'
    <3>1. CASE SyncAborts(r)
      BY <1>6, <3>1 DEF SyncAborts, EndRound, LoneOK, Alone
    <3>2. CASE SyncRead(r) \/ SyncReadFails(r)
      <4>1. Meets(r) /\ round' = round \cup {r}
        BY <3>2 DEF SyncRead, SyncReadFails
      <4>2. alone = c /\ at[c] # r
        BY <1>6, <4>1, BreakerReplicasAssumption DEF Meets
      <4>. QED
        BY <4>1, <4>2 DEF LoneOK, Alone
    <3>. QED
      BY <3>1, <3>2
  <2>. QED
    BY <1>1, <2>1 DEF LoneOK, Alone, Serving
<1>. QED
  BY <1>5, <1>6 DEF LoneOK

LEMMA SwapAgrees ==
    ASSUME IInv, NEW r \in Replicas, SyncSwap(r)
    PROVE  QuietOK' /\ LoneOK'
<1> USE DEF IInv
<1>1. /\ UNCHANGED <<store, pc, at, snap, alone>> /\ round' = round \ {r}
      /\ got' = [got EXCEPT ![r] = None] /\ clean' = clean \ {r}
      /\ synced' = IF r \in clean THEN synced \cup {r} ELSE synced \ {r}
  BY DEF SyncSwap, EndRound
<1>2. got[r] \in Records \cup {None}
  BY DEF WellFormed, TypeOK
<1>3. /\ objs'[r] = IF got[r] = None THEN None ELSE Restored(got[r])
      /\ \A i \in Replicas \ {r} : objs'[i] = objs[i]
      /\ \A c \in Requests : ptr[c] # r => ptr'[c] = ptr[c]
  BY <1>2, ReplaceTyped DEF SyncSwap
<1>4. QuietOK'
  <2>1. clean' # {} \/ synced' # {} => NobodyServed'
    BY <1>1 DEF QuietOK, NobodyServed, Serving
  <2>2. \A q \in clean' : got'[q] = store'
    BY <1>1 DEF QuietOK, WellFormed, TypeOK
  <2>3. r \in clean => Described(objs'[r]) = store'
    BY <1>1, <1>2, <1>3, RestoredTyped DEF QuietOK, Described
  <2>4. \A q \in synced' \ {r} : Described(objs'[q]) = store'
    BY <1>1, <1>3 DEF QuietOK, SyncedReplicasAgree, WellFormed, TypeOK
  <2>. QED
    BY <1>1, <2>1, <2>2, <2>3, <2>4 DEF QuietOK, SyncedReplicasAgree
<1>5. ASSUME NEW c \in Requests, alone' = c
      PROVE  Alone(c)'
  <2>1. Alone(c)
    BY <1>1, <1>5 DEF LoneOK
  <2>2. at[c] \in Replicas
    BY <2>1 DEF Alone, WellFormed, TypeOK, PointersOK
  <2>3. r \in round
    BY DEF SyncSwap
  <2>4. at[c] # r
    BY <2>1, <2>3 DEF Alone
  <2>5. objs'[at[c]] = objs[at[c]]
    BY <1>3, <2>2, <2>4
  <2>6. pc[c] \in Holding => ptr'[c] = at[c]
    BY <1>3, <2>1, <2>4 DEF Alone
  <2>. QED
    BY <1>1, <2>1, <2>5, <2>6 DEF Alone, Serving
<1>. QED
  BY <1>4, <1>5 DEF LoneOK

LEMMA RestartAgrees ==
    ASSUME IInv, NEW r \in Replicas, Restart(r)
    PROVE  QuietOK' /\ LoneOK'
<1> USE DEF IInv
<1>1. /\ pc' = [c \in Requests |-> IF at[c] = r THEN "idle" ELSE pc[c]]
      /\ at' = [c \in Requests |-> IF at[c] = r THEN None ELSE at[c]]
      /\ ptr' = [c \in Requests |-> IF at[c] = r THEN None ELSE ptr[c]]
      /\ snap' = [c \in Requests |-> IF at[c] = r THEN None ELSE snap[c]]
      /\ store' = store
      /\ round' = round \ {r} /\ got' = [got EXCEPT ![r] = None] /\ clean' = clean \ {r}
      /\ synced' = synced \ {r}
      /\ alone' = IF alone \in Requests /\ at[alone] = r THEN None ELSE alone
  BY DEF Restart, EndRound
<1>2. \A i \in Replicas \ {r} : objs'[i] = objs[i]
  BY RestartTyped
<1>3. QuietOK'
  <2>1. clean' # {} \/ synced' # {} => NobodyServed'
    BY <1>1 DEF QuietOK, NobodyServed, Serving
  <2>2. \A q \in clean' : got'[q] = store'
    BY <1>1 DEF QuietOK, WellFormed, TypeOK
  <2>3. \A q \in synced' : Described(objs'[q]) = store'
    BY <1>1, <1>2 DEF QuietOK, SyncedReplicasAgree, WellFormed, TypeOK
  <2>. QED
    BY <2>1, <2>2, <2>3 DEF QuietOK, SyncedReplicasAgree
<1>4. ASSUME NEW c \in Requests, alone' = c
      PROVE  Alone(c)'
  <2>1. alone = c /\ at[c] # r
    BY <1>1, <1>4, BreakerReplicasAssumption
  <2>2. Alone(c)
    BY <2>1 DEF LoneOK
  <2>3. at[c] \in Replicas
    BY <2>2 DEF Alone, WellFormed, TypeOK, PointersOK
  <2>4. /\ pc'[c] = pc[c] /\ at'[c] = at[c] /\ ptr'[c] = ptr[c] /\ snap'[c] = snap[c]
        /\ objs'[at[c]] = objs[at[c]] /\ at[c] \notin round'
    BY <1>1, <1>2, <2>1, <2>2, <2>3 DEF Alone
  <2>5. \A d \in Requests \ {c} : ~ Serving(d)'
    BY <1>1, <2>2 DEF Alone, Serving
  <2>. QED
    BY <2>2, <2>4, <2>5 DEF Alone, Serving
<1>. QED
  BY <1>3, <1>4 DEF LoneOK

LEMMA StepAgrees ==
    ASSUME IInv, [Next]_vars
    PROVE  IInv'
<1>1. /\ deployed.replicas \subseteq Replicas /\ deployed.operators \subseteq Requests
      /\ Callers \subseteq Requests
  BY DeployedTyped DEF IInv, WellFormed, Requests
<1>2. WellFormed'
  BY StepWellFormed DEF IInv
<1>3. CASE Tick
  BY <1>2, <1>3, TickAgrees DEF IInv
<1>4. ASSUME NEW c \in Requests, NEW r \in deployed.replicas,
             ArriveCheck(c, r) \/ ArriveReport(c, r) \/ ArriveForce(c, r)
      PROVE  IInv'
  BY <1>1, <1>2, <1>4, ArriveAgrees DEF IInv, ArriveCheck, ArriveReport, ArriveForce
<1>5. ASSUME NEW c \in Requests, Serve(c)
      PROVE  IInv'
  BY <1>2, <1>5, MethodAgrees, MarshalAgrees, StoreAgrees DEF IInv, Serve
<1>6. ASSUME NEW c \in Callers, Abandon(c)
      PROVE  IInv'
  BY <1>1, <1>2, <1>6, AbandonAgrees DEF IInv
<1>7. ASSUME NEW r \in deployed.replicas,
             SyncRead(r) \/ SyncReadFails(r) \/ SyncAborts(r) \/ SyncSwap(r) \/ Restart(r)
      PROVE  IInv'
  BY <1>1, <1>2, <1>7, RoundAgrees, SwapAgrees, RestartAgrees DEF IInv
<1>8. CASE UNCHANGED vars
  BY <1>2, <1>8
  DEF IInv, vars, QuietOK, LoneOK, Alone, NobodyServed, Serving, SyncedReplicasAgree
<1>. QED
  BY <1>1, <1>3, <1>4, <1>5, <1>6, <1>7, <1>8 DEF Next

(***************************************************************************)
(* However many replicas there are: after a request that met no other has  *)
(* stored its breaker, or a round that met no request has replaced it, the *)
(* replica's breaker is the one the store describes, and stays so until    *)
(* the next request.                                                       *)
(***************************************************************************)
THEOREM ReplicasAgree == Spec => []SyncedReplicasAgree
<1>1. IInv => SyncedReplicasAgree
  BY DEF IInv, QuietOK
<1>. QED
  BY <1>1, InitAgrees, StepAgrees, PTL DEF Spec
================================================================================
