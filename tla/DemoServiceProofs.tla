-------------------------- MODULE DemoServiceProofs --------------------------
(***************************************************************************)
(* Proofs about the circuit breaker and about the demo service it guards:  *)
(* first CircuitBreaker, for every set of callers, every threshold, every  *)
(* open duration and every bound on the window; then DemoService, for any  *)
(* number of handlers and replays and any length of the captured traffic.  *)
(***************************************************************************)
EXTENDS DemoService, SequenceTheorems, FiniteSetTheorems, TLAPS

-------------------------------------------------------------------------------
(***************************************************************************)
(* The methods of the breaker keep it well formed.                         *)
(***************************************************************************)

(* Ageing stops at the open duration. *)
LEMMA OlderType ==
    ASSUME NEW b \in BreakerType
    PROVE  Older(b) \in BreakerType
BY BreakerAssumption DEF Older, BreakerType, States

(* The refresh only moves an open breaker to half-open. *)
LEMMA RefreshType ==
    ASSUME NEW b \in BreakerType
    PROVE  refreshState(b) \in BreakerType
<1>1. CASE Expired(b)
  <2>1. refreshState(b) = [b EXCEPT !.State = "half-open",
                                    !.probeInFlight = FALSE, !.age = 0]
    BY <1>1 DEF refreshState
  <2>2. 0 \in 0..OpenDuration /\ "half-open" \in States
    BY BreakerAssumption DEF States
  <2>3. QED
    BY <2>1, <2>2 DEF BreakerType
<1>2. CASE ~Expired(b)
  BY <1>2 DEF refreshState
<1>3. QED
  BY <1>1, <1>2

(* Check changes nothing the refresh does not, but the probe flag. *)
LEMMA CheckType ==
    ASSUME NEW b \in BreakerType
    PROVE  Check(b) \in BreakerType
<1>1. refreshState(b) \in BreakerType
  BY RefreshType
<1>2. CASE refreshState(b).State = "half-open" /\ Admits(b)
  <2>1. Check(b) = [refreshState(b) EXCEPT !.probeInFlight = TRUE]
    BY <1>2 DEF Check
  <2>2. QED
    BY <1>1, <2>1 DEF BreakerType
<1>3. CASE ~(refreshState(b).State = "half-open" /\ Admits(b))
  BY <1>1, <1>3 DEF Check
<1>4. QED
  BY <1>2, <1>3

(* A forced or recorded transition leads to a state. *)
LEMMA SetStateType ==
    ASSUME NEW b \in BreakerType, NEW state \in States
    PROVE  SetState(b, state) \in BreakerType
<1> DEFINE moved == [b EXCEPT !.State = state]
           reset == [moved EXCEPT !.successes = 0, !.failures = 0]
           final == [reset EXCEPT !.probeInFlight = FALSE, !.age = 0]
<1>1. moved \in BreakerType
  BY DEF BreakerType
<1>2. reset \in BreakerType
  <2> HIDE DEF moved
  <2> QED
    BY <1>1 DEF BreakerType
<1>3. final \in BreakerType
  <2> HIDE DEF reset
  <2>1. 0 \in 0..OpenDuration
    BY BreakerAssumption
  <2> QED
    BY <1>2, <2>1 DEF BreakerType
<1>4. SetState(b, state) = final
  BY Zenon DEF SetState
<1>5. QED
  BY <1>3, <1>4

(* Recording an outcome keeps the counters natural numbers. *)
LEMMA RecordType ==
    ASSUME NEW b \in BreakerType
    PROVE  /\ RecordSuccess(b) \in BreakerType
           /\ RecordFailure(b) \in BreakerType
<1>1. /\ SetState(b, "closed") \in BreakerType
      /\ SetState(b, "open") \in BreakerType
  BY SetStateType DEF States
<1>2. RecordSuccess(b) \in BreakerType
  <2>1. CASE b.State = "half-open"
    BY <1>1, <2>1 DEF RecordSuccess
  <2>2. CASE b.State # "half-open"
    <3>1. RecordSuccess(b) = [b EXCEPT !.successes = b.successes + 1,
                                       !.probeInFlight = FALSE]
      BY <2>2 DEF RecordSuccess
    <3>2. b.successes + 1 \in Nat
      BY DEF BreakerType
    <3>3. QED
      BY <3>1, <3>2 DEF BreakerType
  <2>3. QED
    BY <2>1, <2>2
<1>3. RecordFailure(b) \in BreakerType
  <2>1. CASE Trips(b)
    BY <1>1, <2>1 DEF RecordFailure
  <2>2. CASE ~Trips(b)
    <3>1. RecordFailure(b) = [b EXCEPT !.failures = b.failures + 1,
                                       !.probeInFlight = FALSE]
      BY <2>2 DEF RecordFailure
    <3>2. b.failures + 1 \in Nat
      BY DEF BreakerType
    <3>3. QED
      BY <3>1, <3>2 DEF BreakerType
  <2>3. QED
    BY <2>1, <2>2
<1>4. QED
  BY <1>2, <1>3

-------------------------------------------------------------------------------
(* Every step keeps the breaker well formed. *)
LEMMA StepTyped == TypeOK /\ [Next]_vars => TypeOK'
<1> SUFFICES ASSUME TypeOK, [Next]_vars PROVE TypeOK'
  OBVIOUS
<1> USE DEF TypeOK
<1>consult. ASSUME NEW c \in Callers, Consult(c)
            PROVE  /\ cb' \in BreakerType
                   /\ probing' \subseteq Callers
                   /\ strays' \in Nat
  BY <1>consult, CheckType DEF Consult
<1>count. ASSUME NEW c \in Callers, CountReport(c)
          PROVE  probing' \subseteq Callers /\ strays' \in Nat
  BY <1>count DEF CountReport
<1>1. CASE Tick
  BY <1>1, OlderType DEF Tick
<1>2. ASSUME NEW c \in Callers, CheckHandler(c)
      PROVE  TypeOK'
  BY <1>2, <1>consult DEF CheckHandler
<1>3. ASSUME NEW c \in Callers, CheckFailsOpen(c)
      PROVE  TypeOK'
  BY <1>3, <1>consult DEF CheckFailsOpen
<1>4. ASSUME NEW c \in Callers, Abandon(c)
      PROVE  TypeOK'
  BY <1>4 DEF Abandon
<1>5. ASSUME NEW c \in Callers, Observe(c)
      PROVE  TypeOK'
  BY <1>5 DEF Observe
<1>6. ASSUME NEW c \in Callers, ReportSuccess(c)
      PROVE  TypeOK'
  BY <1>6, <1>count, RecordType DEF ReportSuccess
<1>7. ASSUME NEW c \in Callers, ReportFailure(c)
      PROVE  TypeOK'
  BY <1>7, <1>count, RecordType DEF ReportFailure
<1>8. ASSUME NEW state \in ForcedStates, ForceState(state)
      PROVE  TypeOK'
  BY <1>8, SetStateType DEF ForceState, States
<1>9. CASE SetThresholds
  <2>1. \A t \in ErrorThresholds : [cb EXCEPT !.ErrorThreshold = t] \in BreakerType
    BY DEF BreakerType
  <2>2. \A l \in LatencyThresholds : [cb EXCEPT !.LatencyThresholdMs = l] \in BreakerType
    BY DEF BreakerType
  <2>3. \A t \in ErrorThresholds, l \in LatencyThresholds :
           [cb EXCEPT !.ErrorThreshold = t, !.LatencyThresholdMs = l] \in BreakerType
    BY DEF BreakerType
  <2>4. QED
    BY <1>9, <2>1, <2>2, <2>3 DEF SetThresholds
<1>10. CASE UNCHANGED vars
  BY <1>10 DEF vars
<1>11. QED
  BY <1>1, <1>2, <1>3, <1>4, <1>5, <1>6, <1>7, <1>8, <1>9, <1>10 DEF Next

(* A new breaker is closed, with everything at its default. *)
LEMMA StartTyped == Init => TypeOK
BY BreakerAssumption
DEF Init, TypeOK, NewCircuitBreaker, BreakerType, States

(* CircuitBreaker's type invariant: the record of a breaker is well formed *)
(* after every interleaving of callers, clock and operator.                *)
THEOREM TypeCorrect == Spec => []TypeOK
BY StartTyped, StepTyped, PTL DEF Spec

-------------------------------------------------------------------------------
(***************************************************************************)
(* What the methods do to the fields the invariants read.                  *)
(***************************************************************************)

(* A transition starts an empty window with the probe slot free. *)
LEMMA SetStateFields ==
    ASSUME NEW b \in BreakerType, NEW state
    PROVE  /\ SetState(b, state).State = state
           /\ SetState(b, state).successes = 0
           /\ SetState(b, state).failures = 0
           /\ SetState(b, state).probeInFlight = FALSE
BY DEF SetState, BreakerType

(* A check made when the open period is over takes the probe slot. *)
LEMMA CheckExpired ==
    ASSUME NEW b \in BreakerType, Expired(b)
    PROVE  /\ Admits(b)
           /\ Check(b).State = "half-open"
           /\ Check(b).probeInFlight
           /\ Check(b).successes = b.successes
           /\ Check(b).failures = b.failures
<1>1. refreshState(b) = [b EXCEPT !.State = "half-open",
                                  !.probeInFlight = FALSE, !.age = 0]
  BY DEF refreshState
<1>2. /\ refreshState(b).State = "half-open"
      /\ ~refreshState(b).probeInFlight
      /\ refreshState(b).successes = b.successes
      /\ refreshState(b).failures = b.failures
  BY <1>1 DEF BreakerType
<1>3. Admits(b)
  BY <1>2 DEF Admits
<1>4. Check(b) = [refreshState(b) EXCEPT !.probeInFlight = TRUE]
  BY <1>2, <1>3 DEF Check
<1>5. refreshState(b) \in BreakerType
  BY RefreshType
<1>6. QED
  BY <1>2, <1>3, <1>4, <1>5 DEF BreakerType

(* Any other check changes at most the probe flag, and only by claiming it. *)
LEMMA CheckUnexpired ==
    ASSUME NEW b \in BreakerType, ~Expired(b)
    PROVE  /\ Check(b).State = b.State
           /\ Check(b).successes = b.successes
           /\ Check(b).failures = b.failures
           /\ b.State = "half-open" => Check(b).probeInFlight
           /\ b.State # "half-open" => Check(b) = b
           /\ b.State = "half-open" => (Admits(b) <=> ~b.probeInFlight)
<1>1. refreshState(b) = b
  BY DEF refreshState
<1>2. b.State = "half-open" => (Admits(b) <=> ~b.probeInFlight)
  BY <1>1 DEF Admits
<1>3. CASE b.State = "half-open" /\ Admits(b)
  <2>1. Check(b) = [b EXCEPT !.probeInFlight = TRUE]
    BY <1>1, <1>3 DEF Check
  <2>2. QED
    BY <1>2, <1>3, <2>1 DEF BreakerType
<1>4. CASE ~(b.State = "half-open" /\ Admits(b))
  <2>1. Check(b) = b
    BY <1>1, <1>4 DEF Check
  <2>2. QED
    BY <1>2, <1>4, <2>1
<1>5. QED
  BY <1>3, <1>4

(* An outcome that does not start a new window is counted, and every *)
(* outcome frees the probe slot.                                     *)
LEMMA RecordFields ==
    ASSUME NEW b \in BreakerType
    PROVE  /\ RecordSuccess(b).probeInFlight = FALSE
           /\ RecordFailure(b).probeInFlight = FALSE
           /\ b.State # "half-open" =>
                 /\ RecordSuccess(b).State = b.State
                 /\ RecordSuccess(b).successes = b.successes + 1
                 /\ RecordSuccess(b).failures = b.failures
           /\ b.State = "half-open" =>
                 /\ RecordSuccess(b).State = "closed"
                 /\ RecordSuccess(b).failures = 0
           /\ Trips(b) =>
                 /\ RecordFailure(b).State = "open"
                 /\ RecordFailure(b).failures = 0
           /\ ~Trips(b) =>
                 /\ RecordFailure(b).State = b.State
                 /\ RecordFailure(b).successes = b.successes
                 /\ RecordFailure(b).failures = b.failures + 1
<1>1. ASSUME b.State # "half-open"
      PROVE  /\ RecordSuccess(b).State = b.State
             /\ RecordSuccess(b).successes = b.successes + 1
             /\ RecordSuccess(b).failures = b.failures
             /\ RecordSuccess(b).probeInFlight = FALSE
  BY <1>1 DEF RecordSuccess, BreakerType
<1>2. ASSUME b.State = "half-open"
      PROVE  /\ RecordSuccess(b).State = "closed"
             /\ RecordSuccess(b).failures = 0
             /\ RecordSuccess(b).probeInFlight = FALSE
  BY <1>2, SetStateFields DEF RecordSuccess
<1>3. ASSUME Trips(b)
      PROVE  /\ RecordFailure(b).State = "open"
             /\ RecordFailure(b).failures = 0
             /\ RecordFailure(b).probeInFlight = FALSE
  BY <1>3, SetStateFields DEF RecordFailure
<1>4. ASSUME ~Trips(b)
      PROVE  /\ RecordFailure(b).State = b.State
             /\ RecordFailure(b).successes = b.successes
             /\ RecordFailure(b).failures = b.failures + 1
             /\ RecordFailure(b).probeInFlight = FALSE
  BY <1>4 DEF RecordFailure, BreakerType
<1>5. QED
  BY <1>1, <1>2, <1>3, <1>4

-------------------------------------------------------------------------------
(***************************************************************************)
(* FailureRatioBounded, step by step: one predicate on a breaker.          *)
(***************************************************************************)
RatioBounded(b) ==
    b.failures > 0 =>
        \E t \in ErrorThresholds \cup {DefaultErrorThreshold} :
            b.failures * 100 < t * (b.successes + b.failures)

(* The predicate reads the counters only. *)
LEMMA SameCounters ==
    ASSUME NEW b, NEW d,
           b.successes = d.successes, b.failures = d.failures,
           RatioBounded(b)
    PROVE  RatioBounded(d)
BY Zenon DEF RatioBounded

(* FailureRatioBounded is that predicate on the breaker. *)
LEMMA RatioBoundedIsInvariant ==
    /\ FailureRatioBounded <=> RatioBounded(cb)
    /\ FailureRatioBounded' <=> RatioBounded(cb')
BY Zenon DEF RatioBounded, FailureRatioBounded

(* A window without failures satisfies it. *)
LEMMA EmptyWindow ==
    ASSUME NEW b, b.failures = 0
    PROVE  RatioBounded(b)
BY DEF RatioBounded

(* One success more can only lower the failure ratio. *)
LEMMA SuccessKeepsRatio ==
    ASSUME NEW b \in BreakerType, RatioBounded(b)
    PROVE  RatioBounded(RecordSuccess(b))
<1>1. CASE b.State = "half-open"
  BY <1>1, RecordFields, EmptyWindow
<1>2. CASE b.State # "half-open"
  <2>1. /\ RecordSuccess(b).successes = b.successes + 1
        /\ RecordSuccess(b).failures = b.failures
    BY <1>2, RecordFields
  <2>2. b.successes \in Nat /\ b.failures \in Nat
    BY DEF BreakerType
  <2>3. SUFFICES ASSUME b.failures > 0
                 PROVE  \E t \in ErrorThresholds \cup {DefaultErrorThreshold} :
                           b.failures * 100 < t * (b.successes + 1 + b.failures)
    BY <2>1 DEF RatioBounded
  <2>4. PICK t \in ErrorThresholds \cup {DefaultErrorThreshold} :
               b.failures * 100 < t * (b.successes + b.failures)
    BY <2>3 DEF RatioBounded
  <2>5. t \in Nat
    BY BreakerAssumption DEF DefaultErrorThreshold
  <2>6. t * (b.successes + 1 + b.failures) = t * (b.successes + b.failures) + t
    BY <2>2, <2>5
  <2>7. /\ t * (b.successes + b.failures) \in Nat
        /\ b.failures * 100 \in Nat
    BY <2>2, <2>5
  <2>8. QED
    BY <2>4, <2>5, <2>6, <2>7
<1>3. QED
  BY <1>1, <1>2

(* A failure that does not trip leaves the ratio below the threshold. *)
LEMMA FailureKeepsRatio ==
    ASSUME NEW b \in BreakerType
    PROVE  RatioBounded(RecordFailure(b))
<1>1. CASE Trips(b)
  BY <1>1, RecordFields, EmptyWindow
<1>2. CASE ~Trips(b)
  <2>1. /\ RecordFailure(b).successes = b.successes
        /\ RecordFailure(b).failures = b.failures + 1
    BY <1>2, RecordFields
  <2>2. /\ b.successes \in Nat
        /\ b.failures \in Nat
        /\ b.ErrorThreshold \in ErrorThresholds \cup {DefaultErrorThreshold}
        /\ b.ErrorThreshold \in Nat
    <3>1. /\ b.successes \in Nat
          /\ b.failures \in Nat
          /\ b.ErrorThreshold \in ErrorThresholds \cup {DefaultErrorThreshold}
      BY DEF BreakerType
    <3>2. ErrorThresholds \cup {DefaultErrorThreshold} \subseteq Nat
      BY BreakerAssumption DEF DefaultErrorThreshold
    <3>3. QED
      BY <3>1, <3>2
  <2>3. (b.failures + 1) * 100
          < b.ErrorThreshold * (b.successes + b.failures + 1)
    <3> DEFINE lhs == (b.failures + 1) * 100
               rhs == b.ErrorThreshold * (b.successes + b.failures + 1)
    <3>1. lhs \in Nat /\ rhs \in Nat
      BY <2>2
    <3>2. ~(lhs >= rhs)
      BY <1>2 DEF Trips
    <3>3. QED
      BY <3>1, <3>2
  <2>4. b.successes + b.failures + 1 = b.successes + (b.failures + 1)
    BY <2>2
  <2>5. QED
    BY <2>1, <2>2, <2>3, <2>4 DEF RatioBounded
<1>3. QED
  BY <1>1, <1>2

-------------------------------------------------------------------------------
(***************************************************************************)
(* A probe in flight means the breaker is still in the half-open period    *)
(* that admitted it, and that caller has not gone back to idle.            *)
(***************************************************************************)
ProbesAreActive ==
    probing # {} => /\ cb.State = "half-open"
                    /\ \A c \in probing : pc[c] # "idle"

(***************************************************************************)
(* The inductive invariant.  ProbesAccounted alone is not inductive: that  *)
(* a new half-open period starts with no probe in flight needs             *)
(* ProbesAreActive, which in turn needs to know where a probe's caller is. *)
(***************************************************************************)
IInv ==
    /\ TypeOK
    /\ ProbeFlagOnlyHalfOpen
    /\ FailureRatioBounded
    /\ ProbesAreActive
    /\ ProbesAccounted

(* The probes in flight are finitely many. *)
LEMMA ProbingFinite ==
    ASSUME NEW S \in SUBSET Callers
    PROVE  IsFiniteSet(S) /\ Cardinality(S) \in Nat
BY CircuitBreakerAssumption, FS_Subset, FS_CardinalityType

(* A check keeps the account: it either finds the slot free and takes it *)
(* for one caller, or lets nobody new in as a probe.                     *)
LEMMA ConsultStep ==
    ASSUME IInv, NEW c \in Callers, Consult(c)
    PROVE  /\ ProbeFlagOnlyHalfOpen'
           /\ FailureRatioBounded'
           /\ ProbesAccounted'
           /\ probing' # {} => cb'.State = "half-open"
           /\ probing' \subseteq probing \cup {c}
           /\ c \in probing' => c \in probing \/ Admits(cb)
<1> USE DEF IInv
<1>1. /\ cb \in BreakerType
      /\ cb.probeInFlight \in BOOLEAN
      /\ strays \in Nat
      /\ probing \in SUBSET Callers
  BY DEF TypeOK, BreakerType
<1>2. CASE Expired(cb)
  <2>1. /\ cb' = Check(cb)
        /\ probing' = {c}
        /\ strays' = 0
        /\ Admits(cb)
    BY <1>1, <1>2, CheckExpired DEF Consult
  <2>2. /\ cb'.State = "half-open"
        /\ cb'.probeInFlight
        /\ cb'.successes = cb.successes
        /\ cb'.failures = cb.failures
    BY <1>1, <1>2, <2>1, CheckExpired
  <2>3. Cardinality({c}) = 1
    BY FS_Singleton
  <2>4. FailureRatioBounded'
    BY <2>2, SameCounters, RatioBoundedIsInvariant
  <2>5. QED
    BY <2>1, <2>2, <2>3, <2>4 DEF ProbeFlagOnlyHalfOpen, ProbesAccounted
<1>3. CASE ~Expired(cb) /\ cb.State = "half-open"
  <2>1. /\ cb'.State = "half-open"
        /\ cb'.probeInFlight
        /\ cb'.successes = cb.successes
        /\ cb'.failures = cb.failures
        /\ strays' = strays
        /\ probing' = IF cb.probeInFlight THEN probing ELSE probing \cup {c}
        /\ Admits(cb) <=> ~cb.probeInFlight
    BY <1>1, <1>3, CheckUnexpired DEF Consult
  <2>2. ProbesAccounted'
    <3>1. IsFiniteSet(probing) /\ Cardinality(probing) \in Nat
      BY <1>1, ProbingFinite
    <3>2. Cardinality(probing \cup {c}) <= Cardinality(probing) + 1
      BY <3>1, FS_AddElement
    <3>3. Cardinality(probing \cup {c}) \in Nat
      BY <1>1, ProbingFinite
    <3>4. CASE cb.probeInFlight
      BY <1>1, <2>1, <3>1, <3>4 DEF ProbesAccounted
    <3>5. CASE ~cb.probeInFlight
      BY <1>1, <2>1, <3>1, <3>2, <3>3, <3>5 DEF ProbesAccounted
    <3>6. QED
      BY <3>4, <3>5
  <2>3. FailureRatioBounded'
    BY <2>1, SameCounters, RatioBoundedIsInvariant
  <2>4. QED
    BY <2>1, <2>2, <2>3 DEF ProbeFlagOnlyHalfOpen
<1>4. CASE ~Expired(cb) /\ cb.State # "half-open"
  <2>1. cb' = cb /\ strays' = strays /\ probing' = probing
    BY <1>1, <1>4, CheckUnexpired DEF Consult
  <2>2. QED
    BY <2>1
    DEF ProbeFlagOnlyHalfOpen, FailureRatioBounded, ProbesAccounted,
        ProbesAreActive
<1>5. QED
  BY <1>2, <1>3, <1>4

(* A recorded outcome keeps the account: it frees the slot, and either it *)
(* ends the probe that held it or it is one stray report more.            *)
LEMMA ReportStep ==
    ASSUME IInv, NEW c \in Callers, CountReport(c),
           ~cb'.probeInFlight, RatioBounded(cb'),
           cb'.State = "half-open" => cb.State = "half-open",
           pc' = [pc EXCEPT ![c] = "idle"]
    PROVE  /\ ProbeFlagOnlyHalfOpen'
           /\ FailureRatioBounded'
           /\ ProbesAreActive'
           /\ ProbesAccounted'
<1> USE DEF IInv
<1>1. /\ cb.probeInFlight \in BOOLEAN
      /\ strays \in Nat
      /\ probing \in SUBSET Callers
      /\ pc \in [Callers -> {"idle", "working", "succeeded", "failed"}]
  BY DEF TypeOK, BreakerType
<1>2. ProbeFlagOnlyHalfOpen' /\ FailureRatioBounded'
  BY RatioBoundedIsInvariant DEF ProbeFlagOnlyHalfOpen
<1>3. CASE cb.State = "half-open" /\ cb'.State = "half-open"
  <2>1. /\ probing' = probing \ {c}
        /\ strays' = IF c \in probing THEN strays ELSE strays + 1
    BY <1>3 DEF CountReport
  <2>2. ProbesAreActive'
    BY <1>1, <1>3, <2>1 DEF ProbesAreActive
  <2>3. ProbesAccounted'
    <3>1. IsFiniteSet(probing) /\ Cardinality(probing) \in Nat
      BY <1>1, ProbingFinite
    <3>2. Cardinality(probing \ {c})
            = IF c \in probing THEN Cardinality(probing) - 1
                               ELSE Cardinality(probing)
      BY <3>1, FS_RemoveElement
    <3>3. Cardinality(probing) <= strays + 1
      BY <1>1, <3>1 DEF ProbesAccounted
    <3>4. QED
      BY <1>1, <2>1, <3>1, <3>2, <3>3 DEF ProbesAccounted
  <2>4. QED
    BY <1>2, <2>2, <2>3
<1>4. CASE ~(cb.State = "half-open" /\ cb'.State = "half-open")
  <2>1. probing' = {} /\ strays' = 0
    BY <1>4 DEF CountReport
  <2>2. QED
    BY <1>2, <2>1, FS_EmptySet DEF ProbesAreActive, ProbesAccounted
<1>5. QED
  BY <1>3, <1>4

(* Setting thresholds touches nothing else. *)
LEMMA ThresholdsStep ==
    ASSUME cb \in BreakerType, SetThresholds
    PROVE  /\ cb'.State = cb.State
           /\ cb'.probeInFlight = cb.probeInFlight
           /\ cb'.successes = cb.successes
           /\ cb'.failures = cb.failures
           /\ UNCHANGED <<pc, probing, strays>>
<1>1. UNCHANGED <<pc, probing, strays>>
  BY DEF SetThresholds
<1>2. ASSUME NEW t \in ErrorThresholds, cb' = [cb EXCEPT !.ErrorThreshold = t]
      PROVE  /\ cb'.State = cb.State
             /\ cb'.probeInFlight = cb.probeInFlight
             /\ cb'.successes = cb.successes
             /\ cb'.failures = cb.failures
  BY <1>2 DEF BreakerType
<1>3. ASSUME NEW l \in LatencyThresholds,
             cb' = [cb EXCEPT !.LatencyThresholdMs = l]
      PROVE  /\ cb'.State = cb.State
             /\ cb'.probeInFlight = cb.probeInFlight
             /\ cb'.successes = cb.successes
             /\ cb'.failures = cb.failures
  BY <1>3 DEF BreakerType
<1>4. ASSUME NEW t \in ErrorThresholds, NEW l \in LatencyThresholds,
             cb' = [cb EXCEPT !.ErrorThreshold = t, !.LatencyThresholdMs = l]
      PROVE  /\ cb'.State = cb.State
             /\ cb'.probeInFlight = cb.probeInFlight
             /\ cb'.successes = cb.successes
             /\ cb'.failures = cb.failures
  BY <1>4 DEF BreakerType
<1>5. QED
  BY <1>1, <1>2, <1>3, <1>4 DEF SetThresholds

(* The invariant is inductive, one step per action. *)
LEMMA IInvInductive == IInv /\ TypeOK' /\ [Next]_vars => IInv'
<1> SUFFICES ASSUME IInv, TypeOK', [Next]_vars PROVE IInv'
  OBVIOUS
<1>0. /\ cb \in BreakerType
      /\ pc \in [Callers -> {"idle", "working", "succeeded", "failed"}]
  BY DEF IInv, TypeOK
<1>1. CASE Tick
  <2>1. /\ cb'.State = cb.State
        /\ cb'.probeInFlight = cb.probeInFlight
        /\ cb'.successes = cb.successes
        /\ cb'.failures = cb.failures
        /\ UNCHANGED <<pc, probing, strays>>
    BY <1>0, <1>1 DEF Tick, Older, BreakerType
  <2>2. FailureRatioBounded'
    BY <2>1, SameCounters, RatioBoundedIsInvariant DEF IInv
  <2>3. QED
    BY <2>1, <2>2
    DEF IInv, ProbeFlagOnlyHalfOpen, ProbesAccounted, ProbesAreActive
<1>2. ASSUME NEW c \in Callers, CheckHandler(c)
      PROVE  IInv'
  <2>1. /\ Consult(c)
        /\ pc[c] = "idle"
        /\ pc' = [pc EXCEPT ![c] = IF Admits(cb) THEN "working" ELSE "idle"]
    BY <1>2 DEF CheckHandler
  <2>2. ProbesAreActive'
    BY <1>0, <2>1, ConsultStep DEF IInv, ProbesAreActive
  <2>3. QED
    BY <2>1, <2>2, ConsultStep DEF IInv
<1>3. ASSUME NEW c \in Callers, CheckFailsOpen(c)
      PROVE  IInv'
  <2>1. /\ pc[c] = "idle"
        /\ pc' = [pc EXCEPT ![c] = "working"]
    BY <1>3 DEF CheckFailsOpen
  <2>2. CASE Consult(c)
    <3>1. ProbesAreActive'
      BY <1>0, <2>1, <2>2, ConsultStep DEF IInv, ProbesAreActive
    <3>2. QED
      BY <2>2, <3>1, ConsultStep DEF IInv
  <2>3. CASE UNCHANGED <<cb, probing, strays>>
    BY <1>0, <2>1, <2>3
    DEF IInv, ProbeFlagOnlyHalfOpen, FailureRatioBounded, ProbesAccounted,
        ProbesAreActive
  <2>4. QED
    BY <1>3, <2>2, <2>3 DEF CheckFailsOpen
<1>4. ASSUME NEW c \in Callers, Abandon(c)
      PROVE  IInv'
  <2>1. /\ pc' = [pc EXCEPT ![c] = "idle"]
        /\ probing' = probing \ {c}
        /\ UNCHANGED <<cb, strays>>
    BY <1>4 DEF Abandon
  <2>2. Cardinality(probing') <= Cardinality(probing)
    BY <2>1, ProbingFinite, FS_Subset DEF IInv, TypeOK
  <2>3. ProbesAccounted'
    <3>1. /\ Cardinality(probing) \in Nat
          /\ Cardinality(probing') \in Nat
          /\ strays \in Nat
      BY <2>1, ProbingFinite DEF IInv, TypeOK
    <3>2. QED
      BY <2>1, <2>2, <3>1 DEF IInv, ProbesAccounted
  <2>4. ProbesAreActive'
    BY <1>0, <2>1 DEF IInv, ProbesAreActive
  <2>5. QED
    BY <2>1, <2>3, <2>4 DEF IInv, ProbeFlagOnlyHalfOpen, FailureRatioBounded
<1>5. ASSUME NEW c \in Callers, Observe(c)
      PROVE  IInv'
  <2>1. /\ UNCHANGED <<cb, probing, strays>>
        /\ \E v \in {"succeeded", "failed"} : pc' = [pc EXCEPT ![c] = v]
    BY <1>5 DEF Observe
  <2>2. \A d \in Callers : pc[d] # "idle" => pc'[d] # "idle"
    BY <1>0, <2>1
  <2>3. ProbesAreActive'
    BY <2>1, <2>2 DEF IInv, TypeOK, ProbesAreActive
  <2>4. QED
    BY <2>1, <2>3
    DEF IInv, ProbeFlagOnlyHalfOpen, FailureRatioBounded, ProbesAccounted
<1>6. ASSUME NEW c \in Callers, ReportSuccess(c)
      PROVE  IInv'
  <2>1. /\ cb' = RecordSuccess(cb)
        /\ pc' = [pc EXCEPT ![c] = "idle"]
        /\ CountReport(c)
    BY <1>6 DEF ReportSuccess
  <2>2. RatioBounded(cb')
    BY <1>0, <2>1, SuccessKeepsRatio, RatioBoundedIsInvariant DEF IInv
  <2>3. /\ ~cb'.probeInFlight
        /\ cb'.State = "half-open" => cb.State = "half-open"
    BY <1>0, <2>1, RecordFields
  <2>4. QED
    BY <2>1, <2>2, <2>3, ReportStep DEF IInv
<1>7. ASSUME NEW c \in Callers, ReportFailure(c)
      PROVE  IInv'
  <2>1. /\ cb' = RecordFailure(cb)
        /\ pc' = [pc EXCEPT ![c] = "idle"]
        /\ CountReport(c)
    BY <1>7 DEF ReportFailure
  <2>2. RatioBounded(cb')
    BY <1>0, <2>1, FailureKeepsRatio
  <2>3. /\ ~cb'.probeInFlight
        /\ cb'.State = "half-open" => cb.State = "half-open"
    BY <1>0, <2>1, RecordFields
  <2>4. QED
    BY <2>1, <2>2, <2>3, ReportStep DEF IInv
<1>8. ASSUME NEW state \in ForcedStates, ForceState(state)
      PROVE  IInv'
  <2>1. /\ ~cb'.probeInFlight
        /\ cb'.failures = 0
        /\ probing' = {}
        /\ strays' = 0
    BY <1>0, <1>8, SetStateFields DEF ForceState
  <2>2. QED
    BY <2>1, FS_EmptySet, EmptyWindow, RatioBoundedIsInvariant
    DEF IInv, ProbeFlagOnlyHalfOpen, ProbesAccounted, ProbesAreActive
<1>9. CASE SetThresholds
  <2>1. /\ cb'.State = cb.State
        /\ cb'.probeInFlight = cb.probeInFlight
        /\ cb'.successes = cb.successes
        /\ cb'.failures = cb.failures
        /\ UNCHANGED <<pc, probing, strays>>
    BY <1>0, <1>9, ThresholdsStep
  <2>2. FailureRatioBounded'
    BY <2>1, SameCounters, RatioBoundedIsInvariant DEF IInv
  <2>3. QED
    BY <2>1, <2>2
    DEF IInv, ProbeFlagOnlyHalfOpen, ProbesAccounted, ProbesAreActive
<1>10. CASE UNCHANGED vars
  BY <1>10
  DEF vars, IInv, ProbeFlagOnlyHalfOpen, FailureRatioBounded,
      ProbesAccounted, ProbesAreActive
<1>11. QED
  BY <1>1, <1>2, <1>3, <1>4, <1>5, <1>6, <1>7, <1>8, <1>9, <1>10 DEF Next

(* The control plane starts with the slot free and an empty window. *)
LEMMA IInvInit == Init => IInv
<1> SUFFICES ASSUME Init PROVE IInv
  OBVIOUS
<1>1. TypeOK
  BY BreakerAssumption DEF Init, TypeOK, NewCircuitBreaker, BreakerType, States
<1>2. /\ ~cb.probeInFlight
      /\ cb.failures = 0
      /\ probing = {}
      /\ strays = 0
  BY DEF Init, NewCircuitBreaker
<1>3. QED
  BY <1>1, <1>2, FS_EmptySet, EmptyWindow, RatioBoundedIsInvariant
  DEF IInv, ProbeFlagOnlyHalfOpen, ProbesAccounted, ProbesAreActive

(* The conjunction holds in every reachable state. *)
THEOREM Invariance == Spec => []IInv
BY IInvInit, IInvInductive, TypeCorrect, PTL DEF Spec

(* A claimed probe slot never outlives the half-open state. *)
THEOREM ProbeFlagSafe == Spec => []ProbeFlagOnlyHalfOpen
<1>1. IInv => ProbeFlagOnlyHalfOpen
  BY DEF IInv
<1>2. QED
  BY <1>1, Invariance, PTL

(* No interleaving leaves a window's failures at or over every threshold. *)
THEOREM FailureRatioSafe == Spec => []FailureRatioBounded
<1>1. IInv => FailureRatioBounded
  BY DEF IInv
<1>2. QED
  BY <1>1, Invariance, PTL

(* The single-probe rule, as strong as the code makes it: more than one *)
(* probe in flight costs one report by somebody else for each.          *)
THEOREM SingleProbeAccount == Spec => []ProbesAccounted
<1>1. IInv => ProbesAccounted
  BY DEF IInv
<1>2. QED
  BY <1>1, Invariance, PTL

-------------------------------------------------------------------------------
(* Every step out of the open state is the timer's or the operator's. *)
THEOREM OpenHoldsAlways == Spec => OpenHolds
<1>1. TypeOK /\ [Next]_vars
        => [(cb.State = "open" /\ cb'.State # "open") => LeavesOpen]_vars
  <2> SUFFICES ASSUME TypeOK, Next, cb.State = "open", cb'.State # "open"
               PROVE  LeavesOpen
    OBVIOUS
  <2>0. cb \in BreakerType
    BY DEF TypeOK
  <2>consult. ASSUME NEW c \in Callers, Consult(c)
              PROVE  LeavesOpen
    <3>1. cb' = Check(cb)
      BY <2>consult DEF Consult
    <3>2. Expired(cb)
      BY <2>0, <3>1, CheckUnexpired
    <3>3. cb.age = OpenDuration
      BY <2>0, <3>2, BreakerAssumption DEF Expired, BreakerType
    <3>4. QED
      BY <2>0, <3>1, <3>2, <3>3, CheckExpired DEF LeavesOpen
  <2>1. CASE Tick
    BY <2>0, <2>1 DEF Tick, Older, BreakerType
  <2>2. ASSUME NEW c \in Callers, CheckHandler(c)
        PROVE  LeavesOpen
    BY <2>2, <2>consult DEF CheckHandler
  <2>3. ASSUME NEW c \in Callers, CheckFailsOpen(c)
        PROVE  LeavesOpen
    BY <2>3, <2>consult DEF CheckFailsOpen
  <2>4. ASSUME NEW c \in Callers, Abandon(c) \/ Observe(c)
        PROVE  LeavesOpen
    BY <2>4 DEF Abandon, Observe
  <2>5. ASSUME NEW c \in Callers, ReportSuccess(c)
        PROVE  LeavesOpen
    BY <2>0, <2>5, RecordFields DEF ReportSuccess
  <2>6. ASSUME NEW c \in Callers, ReportFailure(c)
        PROVE  LeavesOpen
    BY <2>0, <2>6, RecordFields DEF ReportFailure
  <2>7. ASSUME NEW state \in ForcedStates, ForceState(state)
        PROVE  LeavesOpen
    BY <2>7 DEF LeavesOpen
  <2>8. CASE SetThresholds
    BY <2>0, <2>8, ThresholdsStep
  <2>9. QED
    BY <2>1, <2>2, <2>3, <2>4, <2>5, <2>6, <2>7, <2>8 DEF Next
<1>2. QED
  BY <1>1, TypeCorrect, PTL DEF Spec, OpenHolds

-------------------------------------------------------------------------------
(***************************************************************************)
(* The demo service's actions take the breaker's steps and no others, so   *)
(* what is proved of CircuitBreaker holds of the breaker the demo service  *)
(* consults, replays and lost answers included.                            *)
(***************************************************************************)

(* One call of actionHandler is a step of the breaker. *)
LEMMA ServeActionSteps ==
    ASSUME NEW h \in Callers, ServeAction(h)
    PROVE  Next
BY DEF ServeAction, Step, FaultyStep, Next

(* Every step of the demo service is a step of the breaker or leaves it alone. *)
THEOREM GuardedByBreaker == DemoSpec => Spec
<1>1. DemoInit => Init
  BY DEF DemoInit
<1>2. [DemoNext]_demoVars => [Next]_vars
  <2> SUFFICES ASSUME DemoNext \/ UNCHANGED demoVars
               PROVE  Next \/ UNCHANGED vars
    OBVIOUS
  <2>1. CASE DemoTick
    BY <2>1 DEF DemoTick, Next
  <2>2. ASSUME NEW h \in Callers, ServeAction(h)
        PROVE  Next
    BY <2>2, ServeActionSteps
  <2>3. ASSUME NEW h \in Callers,
               \/ \E kind \in Kinds : Arrive(h, kind)
               \/ ArriveUncaptured(h)
               \/ Capture(h)
        PROVE  UNCHANGED vars
    BY <2>3 DEF Arrive, ArriveUncaptured, Capture, breakerVars
  <2>4. ASSUME NEW p \in Replays,
               \/ \E kind \in Kinds, limit \in ReplayLimits : StartReplay(p, kind, limit)
               \/ \E h \in Callers : Send(p, h)
               \/ SendWithoutEffect(p)
               \/ Timeout(p)
        PROVE  UNCHANGED vars
    BY <2>4 DEF StartReplay, Send, SendWithoutEffect, Timeout, breakerVars
  <2>5. CASE UNCHANGED demoVars
    BY <2>5 DEF demoVars, breakerVars
  <2>6. QED
    BY <2>1, <2>2, <2>3, <2>4, <2>5 DEF DemoNext
<1>3. QED
  BY <1>1, <1>2, PTL DEF DemoSpec, Spec

-------------------------------------------------------------------------------
(***************************************************************************)
(* The order in which a replay sends what it selected: a finite set of     *)
(* requests with different numbers has exactly one increasing sequence.    *)
(***************************************************************************)
Distinct(S) == \A r, s \in S : r.id = s.id => r = s

UpTo(S, r) == {s \in S : s.id <= r.id}

Increasing(q) == \A i, j \in DOMAIN q : i < j => q[i].id < q[j].id

(* Requests with different numbers have different ranks. *)
LEMMA RanksDiffer ==
    ASSUME NEW S \in SUBSET Captured, IsFiniteSet(S),
           NEW r \in S, NEW t \in S, r.id < t.id
    PROVE  /\ Cardinality(UpTo(S, r)) \in 1..Cardinality(S)
           /\ Cardinality(UpTo(S, r)) < Cardinality(UpTo(S, t))
<1>1. r.id \in Int /\ t.id \in Int /\ \A s \in S : s.id \in Int
  BY DEF Captured
<1>2. UpTo(S, r) \in SUBSET S /\ UpTo(S, t) \in SUBSET S
  BY DEF UpTo
<1>3. /\ IsFiniteSet(UpTo(S, r)) /\ IsFiniteSet(UpTo(S, t))
      /\ Cardinality(UpTo(S, r)) <= Cardinality(S)
  BY <1>2, FS_Subset
<1>4. UpTo(S, r) \in SUBSET UpTo(S, t)
  BY <1>1 DEF UpTo
<1>5. r \in UpTo(S, r) /\ t \in UpTo(S, t) /\ t \notin UpTo(S, r)
  BY <1>1 DEF UpTo
<1>6. /\ Cardinality(UpTo(S, r)) <= Cardinality(UpTo(S, t))
      /\ Cardinality(UpTo(S, r)) # Cardinality(UpTo(S, t))
  BY <1>3, <1>4, <1>5, FS_Subset
<1>7. /\ Cardinality(UpTo(S, r)) \in Nat /\ Cardinality(UpTo(S, t)) \in Nat
      /\ Cardinality(S) \in Nat
  BY <1>3, FS_CardinalityType
<1>8. Cardinality(UpTo(S, r)) # 0
  BY <1>3, <1>5, FS_EmptySet
<1>9. QED
  BY <1>3, <1>6, <1>7, <1>8

(* Every rank from one to the number of requests is taken. *)
LEMMA RanksTaken ==
    ASSUME NEW S \in SUBSET Captured, IsFiniteSet(S), Distinct(S)
    PROVE  \A i \in 1..Cardinality(S) : \E r \in S : Cardinality(UpTo(S, r)) = i
<1> DEFINE n == Cardinality(S)
           rank == [r \in S |-> Cardinality(UpTo(S, r))]
<1>1. n \in Nat
  BY FS_CardinalityType
<1>2. ASSUME NEW r \in S
      PROVE  Cardinality(UpTo(S, r)) \in 1..n
  <2>1. UpTo(S, r) \in SUBSET S /\ r \in UpTo(S, r)
    BY DEF UpTo, Captured
  <2>2. IsFiniteSet(UpTo(S, r)) /\ Cardinality(UpTo(S, r)) <= n
    BY <2>1, FS_Subset
  <2>3. Cardinality(UpTo(S, r)) # 0 /\ Cardinality(UpTo(S, r)) \in Nat
    BY <2>1, <2>2, FS_EmptySet, FS_CardinalityType
  <2>4. QED
    BY <1>1, <2>2, <2>3
<1>3. ASSUME NEW r \in S, NEW t \in S, rank[r] = rank[t]
      PROVE  r = t
  <2>1. Cardinality(UpTo(S, r)) = Cardinality(UpTo(S, t))
    BY <1>3
  <2>2. Cardinality(UpTo(S, r)) \in Int
    BY <1>2
  <2>3. ~(r.id < t.id) /\ ~(t.id < r.id)
    BY <2>1, <2>2, RanksDiffer
  <2>4. r.id = t.id
    BY <2>3 DEF Captured
  <2>5. QED
    BY <2>4 DEF Distinct
<1>4. rank \in Injection(S, 1..n)
  BY <1>2, <1>3 DEF Injection, IsInjective
<1>5. IsFiniteSet(1..n) /\ Cardinality(1..n) = n
  BY <1>1, FS_Interval
<1>6. rank \in Surjection(S, 1..n)
  <2> HIDE DEF rank
  <2> QED
    BY <1>4, <1>5, FS_Injection
<1>7. QED
  BY <1>6 DEF Surjection

(* So there is an increasing sequence of them, ... *)
LEMMA InOrderExists ==
    ASSUME NEW S \in SUBSET Captured, IsFiniteSet(S), Distinct(S)
    PROVE  \E q \in [1..Cardinality(S) -> S] : Increasing(q)
<1> DEFINE n == Cardinality(S)
           q == [i \in 1..n |-> CHOOSE r \in S : Cardinality(UpTo(S, r)) = i]
<1>1. \A i \in 1..n : q[i] \in S /\ Cardinality(UpTo(S, q[i])) = i
  BY RanksTaken
<1>2. q \in [1..n -> S]
  BY <1>1
<1>3. ASSUME NEW i \in 1..n, NEW j \in 1..n, i < j
      PROVE  q[i].id < q[j].id
  <2> HIDE DEF q
  <2>1. ~(q[j].id < q[i].id)
    BY <1>1, <1>3, RanksDiffer
  <2>2. q[j].id # q[i].id
    BY <1>1, <1>3 DEF Distinct
  <2>3. q[i].id \in Int /\ q[j].id \in Int
    BY <1>1 DEF Captured
  <2>4. QED
    BY <2>1, <2>2, <2>3
<1>4. DOMAIN q = 1..n
  OBVIOUS
<1>5. Increasing(q)
  <2> HIDE DEF q
  <2> QED
    BY <1>3, <1>4 DEF Increasing
<1>6. QED
  BY <1>2, <1>5

(* ... and it holds all of them. *)
LEMMA InOrderIs ==
    ASSUME NEW S \in SUBSET Captured, IsFiniteSet(S), Distinct(S)
    PROVE  /\ InOrder(S) \in Seq(Captured)
           /\ Len(InOrder(S)) = Cardinality(S)
           /\ Increasing(InOrder(S))
           /\ Range(InOrder(S)) = S
<1> DEFINE n == Cardinality(S)
           q == InOrder(S)
<1>1. n \in Nat
  BY FS_CardinalityType
<1>2. q \in [1..n -> S] /\ Increasing(q)
  BY InOrderExists DEF InOrder, Increasing
<1> HIDE DEF q
<1>3. q \in Seq(Captured) /\ Len(q) = n
  <2>1. q \in [1..n -> Captured]
    BY <1>2
  <2>2. QED
    BY <1>1, <2>1
<1>4. ASSUME NEW i \in 1..n, NEW j \in 1..n, q[i] = q[j]
      PROVE  i = j
  <2>1. q[i].id \in Int
    BY <1>2 DEF Captured
  <2>2. ~(i < j) /\ ~(j < i)
    BY <1>2, <1>4, <2>1 DEF Increasing
  <2>3. QED
    BY <2>2
<1>5. q \in Injection(1..n, S)
  BY <1>2, <1>4 DEF Injection, IsInjective
<1>6. IsFiniteSet(1..n) /\ Cardinality(1..n) = n
  BY <1>1, FS_Interval
<1>7. q \in Surjection(1..n, S)
  BY <1>5, <1>6, FS_Injection
<1>8. Range(q) = S
  BY <1>2, <1>7 DEF Surjection, Range
<1>9. QED
  BY <1>2, <1>3, <1>8 DEF q

(* The latest of an increasing sequence are its end. *)
LEMMA LatestIs ==
    ASSUME NEW q \in Seq(Captured), Increasing(q), NEW limit \in Nat \ {0}
    PROVE  /\ Latest(q, limit) \in Seq(Captured)
           /\ Increasing(Latest(q, limit))
           /\ \A r \in Range(q) \ Range(Latest(q, limit)) :
                 /\ Len(Latest(q, limit)) = limit
                 /\ r.id < Latest(q, limit)[1].id
<1> DEFINE n == Len(q)
           t == Latest(q, limit)
<1>1. CASE n > limit
  <2>1. t = SubSeq(q, n - limit + 1, n)
    BY <1>1 DEF Latest
  <2>2. n \in Nat /\ DOMAIN q = 1..n /\ n - limit + 1 \in 1..n
    BY <1>1
  <2>3. /\ t \in Seq(Captured)
        /\ Len(t) = limit
        /\ \A i \in 1..limit : t[i] = q[n - limit + i]
    BY <2>1, <2>2
  <2> HIDE DEF t
  <2>4. DOMAIN t = 1..limit
    BY <2>3
  <2>5. Increasing(t)
    <3>1. SUFFICES ASSUME NEW i \in 1..limit, NEW j \in 1..limit, i < j
                   PROVE  t[i].id < t[j].id
      BY <2>4 DEF Increasing
    <3>2. /\ n - limit + i \in 1..n /\ n - limit + j \in 1..n
          /\ n - limit + i < n - limit + j
      BY <2>2, <3>1
    <3>3. QED
      BY <2>2, <2>3, <3>2 DEF Increasing
  <2>6. ASSUME NEW r \in Range(q) \ Range(t)
        PROVE  r.id < t[1].id
    <3>1. PICK k \in 1..n : r = q[k]
      BY <2>2 DEF Range
    <3>2. k <= n - limit
      <4>1. SUFFICES ASSUME k > n - limit PROVE FALSE
        BY <2>2
      <4>2. k - (n - limit) \in 1..limit /\ q[k] = t[k - (n - limit)]
        BY <2>2, <2>3, <4>1
      <4>3. QED
        BY <2>4, <3>1, <4>2 DEF Range
    <3>3. t[1] = q[n - limit + 1]
      BY <2>3
    <3>4. k < n - limit + 1
      BY <2>2, <3>2
    <3>5. QED
      BY <2>2, <3>1, <3>3, <3>4 DEF Increasing
  <2>7. QED
    BY <2>3, <2>5, <2>6 DEF t
<1>2. CASE ~(n > limit)
  BY <1>2 DEF Latest
<1>3. QED
  BY <1>1, <1>2

-------------------------------------------------------------------------------
(***************************************************************************)
(* The invariant of capture.  A number is on its way to the list or in it, *)
(* and once only.  Overtook(n, i) are the numbers below n that are still   *)
(* on their way, or entered the list behind position i: what a request     *)
(* with number n at position i left behind when it was captured.           *)
(***************************************************************************)
OnTheWay == {request[h].id : h \in Pending}
NumbersAfter(i) == {capturedTraffic[j].id : j \in {k \in DOMAIN capturedTraffic : k > i}}
Overtook(n, i) == {m \in OnTheWay \cup NumbersAfter(i) : m < n}
Lost == (1..captureSeq) \ (Numbers \cup OnTheWay)
Others == Cardinality(Callers) - 1

CaptureTyped ==
    /\ captureSeq \in 0..MaxSeq
    /\ capturedTraffic \in Seq(Captured)
    /\ Len(capturedTraffic) <= maxCapturedTraffic
    /\ at \in [Callers -> {"away", "numbered", "routed"}]
    /\ request \in [Callers -> Captured \cup {None}]
    /\ \A h \in Callers : request[h] # None <=> h \in Pending

NumberedOnce ==
    /\ \A i \in DOMAIN capturedTraffic : capturedTraffic[i].id \in 1..captureSeq
    /\ \A h \in Pending : request[h].id \in (1..captureSeq) \ Numbers
    /\ \A i, j \in DOMAIN capturedTraffic :
          capturedTraffic[i].id = capturedTraffic[j].id => i = j
    /\ \A g, h \in Pending : request[g].id = request[h].id => g = h

(* At most one number per other handler is behind a captured one, and *)
(* nothing is lost before the list is full.                           *)
FewBehind ==
    /\ \A i \in DOMAIN capturedTraffic :
          Cardinality(Overtook(capturedTraffic[i].id, i)) <= Others
    /\ \A n \in Lost :
          /\ Len(capturedTraffic) = maxCapturedTraffic
          /\ Cardinality(Overtook(n, 0)) <= Others

CaptureInv == CaptureTyped /\ NumberedOnce /\ FewBehind

(* The sets of the invariant are bounded. *)
LEMMA NumbersBounded ==
    ASSUME CaptureTyped, NumberedOnce
    PROVE  /\ Numbers \subseteq 1..captureSeq
           /\ OnTheWay \subseteq 1..captureSeq
           /\ NumbersAfter(0) = Numbers
           /\ \A n, i : IsFiniteSet(Overtook(n, i))
<1>1. captureSeq \in Nat
  BY DemoServiceAssumption DEF CaptureTyped
<1>2. /\ Numbers \subseteq 1..captureSeq
      /\ OnTheWay \subseteq 1..captureSeq
      /\ NumbersAfter(0) = Numbers
  BY DEF NumberedOnce, CaptureTyped, Numbers, OnTheWay, NumbersAfter
<1>3. ASSUME NEW n, NEW i
      PROVE  IsFiniteSet(Overtook(n, i))
  <2>1. Overtook(n, i) \in SUBSET (1..captureSeq)
    BY <1>2 DEF Overtook, NumbersAfter, Numbers
  <2>2. IsFiniteSet(1..captureSeq)
    BY <1>1, FS_Interval
  <2>3. QED
    BY <2>1, <2>2, FS_Subset
<1>4. QED
  BY <1>2, <1>3

(* The list holds as many numbers as requests. *)
LEMMA NumbersCounted ==
    ASSUME CaptureTyped, NumberedOnce
    PROVE  IsFiniteSet(Numbers) /\ Cardinality(Numbers) = Len(capturedTraffic)
<1> DEFINE n == Len(capturedTraffic)
           number == [i \in 1..n |-> capturedTraffic[i].id]
<1>1. n \in Nat /\ DOMAIN capturedTraffic = 1..n
  BY DEF CaptureTyped
<1>2. number \in Bijection(1..n, Numbers)
  <2>1. number \in [1..n -> Numbers]
    BY <1>1 DEF Numbers
  <2>2. \A i, j \in 1..n : number[i] = number[j] => i = j
    BY <1>1 DEF NumberedOnce
  <2>3. \A m \in Numbers : \E i \in 1..n : number[i] = m
    BY <1>1 DEF Numbers
  <2>4. QED
    <3> HIDE DEF number
    <3> QED
      BY <2>1, <2>2, <2>3 DEF Bijection, Injection, IsInjective, Surjection
<1>3. ExistsBijection(1..n, Numbers)
  BY <1>2 DEF ExistsBijection
<1>4. IsFiniteSet(1..n) /\ Cardinality(1..n) = n
  <2> HIDE DEF n
  <2> QED
    BY <1>1, FS_Interval
<1>5. QED
  <2> HIDE DEF number
  <2> QED
    BY <1>1, <1>3, <1>4, FS_Bijection

(* One handler apart, no more numbers are on their way than there are others. *)
LEMMA OthersOnTheWay ==
    ASSUME CaptureTyped, NEW h \in Callers
    PROVE  LET rest == {request[g].id : g \in Pending \ {h}}
           IN  IsFiniteSet(rest) /\ Cardinality(rest) <= Others
<1> DEFINE S == Pending \ {h}
           rest == {request[g].id : g \in S}
           number == [g \in S |-> request[g].id]
<1>1. IsFiniteSet(Callers \ {h}) /\ Cardinality(Callers \ {h}) = Others
  BY CircuitBreakerAssumption, FS_RemoveElement DEF Others
<1>2. S \in SUBSET (Callers \ {h})
  BY DEF Pending
<1>3. IsFiniteSet(S) /\ Cardinality(S) <= Others
  BY <1>1, <1>2, FS_Subset
<1>4. number \in Surjection(S, rest)
  BY DEF Surjection
<1>5. IsFiniteSet(rest) /\ Cardinality(rest) <= Cardinality(S)
  <2> HIDE DEF number, S, rest
  <2> QED
    BY <1>3, <1>4, FS_Surjection
<1>6. Cardinality(rest) \in Nat /\ Cardinality(S) \in Nat /\ Others \in Int
  BY <1>1, <1>3, <1>5, FS_CardinalityType
<1>7. QED
  BY <1>3, <1>5, <1>6

-------------------------------------------------------------------------------
(* A new number is above all others and on its way. *)
LEMMA ArriveKeepsCapture ==
    ASSUME CaptureInv, NEW h \in Callers, NEW kind \in Kinds, Arrive(h, kind)
    PROVE  CaptureInv'
<1> DEFINE new == captureSeq + 1
<1> USE DEF CaptureInv
<1>1. /\ captureSeq \in Nat /\ new \in 1..MaxSeq /\ MaxSeq \in Nat
      /\ captureSeq' = new
      /\ at[h] = "away" /\ h \notin Pending
      /\ at' = [at EXCEPT ![h] = "numbered"]
      /\ request' = [request EXCEPT ![h] = [id |-> new, kind |-> kind]]
      /\ capturedTraffic' = capturedTraffic
  BY DemoServiceAssumption DEF CaptureTyped, Arrive, Pending
<1>2. [id |-> new, kind |-> kind] \in Captured
  BY <1>1 DEF Captured
<1>3. Pending' = Pending \cup {h} /\ Numbers' = Numbers
  BY <1>1 DEF CaptureTyped, Pending, Numbers
<1>4. request'[h].id = new /\ \A g \in Pending : request'[g] = request[g]
  BY <1>1 DEF CaptureTyped, Pending
<1>5. CaptureTyped'
  <2>1. request'[h] # None
    BY <1>1, <1>2, DemoServiceAssumption DEF CaptureTyped
  <2>2. QED
    BY <1>1, <1>2, <1>3, <2>1 DEF CaptureTyped
<1>6. NumberedOnce'
  BY <1>1, <1>3, <1>4, NumbersBounded DEF NumberedOnce
<1>7. OnTheWay' = OnTheWay \cup {new}
  BY <1>3, <1>4 DEF OnTheWay
<1>8. ASSUME NEW n \in 1..captureSeq, NEW i
      PROVE  Overtook(n, i)' = Overtook(n, i)
  BY <1>1, <1>7 DEF Overtook, NumbersAfter
<1>9. Lost' = Lost
  BY <1>1, <1>3, <1>7 DEF Lost
<1>10. Lost \subseteq 1..captureSeq
  BY DEF Lost
<1>11. FewBehind'
  <2>1. \A i \in DOMAIN capturedTraffic' :
           Cardinality(Overtook(capturedTraffic[i].id, i)') <= Others
    BY <1>1, <1>8 DEF FewBehind, NumberedOnce
  <2>2. \A n \in Lost' : /\ Len(capturedTraffic') = maxCapturedTraffic
                         /\ Cardinality(Overtook(n, 0)') <= Others
    BY <1>1, <1>8, <1>9, <1>10 DEF FewBehind
  <2>3. QED
    BY <1>1, <2>1, <2>2 DEF FewBehind, Others
<1>12. QED
  BY <1>5, <1>6, <1>11

-------------------------------------------------------------------------------
(***************************************************************************)
(* Capture: the list drops its head when it is full and takes the request  *)
(* at its end.                                                             *)
(***************************************************************************)
Dropped == IF Len(capturedTraffic) >= maxCapturedTraffic THEN 1 ELSE 0

(* What WithLatest makes of the list, position by position. *)
LEMMA WithLatestIs ==
    ASSUME CaptureTyped, NEW r \in Captured
    PROVE  LET n == Len(capturedTraffic) - Dropped
               new == WithLatest(capturedTraffic, r)
           IN  /\ n \in Nat
               /\ Dropped \in {0, 1}
               /\ Dropped = 1 <=> Len(capturedTraffic) = maxCapturedTraffic
               /\ new \in Seq(Captured)
               /\ Len(new) = n + 1
               /\ n + 1 <= maxCapturedTraffic
               /\ \A i \in 1..n : new[i] = capturedTraffic[i + Dropped]
               /\ new[n + 1] = r
<1> DEFINE K == Len(capturedTraffic)
           new == WithLatest(capturedTraffic, r)
<1>1. /\ K \in Nat /\ maxCapturedTraffic \in Nat \ {0} /\ K <= maxCapturedTraffic
      /\ capturedTraffic \in Seq(Captured)
  BY DemoServiceAssumption DEF CaptureTyped
<1>2. CASE K >= maxCapturedTraffic
  <2>1. K = maxCapturedTraffic /\ Dropped = 1 /\ K \in Nat \ {0}
    BY <1>1, <1>2 DEF Dropped
  <2>2. new = Append(Tail(capturedTraffic), r)
    BY <1>2 DEF WithLatest
  <2>3. /\ Tail(capturedTraffic) \in Seq(Captured)
        /\ Len(Tail(capturedTraffic)) = K - 1
        /\ \A i \in 1..(K - 1) : Tail(capturedTraffic)[i] = capturedTraffic[i + 1]
    BY <1>1, <2>1
  <2>4. QED
    BY <1>1, <2>1, <2>2, <2>3
<1>3. CASE ~(K >= maxCapturedTraffic)
  <2>1. K # maxCapturedTraffic /\ K + 1 <= maxCapturedTraffic /\ Dropped = 0
    BY <1>1, <1>3 DEF Dropped
  <2>2. new = Append(capturedTraffic, r)
    BY <1>3 DEF WithLatest
  <2>3. QED
    BY <1>1, <2>1, <2>2
<1>4. QED
  BY <1>2, <1>3

(* The captured number moves from the way into the list. *)
LEMMA CaptureMoves ==
    ASSUME CaptureInv, NEW h \in Callers, Capture(h),
           NEW r, r = request[h],
           NEW n, n = Len(capturedTraffic) - Dropped
    PROVE  /\ r \in Captured
           /\ r.id \in OnTheWay /\ r.id \notin Numbers
           /\ OnTheWay' = OnTheWay \ {r.id}
           /\ OnTheWay' = {request[g].id : g \in Pending \ {h}}
           /\ NumbersAfter(n + 1)' = {}
           /\ \A i \in 0..n :
                 NumbersAfter(i)' = NumbersAfter(i + Dropped) \cup {r.id}
<1> USE DEF CaptureInv
<1>1. /\ h \in Pending
      /\ capturedTraffic' = WithLatest(capturedTraffic, r)
      /\ at' = [at EXCEPT ![h] = IF r.kind = "action" THEN "routed" ELSE "away"]
      /\ request' = [request EXCEPT ![h] = None]
      /\ captureSeq' = captureSeq
  BY DEF Capture, Pending
<1>2. r \in Captured
  BY <1>1 DEF CaptureTyped
<1>3. r.id \in OnTheWay /\ r.id \notin Numbers
  BY <1>1 DEF OnTheWay, NumberedOnce
<1>4. Pending' = Pending \ {h} /\ \A g \in Pending \ {h} : request'[g] = request[g]
  BY <1>1 DEF CaptureTyped, Pending
<1>5. OnTheWay' = {request[g].id : g \in Pending \ {h}}
  BY <1>4 DEF OnTheWay
<1>6. OnTheWay' = OnTheWay \ {r.id}
  <2>1. \A g \in Pending \ {h} : request[g].id # r.id
    BY <1>1 DEF NumberedOnce
  <2>2. OnTheWay = {request[g].id : g \in Pending \ {h}} \cup {r.id}
    BY <1>1 DEF OnTheWay
  <2>3. r.id \notin {request[g].id : g \in Pending \ {h}}
    BY <2>1
  <2>4. QED
    BY <1>5, <2>2, <2>3
<1>7. /\ n \in Nat /\ Dropped \in {0, 1}
      /\ DOMAIN capturedTraffic' = 1..(n + 1)
      /\ DOMAIN capturedTraffic = 1..(n + Dropped)
      /\ \A i \in 1..n : capturedTraffic'[i] = capturedTraffic[i + Dropped]
      /\ capturedTraffic'[n + 1] = r
  BY <1>1, <1>2, WithLatestIs DEF CaptureTyped
<1>8. NumbersAfter(n + 1)' = {}
  BY <1>7 DEF NumbersAfter
<1>9. ASSUME NEW i \in 0..n
      PROVE  NumbersAfter(i)' = NumbersAfter(i + Dropped) \cup {r.id}
  <2>1. ASSUME NEW m \in NumbersAfter(i)'
        PROVE  m \in NumbersAfter(i + Dropped) \cup {r.id}
    <3>1. PICK j \in 1..(n + 1) : j > i /\ m = capturedTraffic'[j].id
      BY <1>7 DEF NumbersAfter
    <3>2. CASE j = n + 1
      BY <1>7, <3>1, <3>2
    <3>3. CASE j # n + 1
      <4>1. /\ j \in 1..n /\ j + Dropped \in 1..(n + Dropped) /\ j + Dropped > i + Dropped
            /\ m = capturedTraffic[j + Dropped].id
        BY <1>7, <3>1, <3>3
      <4>2. QED
        BY <1>7, <4>1 DEF NumbersAfter
    <3>4. QED
      BY <3>2, <3>3
  <2>2. r.id \in NumbersAfter(i)'
    <3>1. n + 1 \in 1..(n + 1) /\ n + 1 > i
      BY <1>7
    <3>2. QED
      BY <1>7, <3>1 DEF NumbersAfter
  <2>3. ASSUME NEW m \in NumbersAfter(i + Dropped)
        PROVE  m \in NumbersAfter(i)'
    <3>1. PICK j \in 1..(n + Dropped) : j > i + Dropped /\ m = capturedTraffic[j].id
      BY <1>7 DEF NumbersAfter
    <3>2. /\ j - Dropped \in 1..n /\ j - Dropped > i
          /\ (j - Dropped) + Dropped = j
      BY <1>7, <3>1
    <3>3. m = capturedTraffic'[j - Dropped].id /\ j - Dropped \in 1..(n + 1)
      BY <1>7, <3>1, <3>2
    <3>4. QED
      BY <1>7, <3>2, <3>3 DEF NumbersAfter
  <2>4. QED
    BY <2>1, <2>2, <2>3
<1>10. QED
  BY <1>2, <1>3, <1>5, <1>6, <1>7, <1>8, <1>9

(* The requests that stay keep what they left behind: the captured number *)
(* was on its way, and is now in the list after them.                     *)
LEMMA CaptureKeepsOvertook ==
    ASSUME CaptureInv, NEW h \in Callers, Capture(h),
           NEW i \in 0..(Len(capturedTraffic) - Dropped), NEW m
    PROVE  Overtook(m, i)' = Overtook(m, i + Dropped)
<1>1. PICK r : r = request[h]
  OBVIOUS
<1>2. PICK n : n = Len(capturedTraffic) - Dropped
  OBVIOUS
<1>3. /\ r.id \in OnTheWay /\ OnTheWay' = OnTheWay \ {r.id}
      /\ NumbersAfter(i)' = NumbersAfter(i + Dropped) \cup {r.id}
  BY <1>1, <1>2, CaptureMoves
<1>4. OnTheWay' \cup NumbersAfter(i)' = OnTheWay \cup NumbersAfter(i + Dropped)
  BY <1>3
<1>5. QED
  BY <1>4 DEF Overtook

(* The captured request leaves behind what other handlers have. *)
LEMMA CapturedOvertook ==
    ASSUME CaptureInv, NEW h \in Callers, Capture(h),
           NEW n, n = Len(capturedTraffic) - Dropped, NEW m
    PROVE  Cardinality(Overtook(m, n + 1)') <= Others
<1> DEFINE rest == {request[g].id : g \in Pending \ {h}}
<1>1. IsFiniteSet(rest) /\ Cardinality(rest) <= Others
  BY OthersOnTheWay DEF CaptureInv
<1>2. OnTheWay' = rest /\ NumbersAfter(n + 1)' = {}
  BY CaptureMoves
<1>3. Overtook(m, n + 1)' \in SUBSET rest
  BY <1>2 DEF Overtook
<1> HIDE DEF rest
<1>4. /\ IsFiniteSet(Overtook(m, n + 1)')
      /\ Cardinality(Overtook(m, n + 1)') <= Cardinality(rest)
  BY <1>1, <1>3, FS_Subset
<1>5. Cardinality(Overtook(m, n + 1)') \in Nat /\ Cardinality(rest) \in Nat
  BY <1>1, <1>4, FS_CardinalityType
<1>6. Others \in Int
  BY CircuitBreakerAssumption, FS_CardinalityType DEF Others
<1>7. QED
  BY <1>1, <1>4, <1>5, <1>6

(* So capture keeps the invariant, and what the list drops is one more *)
(* number that a full list of the others stands for.                   *)
LEMMA CaptureKeepsCapture ==
    ASSUME CaptureInv, NEW h \in Callers, Capture(h)
    PROVE  CaptureInv'
<1> USE DEF CaptureInv
<1>1. PICK r : r = request[h]
  OBVIOUS
<1>2. PICK n : n = Len(capturedTraffic) - Dropped
  OBVIOUS
<1>3. /\ h \in Pending
      /\ capturedTraffic' = WithLatest(capturedTraffic, r)
      /\ at' = [at EXCEPT ![h] = IF r.kind = "action" THEN "routed" ELSE "away"]
      /\ request' = [request EXCEPT ![h] = None]
      /\ captureSeq' = captureSeq
  BY <1>1 DEF Capture, Pending
<1>4. /\ r \in Captured
      /\ r.id \in OnTheWay /\ r.id \notin Numbers
      /\ OnTheWay' = OnTheWay \ {r.id}
  BY <1>1, <1>2, CaptureMoves
<1>5. /\ n \in Nat /\ Dropped \in {0, 1}
      /\ Dropped = 1 <=> Len(capturedTraffic) = maxCapturedTraffic
      /\ capturedTraffic' \in Seq(Captured) /\ Len(capturedTraffic') = n + 1
      /\ n + 1 <= maxCapturedTraffic
      /\ DOMAIN capturedTraffic' = 1..(n + 1)
      /\ DOMAIN capturedTraffic = 1..(n + Dropped)
      /\ \A i \in 1..n : capturedTraffic'[i] = capturedTraffic[i + Dropped]
      /\ capturedTraffic'[n + 1] = r
  BY <1>2, <1>3, <1>4, WithLatestIs DEF CaptureTyped
<1>6. Pending' = Pending \ {h} /\ \A g \in Pending \ {h} : request'[g] = request[g]
  BY <1>3 DEF CaptureTyped, Pending
<1>7. CaptureTyped'
  <2>1. request'[h] = None
    BY <1>3 DEF CaptureTyped
  <2>2. QED
    BY <1>3, <1>5, <1>6, <2>1 DEF CaptureTyped
<1>8. \A i \in 1..n : i + Dropped \in DOMAIN capturedTraffic
  BY <1>5
<1>9. Numbers' \subseteq Numbers \cup {r.id}
  <2>1. ASSUME NEW i \in 1..(n + 1)
        PROVE  capturedTraffic'[i].id \in Numbers \cup {r.id}
    <3>1. CASE i = n + 1
      BY <1>5, <3>1
    <3>2. CASE i # n + 1
      <4>1. i \in 1..n
        BY <1>5, <3>2
      <4>2. QED
        BY <1>5, <1>8, <4>1 DEF Numbers
    <3>3. QED
      BY <3>1, <3>2
  <2>2. QED
    BY <1>5, <2>1 DEF Numbers
<1>10. NumberedOnce'
  <2>1. \A i \in DOMAIN capturedTraffic' : capturedTraffic'[i].id \in 1..captureSeq
    BY <1>4, <1>9, NumbersBounded DEF Numbers
  <2>2. \A g \in Pending' : request'[g].id \in (1..captureSeq) \ Numbers'
    <3>1. ASSUME NEW g \in Pending \ {h}
          PROVE  request[g].id \in (1..captureSeq) \ (Numbers \cup {r.id})
      BY <1>1, <1>3 DEF NumberedOnce
    <3>2. QED
      BY <1>6, <1>9, <3>1
  <2>3. ASSUME NEW i \in 1..(n + 1), NEW j \in 1..(n + 1),
               capturedTraffic'[i].id = capturedTraffic'[j].id
        PROVE  i = j
    <3>1. ASSUME NEW k \in 1..n
          PROVE  capturedTraffic'[k].id # r.id
      BY <1>4, <1>5, <1>8 DEF Numbers
    <3>2. CASE i = n + 1 \/ j = n + 1
      <4>1. ASSUME NEW k \in 1..(n + 1), k # n + 1
            PROVE  k \in 1..n
        BY <1>5, <4>1
      <4>2. QED
        BY <1>5, <2>3, <3>1, <3>2, <4>1
    <3>3. CASE i # n + 1 /\ j # n + 1
      <4>1. i \in 1..n /\ j \in 1..n
        BY <1>5, <3>3
      <4>2. capturedTraffic[i + Dropped].id = capturedTraffic[j + Dropped].id
        BY <1>5, <2>3, <4>1
      <4>3. i + Dropped = j + Dropped
        BY <1>8, <4>1, <4>2 DEF NumberedOnce
      <4>4. QED
        BY <1>5, <4>1, <4>3
    <3>4. QED
      BY <3>2, <3>3
  <2>4. \A f, g \in Pending' : request'[f].id = request'[g].id => f = g
    BY <1>6 DEF NumberedOnce
  <2>5. QED
    BY <1>3, <1>5, <2>1, <2>2, <2>3, <2>4 DEF NumberedOnce
<1>11. ASSUME NEW i \in DOMAIN capturedTraffic', NEW m, m = capturedTraffic'[i].id
       PROVE  Cardinality(Overtook(m, i)') <= Others
  <2>1. CASE i = n + 1
    BY <1>2, <2>1, CapturedOvertook
  <2>2. CASE i # n + 1
    <3>1. i \in 1..n /\ i \in 0..n
      BY <1>5, <2>2
    <3>2. Overtook(m, i)' = Overtook(m, i + Dropped)
      BY <1>2, <3>1, CaptureKeepsOvertook
    <3>3. m = capturedTraffic[i + Dropped].id
      BY <1>5, <1>11, <3>1
    <3>4. QED
      BY <1>8, <3>1, <3>2, <3>3 DEF FewBehind
  <2>3. QED
    BY <2>1, <2>2
<1>12. ASSUME NEW m \in Lost'
       PROVE  /\ Len(capturedTraffic') = maxCapturedTraffic
              /\ Cardinality(Overtook(m, 0)') <= Others
  <2>1. m \in 1..captureSeq /\ m \notin Numbers' /\ m \notin OnTheWay
    <3>1. r.id \in Numbers'
      <4>1. n + 1 \in DOMAIN capturedTraffic'
        BY <1>5
      <4>2. QED
        BY <1>5, <4>1 DEF Numbers
    <3>2. QED
      BY <1>3, <1>4, <3>1 DEF Lost
  <2>2. Overtook(m, 0)' = Overtook(m, Dropped)
    <3>1. 0 \in 0..n /\ 0 + Dropped = Dropped
      BY <1>5
    <3>2. QED
      BY <1>2, <3>1, CaptureKeepsOvertook
  <2>3. CASE m \in Lost
    <3>1. Dropped = 1 /\ Cardinality(Overtook(m, 0)) <= Others
      BY <1>5, <2>3 DEF FewBehind
    <3>2. Overtook(m, 1) \in SUBSET Overtook(m, 0)
      <4>1. NumbersAfter(1) \subseteq NumbersAfter(0)
        BY DEF NumbersAfter, CaptureTyped
      <4>2. QED
        BY <4>1 DEF Overtook
    <3>3. IsFiniteSet(Overtook(m, 0))
      BY NumbersBounded
    <3>4. /\ IsFiniteSet(Overtook(m, 1))
          /\ Cardinality(Overtook(m, 1)) <= Cardinality(Overtook(m, 0))
      BY <3>2, <3>3, FS_Subset
    <3>5. /\ Cardinality(Overtook(m, 0)) \in Nat /\ Cardinality(Overtook(m, 1)) \in Nat
          /\ Others \in Int
      BY <3>3, <3>4, CircuitBreakerAssumption, FS_CardinalityType DEF Others
    <3>6. Cardinality(Overtook(m, 1)) <= Others
      BY <3>1, <3>4, <3>5
    <3>7. n + 1 = maxCapturedTraffic
      BY <1>2, <1>5, <3>1 DEF CaptureTyped
    <3>8. QED
      BY <1>5, <2>2, <3>1, <3>6, <3>7
  <2>4. CASE m \notin Lost
    <3>1. m \in Numbers
      BY <2>1, <2>4 DEF Lost
    <3>2. PICK j \in 1..(n + Dropped) : m = capturedTraffic[j].id
      BY <1>5, <3>1 DEF Numbers
    <3>3. ~(j > Dropped)
      <4>1. SUFFICES ASSUME j > Dropped PROVE FALSE
        OBVIOUS
      <4>2. j - Dropped \in 1..n /\ (j - Dropped) + Dropped = j
        BY <1>5, <4>1
      <4>3. j - Dropped \in DOMAIN capturedTraffic' /\ capturedTraffic'[j - Dropped].id = m
        BY <1>5, <3>2, <4>2
      <4>4. QED
        BY <2>1, <4>3 DEF Numbers
    <3>4. Dropped = 1 /\ j = 1
      BY <1>5, <3>3
    <3>5. Cardinality(Overtook(m, 1)) <= Others
      BY <1>5, <3>2, <3>4 DEF FewBehind
    <3>6. n + 1 = maxCapturedTraffic
      BY <1>2, <1>5, <3>4 DEF CaptureTyped
    <3>7. QED
      BY <1>5, <2>2, <3>4, <3>5, <3>6
  <2>5. QED
    BY <2>3, <2>4
<1>13. FewBehind'
  BY <1>11, <1>12 DEF FewBehind, Others
<1>14. QED
  BY <1>7, <1>10, <1>13

(***************************************************************************)
(* Every other step leaves the list, the numbers and the handlers that are *)
(* on their way to it alone.                                               *)
(***************************************************************************)
LEMMA OthersKeepCapture ==
    ASSUME CaptureInv, UNCHANGED <<captureSeq, capturedTraffic, request>>,
           at' \in [Callers -> {"away", "numbered", "routed"}],
           \A h \in Callers : at'[h] = "numbered" <=> at[h] = "numbered"
    PROVE  CaptureInv'
<1> USE DEF CaptureInv
<1>1. Pending' = Pending
  BY DEF Pending
<1>2. Numbers' = Numbers /\ OnTheWay' = OnTheWay
  BY <1>1 DEF Numbers, OnTheWay
<1>3. CaptureTyped'
  BY <1>1 DEF CaptureTyped
<1>4. NumberedOnce'
  BY <1>1, <1>2 DEF NumberedOnce
<1>5. \A n, i : Overtook(n, i)' = Overtook(n, i)
  BY <1>2 DEF Overtook, NumbersAfter
<1>6. FewBehind'
  <2>1. \A i \in DOMAIN capturedTraffic' :
           Cardinality(Overtook(capturedTraffic[i].id, i)') <= Others
    BY <1>5 DEF FewBehind
  <2>2. \A n \in Lost' : /\ Len(capturedTraffic') = maxCapturedTraffic
                         /\ Cardinality(Overtook(n, 0)') <= Others
    BY <1>2, <1>5 DEF FewBehind, Lost
  <2>3. QED
    BY <2>1, <2>2 DEF FewBehind, Others
<1>7. QED
  BY <1>3, <1>4, <1>6

-------------------------------------------------------------------------------
(***************************************************************************)
(* actionHandler and the replays keep their types.                         *)
(***************************************************************************)
ServingTyped ==
    /\ faults \in 0..MaxFaults
    /\ \A h \in Callers : pc[h] # "idle" => at[h] = "routed"

ReplaysTyped ==
    /\ todo \in [Replays -> Seq(Captured)]
    /\ awaited \in [Replays -> Callers \cup {None}]

DemoInv == TypeOK /\ CaptureInv /\ ServingTyped /\ ReplaysTyped

(* A call of actionHandler moves its own handler only. *)
LEMMA ActionMovesOne ==
    ASSUME TypeOK, NEW h \in Callers, Step(h) \/ FaultyStep(h)
    PROVE  \A g \in Callers \ {h} : pc'[g] = pc[g]
BY DEF TypeOK, Step, FaultyStep, CheckHandler, CheckFailsOpen, Abandon, Observe,
       ReportSuccess, ReportFailure

(* Its end frees the handler and tells the replay that waits for it. *)
LEMMA ServeActionTyped ==
    ASSUME DemoInv, NEW h \in Callers, ServeAction(h)
    PROVE  CaptureInv' /\ ServingTyped' /\ ReplaysTyped'
<1> USE DEF DemoInv
<1>1. /\ at[h] = "routed"
      /\ Step(h) \/ FaultyStep(h)
      /\ UNCHANGED <<captureVars, request, todo>>
      /\ IF pc'[h] = "idle"
           THEN /\ at' = [at EXCEPT ![h] = "away"]
                /\ awaited' = [p \in Replays |-> IF awaited[p] = h THEN None ELSE awaited[p]]
           ELSE UNCHANGED <<at, awaited>>
  BY DEF ServeAction
<1>2. \A g \in Callers \ {h} : pc'[g] = pc[g]
  BY <1>1, ActionMovesOne
<1>3. at \in [Callers -> {"away", "numbered", "routed"}]
  BY DEF CaptureInv, CaptureTyped
<1>4. CaptureInv'
  BY <1>1, <1>3, OthersKeepCapture DEF captureVars
<1>5. faults' \in 0..MaxFaults
  BY DemoServiceAssumption DEF ServeAction, FaultyStep, ServingTyped
<1>6. \A g \in Callers : pc'[g] # "idle" => at'[g] = "routed"
  BY <1>1, <1>2, <1>3 DEF ServingTyped
<1>7. ReplaysTyped'
  BY <1>1 DEF ReplaysTyped
<1>8. QED
  BY <1>4, <1>5, <1>6, <1>7 DEF ServingTyped

(* The requests of a kind have different numbers and there are finitely many. *)
LEMMA MatchesDistinct ==
    ASSUME CaptureInv, NEW kind
    PROVE  /\ Matches(kind) \in SUBSET Captured
           /\ IsFiniteSet(Matches(kind))
           /\ Distinct(Matches(kind))
<1> DEFINE n == Len(capturedTraffic)
<1>1. /\ n \in Nat /\ DOMAIN capturedTraffic = 1..n
      /\ capturedTraffic \in [1..n -> Captured]
  BY DEF CaptureInv, CaptureTyped
<1>2. Range(capturedTraffic) \in SUBSET Captured
  BY <1>1 DEF Range
<1>3. capturedTraffic \in Surjection(1..n, Range(capturedTraffic))
  BY <1>1 DEF Surjection, Range
<1>4. IsFiniteSet(1..n)
  <2> HIDE DEF n
  <2> QED
    BY <1>1, FS_Interval
<1>5. IsFiniteSet(Range(capturedTraffic))
  BY <1>3, <1>4, FS_Surjection
<1>6. Matches(kind) \in SUBSET Range(capturedTraffic)
  BY DEF Matches
<1>7. Distinct(Range(capturedTraffic))
  BY <1>1 DEF Distinct, Range, CaptureInv, NumberedOnce
<1>8. QED
  BY <1>2, <1>5, <1>6, <1>7, FS_Subset DEF Distinct

(* What a replay selects, whatever the list holds. *)
LEMMA SelectionIs ==
    ASSUME CaptureInv, NEW kind, NEW limit \in ReplayLimits
    PROVE  LET taken == selectCapturedTraffic(kind, limit)
           IN  /\ taken \in Seq(Captured)
               /\ Increasing(taken)
               /\ \A r \in Matches(kind) \ Range(taken) :
                     Len(taken) = limit /\ r.id < taken[1].id
<1> DEFINE q == InOrder(Matches(kind))
<1>1. /\ q \in Seq(Captured)
      /\ Increasing(q)
      /\ Range(q) = Matches(kind)
  BY MatchesDistinct, InOrderIs
<1>2. limit \in Nat \ {0}
  BY DemoServiceAssumption
<1>3. selectCapturedTraffic(kind, limit) = Latest(q, limit)
  BY DEF selectCapturedTraffic
<1>4. QED
  <2> HIDE DEF q
  <2> QED
    BY <1>1, <1>2, <1>3, LatestIs

-------------------------------------------------------------------------------
(* Every step of the demo service keeps its invariant. *)
LEMMA DemoStep == DemoInv /\ [DemoNext]_demoVars => DemoInv'
<1> SUFFICES ASSUME DemoInv, DemoNext \/ UNCHANGED demoVars PROVE DemoInv'
  OBVIOUS
<1> USE DEF DemoInv
<1>1. at \in [Callers -> {"away", "numbered", "routed"}]
  BY DEF CaptureInv, CaptureTyped
<1>2. CASE DemoTick
  <2>1. TypeOK'
    BY <1>2, StepTyped DEF DemoTick, Next
  <2>2. /\ UNCHANGED <<faults, captureSeq, capturedTraffic, at, request, todo, awaited>>
        /\ pc' = pc
    BY <1>2 DEF DemoTick, Tick, captureVars, serverVars, replayVars
  <2>3. CaptureInv'
    BY <1>1, <2>2, OthersKeepCapture
  <2>4. QED
    BY <2>1, <2>2, <2>3 DEF ServingTyped, ReplaysTyped
<1>3. ASSUME NEW h \in Callers, NEW kind \in Kinds, Arrive(h, kind)
      PROVE  DemoInv'
  <2>1. /\ UNCHANGED <<cb, pc, probing, strays, faults, todo, awaited>>
        /\ at[h] = "away" /\ at' = [at EXCEPT ![h] = "numbered"]
    BY <1>3 DEF Arrive, breakerVars, vars, replayVars
  <2>2. CaptureInv'
    BY <1>3, ArriveKeepsCapture
  <2>3. QED
    BY <1>1, <2>1, <2>2 DEF TypeOK, ServingTyped, ReplaysTyped
<1>4. ASSUME NEW h \in Callers, ArriveUncaptured(h)
      PROVE  DemoInv'
  <2>1. /\ UNCHANGED <<cb, pc, probing, strays, faults, todo, awaited>>
        /\ UNCHANGED <<captureSeq, capturedTraffic, request>>
        /\ at[h] = "away" /\ at' = [at EXCEPT ![h] = "routed"]
    BY <1>4 DEF ArriveUncaptured, breakerVars, vars, captureVars, replayVars
  <2>2. CaptureInv'
    BY <1>1, <2>1, OthersKeepCapture
  <2>3. QED
    BY <1>1, <2>1, <2>2 DEF TypeOK, ServingTyped, ReplaysTyped
<1>5. ASSUME NEW h \in Callers, Capture(h)
      PROVE  DemoInv'
  <2>1. /\ UNCHANGED <<cb, pc, probing, strays, faults, todo, awaited>>
        /\ at[h] = "numbered" /\ \A g \in Callers \ {h} : at'[g] = at[g]
    BY <1>1, <1>5 DEF Capture, breakerVars, vars, replayVars
  <2>2. CaptureInv'
    BY <1>5, CaptureKeepsCapture
  <2>3. QED
    BY <1>1, <2>1, <2>2 DEF TypeOK, ServingTyped, ReplaysTyped
<1>6. ASSUME NEW h \in Callers, ServeAction(h)
      PROVE  DemoInv'
  BY <1>6, ServeActionSteps, StepTyped, ServeActionTyped
<1>7. ASSUME NEW p \in Replays, NEW kind \in Kinds, NEW limit \in ReplayLimits,
             StartReplay(p, kind, limit)
      PROVE  DemoInv'
  <2>1. /\ UNCHANGED <<cb, pc, probing, strays, faults>>
        /\ UNCHANGED <<captureSeq, capturedTraffic, request, at, awaited>>
        /\ todo' = [todo EXCEPT ![p] = selectCapturedTraffic(kind, limit)]
    BY <1>7 DEF StartReplay, breakerVars, vars, captureVars, serverVars
  <2>2. selectCapturedTraffic(kind, limit) \in Seq(Captured)
    BY SelectionIs
  <2>3. CaptureInv'
    BY <1>1, <2>1, OthersKeepCapture
  <2>4. QED
    BY <2>1, <2>2, <2>3 DEF TypeOK, ServingTyped, ReplaysTyped
<1>8. ASSUME NEW p \in Replays, NEW h \in Callers, Send(p, h)
      PROVE  DemoInv'
  <2>1. /\ UNCHANGED <<cb, pc, probing, strays, faults>>
        /\ UNCHANGED <<captureSeq, capturedTraffic, request>>
        /\ todo[p] # <<>> /\ todo' = [todo EXCEPT ![p] = Tail(todo[p])]
        /\ at[h] = "away" /\ at' = [at EXCEPT ![h] = "routed"]
        /\ awaited' = [awaited EXCEPT ![p] = h]
    BY <1>8 DEF Send, breakerVars, vars, captureVars
  <2>2. Tail(todo[p]) \in Seq(Captured)
    BY <2>1 DEF ReplaysTyped
  <2>3. CaptureInv'
    BY <1>1, <2>1, OthersKeepCapture
  <2>4. QED
    BY <1>1, <2>1, <2>2, <2>3 DEF TypeOK, ServingTyped, ReplaysTyped
<1>9. ASSUME NEW p \in Replays, SendWithoutEffect(p)
      PROVE  DemoInv'
  <2>1. /\ UNCHANGED <<cb, pc, probing, strays, faults>>
        /\ UNCHANGED <<captureSeq, capturedTraffic, request, at, awaited>>
        /\ todo[p] # <<>> /\ todo' = [todo EXCEPT ![p] = Tail(todo[p])]
    BY <1>9 DEF SendWithoutEffect, breakerVars, vars, captureVars, serverVars
  <2>2. Tail(todo[p]) \in Seq(Captured)
    BY <2>1 DEF ReplaysTyped
  <2>3. CaptureInv'
    BY <1>1, <2>1, OthersKeepCapture
  <2>4. QED
    BY <2>1, <2>2, <2>3 DEF TypeOK, ServingTyped, ReplaysTyped
<1>10. ASSUME NEW p \in Replays, Timeout(p)
       PROVE  DemoInv'
  <2>1. /\ UNCHANGED <<cb, pc, probing, strays, faults>>
        /\ UNCHANGED <<captureSeq, capturedTraffic, request, at, todo>>
        /\ awaited' = [awaited EXCEPT ![p] = None]
    BY <1>10 DEF Timeout, breakerVars, vars, captureVars, serverVars
  <2>2. CaptureInv'
    BY <1>1, <2>1, OthersKeepCapture
  <2>3. QED
    BY <2>1, <2>2 DEF TypeOK, ServingTyped, ReplaysTyped
<1>11. CASE UNCHANGED demoVars
  <2>1. /\ UNCHANGED <<cb, pc, probing, strays, faults, todo, awaited>>
        /\ UNCHANGED <<captureSeq, capturedTraffic, request, at>>
    BY <1>11 DEF demoVars, breakerVars, vars, captureVars, serverVars, replayVars
  <2>2. CaptureInv'
    BY <1>1, <2>1, OthersKeepCapture
  <2>3. QED
    BY <2>1, <2>2 DEF TypeOK, ServingTyped, ReplaysTyped
<1>12. QED
  BY <1>2, <1>3, <1>4, <1>5, <1>6, <1>7, <1>8, <1>9, <1>10, <1>11 DEF DemoNext

(* It holds at first: nothing has arrived and nothing is lost. *)
LEMMA DemoStart == DemoInit => DemoInv
<1> SUFFICES ASSUME DemoInit PROVE DemoInv
  OBVIOUS
<1> USE DEF DemoInit
<1>1. TypeOK
  BY StartTyped
<1>2. Pending = {}
  BY DEF Pending
<1>3. CaptureTyped
  BY <1>2, DemoServiceAssumption DEF CaptureTyped
<1>4. NumberedOnce
  BY <1>2 DEF NumberedOnce
<1>5. FewBehind
  BY DEF FewBehind, Lost
<1>6. ServingTyped
  BY DemoServiceAssumption DEF ServingTyped, Init
<1>7. ReplaysTyped
  BY DEF ReplaysTyped
<1>8. QED
  BY <1>1, <1>3, <1>4, <1>5, <1>6, <1>7 DEF DemoInv, CaptureInv

(* The inductive invariant. *)
LEMMA DemoInvariance == DemoSpec => []DemoInv
BY DemoStart, DemoStep, PTL DEF DemoSpec

-------------------------------------------------------------------------------
(***************************************************************************)
(* The list never outgrows its bound, every number is in it or on its way  *)
(* to it once, and a handler the breaker counts on is at work.             *)
(***************************************************************************)
THEOREM DemoTypeCorrect == DemoSpec => []DemoTypeOK
<1>1. DemoInv => DemoTypeOK
  <2> SUFFICES ASSUME DemoInv PROVE DemoTypeOK
    OBVIOUS
  <2> USE DEF DemoInv, CaptureInv
  <2>1. Cardinality(Numbers) = Len(capturedTraffic)
    BY NumbersCounted
  <2>2. QED
    BY <2>1 DEF DemoTypeOK, CaptureTyped, NumberedOnce, ServingTyped, ReplaysTyped
<1>2. QED
  BY <1>1, DemoInvariance, PTL

(***************************************************************************)
(* Whatever order concurrent handlers capture their requests in, a request *)
(* that left the list made room for later ones, one per other handler      *)
(* excepted.                                                               *)
(***************************************************************************)
THEOREM LostSafe == DemoSpec => []LostAreOld
<1>1. DemoInv => LostAreOld
  <2> SUFFICES ASSUME DemoInv,
                      NEW n \in (1..captureSeq) \ (Numbers \cup {request[h].id : h \in Pending})
               PROVE  Cardinality({m \in Numbers : m > n})
                          >= maxCapturedTraffic - (Cardinality(Callers) - 1)
    BY DEF LostAreOld
  <2> USE DEF DemoInv, CaptureInv
  <2> DEFINE later == {m \in Numbers : m > n}
             earlier == {m \in Numbers : m < n}
  <2>1. n \in Lost
    BY DEF Lost, OnTheWay
  <2>2. /\ Cardinality(Numbers) = maxCapturedTraffic
        /\ IsFiniteSet(Numbers)
        /\ Cardinality(Overtook(n, 0)) <= Others
    BY <2>1, NumbersCounted DEF FewBehind
  <2>3. earlier \in SUBSET Overtook(n, 0)
    BY NumbersBounded DEF Overtook
  <2>4. /\ later \in SUBSET Numbers /\ earlier \in SUBSET Numbers
        /\ later \cap earlier = {}
        /\ later \cup earlier = Numbers
    BY <2>1, NumbersBounded DEF Lost
  <2> HIDE DEF later, earlier
  <2>5. IsFiniteSet(Overtook(n, 0))
    BY NumbersBounded
  <2>6. /\ IsFiniteSet(later) /\ IsFiniteSet(earlier)
        /\ Cardinality(earlier) <= Cardinality(Overtook(n, 0))
    BY <2>2, <2>3, <2>4, <2>5, FS_Subset
  <2>7. Cardinality(Numbers) = Cardinality(later) + Cardinality(earlier) - Cardinality({})
    BY <2>4, <2>6, FS_Union
  <2>8. Cardinality({}) = 0
    BY FS_EmptySet
  <2>9. /\ Cardinality(later) \in Nat /\ Cardinality(earlier) \in Nat
        /\ Cardinality(Overtook(n, 0)) \in Nat /\ Cardinality(Callers) \in Nat
    BY <2>5, <2>6, CircuitBreakerAssumption, FS_CardinalityType
  <2>10. Cardinality(later) >= maxCapturedTraffic - (Cardinality(Callers) - 1)
    BY <2>2, <2>6, <2>7, <2>8, <2>9, DemoServiceAssumption DEF Others
  <2>11. QED
    BY <2>10 DEF later
<1>2. QED
  BY <1>1, DemoInvariance, PTL

(***************************************************************************)
(* A replay takes the latest matching requests in the order of arrival.    *)
(***************************************************************************)
THEOREM ReplaysSafe == DemoSpec => ReplaysLatestInOrder
<1> DEFINE Chosen ==
        \A p \in Replays, kind \in Kinds, limit \in ReplayLimits :
            StartReplay(p, kind, limit) =>
                LET taken == todo'[p]
                IN  /\ \A i, j \in DOMAIN taken : i < j => taken[i].id < taken[j].id
                    /\ \A r \in Matches(kind) \ Range(taken) :
                          Len(taken) = limit /\ r.id < taken[1].id
<1>1. DemoInv /\ [DemoNext]_demoVars => Chosen
  <2> SUFFICES ASSUME DemoInv, NEW p \in Replays, NEW kind \in Kinds,
                      NEW limit \in ReplayLimits, StartReplay(p, kind, limit)
               PROVE  /\ \A i, j \in DOMAIN todo'[p] :
                            i < j => todo'[p][i].id < todo'[p][j].id
                      /\ \A r \in Matches(kind) \ Range(todo'[p]) :
                            Len(todo'[p]) = limit /\ r.id < todo'[p][1].id
    OBVIOUS
  <2>1. todo'[p] = selectCapturedTraffic(kind, limit)
    BY DEF StartReplay, DemoInv, ReplaysTyped
  <2>2. QED
    BY <2>1, SelectionIs DEF Increasing, DemoInv
<1>2. QED
  BY <1>1, DemoInvariance, PTL DEF DemoSpec, ReplaysLatestInOrder
==============================================================================
