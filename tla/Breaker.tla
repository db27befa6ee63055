------------------------------- MODULE Breaker -------------------------------
(***************************************************************************)
(* The CircuitBreaker type of control-plane/ratelimit.go as operators on a *)
(* record.  Every operator is the body of one method, which runs under the *)
(* breaker's mutex and is therefore one atomic step; Observe is the one    *)
(* method that takes the mutex twice, so it is two operators.              *)
(*                                                                         *)
(* Three pieces of data are abstracted.  A threshold is a percentage, so   *)
(* the float comparison failures/total >= ErrorThreshold becomes an        *)
(* integer one.  The time of the last transition is kept as its age, which *)
(* saturates at OpenDuration because the code compares it with nothing     *)
(* else.  LatencyMs is only ever displayed and is left out.                *)
(*                                                                         *)
(* A definition marked "faulty" is a plausible bug in the definition after *)
(* it.  No specification uses it; it shows that the properties would fail. *)
(***************************************************************************)
EXTENDS Integers

CONSTANTS
    OpenDuration,      \* time units a breaker stays open (10 s in the code)
    ForcedStates,      \* state labels operators send to SetState: any string
    ErrorThresholds,   \* percentages operators may set
    LatencyThresholds  \* latency limits operators may set

DefaultErrorThreshold == 50
DefaultLatencyThreshold == 250

ASSUME BreakerAssumption ==
    /\ OpenDuration \in Nat \ {0}
    /\ ForcedStates \subseteq STRING
    /\ ErrorThresholds \subseteq Nat \ {0}
    /\ LatencyThresholds \subseteq Nat \ {0}

States == {"closed", "open", "half-open"} \cup ForcedStates

BreakerType ==
    [ State : States,
      ErrorThreshold : ErrorThresholds \cup {DefaultErrorThreshold},
      LatencyThresholdMs : LatencyThresholds \cup {DefaultLatencyThreshold},
      successes : Nat,
      failures : Nat,
      age : 0..OpenDuration,
      probeInFlight : BOOLEAN ]

NewCircuitBreaker ==
    [ State |-> "closed",
      ErrorThreshold |-> DefaultErrorThreshold,
      LatencyThresholdMs |-> DefaultLatencyThreshold,
      successes |-> 0,
      failures |-> 0,
      age |-> 0,
      probeInFlight |-> FALSE ]

(***************************************************************************)
(* Time passes for a breaker.                                              *)
(***************************************************************************)
Older(cb) == [cb EXCEPT !.age = IF @ < OpenDuration THEN @ + 1 ELSE @]

(***************************************************************************)
(* SetState: the operator's override, and the effect of every transition   *)
(* out of a counting window.  It starts a new one.                         *)
(***************************************************************************)
SetState(cb, state) ==
    [cb EXCEPT !.State = state, !.successes = 0, !.failures = 0,
               !.probeInFlight = FALSE, !.age = 0]

(***************************************************************************)
(* refreshStateLocked: an open breaker whose time is up becomes half-open. *)
(***************************************************************************)
ExpiredTooLate(cb) == cb.State = "open" /\ cb.age > OpenDuration  \* faulty

Expired(cb) == cb.State = "open" /\ cb.age >= OpenDuration

refreshState(cb) ==
    IF Expired(cb)
      THEN [cb EXCEPT !.State = "half-open", !.probeInFlight = FALSE, !.age = 0]
      ELSE cb

(***************************************************************************)
(* Check: the answer given to the caller, and the breaker it leaves.  Any  *)
(* label other than "open" and "half-open" admits.                         *)
(***************************************************************************)
Admits(cb) ==
    LET now == refreshState(cb)
    IN  /\ now.State # "open"
        /\ now.State = "half-open" => ~now.probeInFlight

CheckForgetsProbe(cb) == refreshState(cb)  \* faulty

Check(cb) ==
    LET now == refreshState(cb)
    IN  IF now.State = "half-open" /\ Admits(cb)
          THEN [now EXCEPT !.probeInFlight = TRUE]
          ELSE now

(***************************************************************************)
(* Observe, first critical section: the verdict on a report.               *)
(***************************************************************************)
ObservedSuccess(cb, success, latency) ==
    success /\ ~(cb.LatencyThresholdMs > 0 /\ latency > cb.LatencyThresholdMs)

(***************************************************************************)
(* Observe, second critical section.  RecordSuccess in the half-open state *)
(* closes the breaker, whoever reports.                                    *)
(***************************************************************************)
RecordSuccessClosesAny(cb) == SetState(cb, "closed")  \* faulty

RecordSuccessKeepsProbe(cb) ==  \* faulty
    IF cb.State = "half-open"
      THEN [cb EXCEPT !.State = "closed", !.successes = 0, !.failures = 0, !.age = 0]
      ELSE [cb EXCEPT !.successes = @ + 1]

RecordSuccess(cb) ==
    IF cb.State = "half-open"
      THEN SetState(cb, "closed")
      ELSE [cb EXCEPT !.successes = @ + 1, !.probeInFlight = FALSE]

(***************************************************************************)
(* RecordFailure trips in every state, the open one included, as soon as   *)
(* the window's failures reach the threshold.                              *)
(***************************************************************************)
TripsTooLate(cb) ==  \* faulty
    (cb.failures + 1) * 100 > cb.ErrorThreshold * (cb.successes + cb.failures + 1)

Trips(cb) ==
    (cb.failures + 1) * 100 >= cb.ErrorThreshold * (cb.successes + cb.failures + 1)

RecordFailureKeepsProbe(cb) ==  \* faulty
    IF Trips(cb)
      THEN [SetState(cb, "open") EXCEPT !.probeInFlight = cb.probeInFlight]
      ELSE [cb EXCEPT !.failures = @ + 1]

RecordFailure(cb) ==
    IF Trips(cb)
      THEN SetState(cb, "open")
      ELSE [cb EXCEPT !.failures = @ + 1, !.probeInFlight = FALSE]
===============================================================================
