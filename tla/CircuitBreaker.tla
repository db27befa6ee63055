---------------------------- MODULE CircuitBreaker ----------------------------
(***************************************************************************)
(* One CircuitBreaker object of the control plane and the callers that     *)
(* consult it: the check and report endpoints (control-plane/main.go) and  *)
(* the caller's side of the protocol, actionHandler of the demo service,   *)
(* which checks, may be refused by the rate limiter, works, and reports.   *)
(*                                                                         *)
(* The step is the critical section.  A report takes the breaker's mutex   *)
(* twice (Observe, then RecordSuccess or RecordFailure), so other callers, *)
(* the clock and the operator run in between.                              *)
(*                                                                         *)
(* probing and strays are auxiliary: they record who was admitted as the   *)
(* probe of the current half-open period, and how many reports arrived in  *)
(* that period from anybody else.                                          *)
(***************************************************************************)
EXTENDS Breaker, FiniteSets

CONSTANTS
    Callers,     \* requests that may be in flight at once
    Latencies,   \* latencies a caller may report
    MayFailOpen, \* callers may go ahead when the check has no answer
    MayAbandon,  \* callers may stop without their report being recorded
    MaxWindow    \* bound on the outcomes a window may count

ASSUME CircuitBreakerAssumption ==
    /\ IsFiniteSet(Callers)
    /\ Latencies \subseteq Nat
    /\ MayFailOpen \in BOOLEAN
    /\ MayAbandon \in BOOLEAN
    /\ MaxWindow \in Nat

VARIABLES
    cb,       \* the breaker
    pc,       \* where each caller is: idle, working, succeeded or failed
    probing,  \* probes of this half-open period not yet reported or given up
    strays    \* reports by others in this half-open period

vars == <<cb, pc, probing, strays>>

Init ==
    /\ cb = NewCircuitBreaker
    /\ pc = [c \in Callers |-> "idle"]
    /\ probing = {}
    /\ strays = 0

-------------------------------------------------------------------------------
Tick ==
    /\ cb' = Older(cb)
    /\ cb' # cb
    /\ UNCHANGED <<pc, probing, strays>>

(***************************************************************************)
(* The check endpoint, reached by caller c: Check runs, and c is a probe   *)
(* when it was let into a half-open breaker.                               *)
(***************************************************************************)
Consult(c) ==
    LET halfOpen == cb'.State = "half-open"
        earlier  == IF Expired(cb) THEN {} ELSE probing
    IN  /\ cb' = Check(cb)
        /\ probing' = IF Admits(cb) /\ halfOpen THEN earlier \cup {c} ELSE earlier
        /\ strays' = IF Expired(cb) THEN 0 ELSE strays

CheckHandler(c) ==
    /\ pc[c] = "idle"
    /\ Consult(c)
    /\ pc' = [pc EXCEPT ![c] = IF Admits(cb) THEN "working" ELSE "idle"]

(***************************************************************************)
(* The answer to a check is lost and the caller goes ahead regardless.     *)
(* The control plane may or may not have served the request.               *)
(***************************************************************************)
CheckFailsOpen(c) ==
    /\ MayFailOpen
    /\ pc[c] = "idle"
    /\ pc' = [pc EXCEPT ![c] = "working"]
    /\ Consult(c) \/ UNCHANGED <<cb, probing, strays>>

(***************************************************************************)
(* An admitted caller is refused by the rate limiter and returns 429, or   *)
(* its report never reaches the control plane.  No outcome is recorded.    *)
(***************************************************************************)
Abandon(c) ==
    /\ MayAbandon
    /\ pc[c] = "working"
    /\ pc' = [pc EXCEPT ![c] = "idle"]
    /\ probing' = probing \ {c}
    /\ UNCHANGED <<cb, strays>>

(***************************************************************************)
(* The report endpoint, first critical section of Observe: the verdict.    *)
(***************************************************************************)
Observe(c) ==
    /\ pc[c] = "working"
    /\ \E success \in BOOLEAN, latency \in Latencies :
          pc' = [pc EXCEPT ![c] = IF ObservedSuccess(cb, success, latency)
                                    THEN "succeeded" ELSE "failed"]
    /\ UNCHANGED <<cb, probing, strays>>

(***************************************************************************)
(* What a recorded outcome does to the auxiliary variables: the half-open  *)
(* period ends, or goes on with one report more.                           *)
(***************************************************************************)
CountReport(c) ==
    LET goesOn == cb.State = "half-open" /\ cb'.State = "half-open"
    IN  /\ probing' = IF goesOn THEN probing \ {c} ELSE {}
        /\ strays' = IF ~goesOn THEN 0
                     ELSE IF c \in probing THEN strays ELSE strays + 1

WindowHasRoom == cb.successes + cb.failures < MaxWindow

ReportSuccess(c) ==
    /\ pc[c] = "succeeded"
    /\ cb.State = "half-open" \/ WindowHasRoom
    /\ cb' = RecordSuccess(cb)
    /\ pc' = [pc EXCEPT ![c] = "idle"]
    /\ CountReport(c)

ReportFailure(c) ==
    /\ pc[c] = "failed"
    /\ Trips(cb) \/ WindowHasRoom
    /\ cb' = RecordFailure(cb)
    /\ pc' = [pc EXCEPT ![c] = "idle"]
    /\ CountReport(c)

(***************************************************************************)
(* The operator's endpoint.  Its two effects are separate critical         *)
(* sections, and a request may carry either part or both.  A threshold it  *)
(* leaves out is 0 in the decoded body and changes nothing.                *)
(***************************************************************************)
ForceState(state) ==
    /\ cb' = SetState(cb, state)
    /\ probing' = {}
    /\ strays' = 0
    /\ UNCHANGED pc

SetThresholdsUnchecked ==  \* faulty
    /\ \E t \in ErrorThresholds \cup {0}, l \in LatencyThresholds \cup {0} :
          cb' = [cb EXCEPT !.ErrorThreshold = t, !.LatencyThresholdMs = l]
    /\ UNCHANGED <<pc, probing, strays>>

SetThresholds ==
    /\ \/ \E t \in ErrorThresholds : cb' = [cb EXCEPT !.ErrorThreshold = t]
       \/ \E l \in LatencyThresholds : cb' = [cb EXCEPT !.LatencyThresholdMs = l]
       \/ \E t \in ErrorThresholds, l \in LatencyThresholds :
             cb' = [cb EXCEPT !.ErrorThreshold = t, !.LatencyThresholdMs = l]
    /\ UNCHANGED <<pc, probing, strays>>

-------------------------------------------------------------------------------
Next ==
    \/ Tick
    \/ \E c \in Callers :
          \/ CheckHandler(c)
          \/ CheckFailsOpen(c)
          \/ Abandon(c)
          \/ Observe(c)
          \/ ReportSuccess(c)
          \/ ReportFailure(c)
    \/ \E state \in ForcedStates : ForceState(state)
    \/ SetThresholds

Spec == Init /\ [][Next]_vars

-------------------------------------------------------------------------------
(***************************************************************************)
(* The type invariant: the breaker is well formed, an operator's label is  *)
(* the only other state, and the age of a transition never runs past the   *)
(* open duration.                                                          *)
(***************************************************************************)
TypeOK ==
    /\ cb \in BreakerType
    /\ pc \in [Callers -> {"idle", "working", "succeeded", "failed"}]
    /\ probing \subseteq Callers
    /\ strays \in Nat

(***************************************************************************)
(* A claimed probe exists only in the half-open state.  Were the flag to   *)
(* survive a transition, the next half-open period would start with its    *)
(* probe already taken and refuse everybody: Check, RecordSuccess,         *)
(* RecordFailure, SetState and the refresh must all cooperate.             *)
(***************************************************************************)
ProbeFlagOnlyHalfOpen == cb.probeInFlight => cb.State = "half-open"

(***************************************************************************)
(* Whatever the interleaving of reports, clock and operator, a window that *)
(* retains failures is below some threshold that was in force: failures    *)
(* recorded while open or half-open by callers admitted earlier never      *)
(* accumulate past it.  With the default threshold it says that a window   *)
(* keeps a failure only while successes outnumber failures.                *)
(***************************************************************************)
FailureRatioBounded ==
    cb.failures > 0 =>
        \E t \in ErrorThresholds \cup {DefaultErrorThreshold} :
            cb.failures * 100 < t * (cb.successes + cb.failures)

(***************************************************************************)
(* The exact strength of the single-probe rule.  In one half-open period   *)
(* the probes in flight never outnumber the claimed flag plus the reports  *)
(* that came from callers that were not the probe: each such report clears *)
(* the flag on behalf of somebody else and lets one more caller in.        *)
(***************************************************************************)
ProbesAccounted ==
    Cardinality(probing) <= strays + (IF cb.probeInFlight THEN 1 ELSE 0)

(***************************************************************************)
(* An open breaker is left in two ways only: to half-open, by a check made *)
(* after the open duration, or by the operator.  A success reported late,  *)
(* by a caller admitted before the trip, does not close it.                *)
(***************************************************************************)
LeavesOpen ==
    \/ cb.age = OpenDuration /\ cb'.State = "half-open"
    \/ \E state \in ForcedStates : ForceState(state)

OpenHolds == [][(cb.State = "open" /\ cb'.State # "open") => LeavesOpen]_vars

(***************************************************************************)
(* The rule docs/api.md states: while the breaker is half-open at most one *)
(* probe is in flight.                                                     *)
(***************************************************************************)
SingleProbe == Cardinality(probing) <= 1
===============================================================================
