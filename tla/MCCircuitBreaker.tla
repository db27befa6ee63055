--------------------------- MODULE MCCircuitBreaker ---------------------------
(***************************************************************************)
(* Instances of CircuitBreaker for TLC.  The label "paused" stands for any *)
(* string an operator may send that the breaker does not know.             *)
(***************************************************************************)
EXTENDS CircuitBreaker, TLC

CONSTANTS c1, c2, c3, c4

MCThreeCallers == {c1, c2, c3}
MCFourCallers == {c1, c2, c3, c4}

MCForcedStates == {"closed", "open", "half-open", "paused"}
MCNoForcedStates == {}

MCErrorThresholds == {60}
MCLatencyThresholds == {100}
MCNoThresholds == {}

\* 200 ms is over the operator's latency limit and under the default one.
MCLatencies == {200}

Symmetry == Permutations(Callers)
===============================================================================
