--------------------------- MODULE MCBreakerReplicas ---------------------------
(***************************************************************************)
(* Instances of BreakerReplicas for TLC: two replicas whose only client is *)
(* sometimes the operator, one replica on which a caller and an operator   *)
(* race, and one replica without operators whose breaker may be tripped    *)
(* and whose probe may then be abandoned.  One unit of time is the whole   *)
(* open period.                                                            *)
(***************************************************************************)
EXTENDS BreakerReplicas

CONSTANTS r1, r2, c1, o1

MCReplicas == {r1, r2}
MCCallers == {c1}
MCOperators == {c1, o1}
MCNobody == {}
MCForcedStates == {"open"}

MCDeployments ==
    {[replicas |-> {r1, r2}, operators |-> {c1}, faults |-> 1],
     [replicas |-> {r1}, operators |-> {o1}, faults |-> 1],
     [replicas |-> {r1}, operators |-> {}, faults |-> 2]}
===============================================================================
