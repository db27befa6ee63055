---------------------------- MODULE MCFlagReplicas ----------------------------
(***************************************************************************)
(* An instance of FlagReplicas for TLC: two replicas, as deploy/k8s.yaml   *)
(* runs, and two flags, so that a round can meet writes to keys it has     *)
(* read and to keys it has not.  POST /config stores garbage, or a second  *)
(* definition of the first flag, under either key.                         *)
(***************************************************************************)
EXTENDS FlagReplicas

CONSTANTS r1, r2, h1, h2, n1, n2, v1, v2

MCReplicas == {r1, r2}
MCHandlers == {h1, h2}
MCNames == {n1, n2}
MCValues == {v1, v2}
MCSent == {v1}
MCPosted == {Garbage, Flag(n1, v2)}
===============================================================================
