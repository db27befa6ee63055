---------------------------- MODULE MCConfigStore ----------------------------
(***************************************************************************)
(* Instances of ConfigStore for TLC: two keys that are set and deleted, so *)
(* that two writers can each leave a change the other's snapshot lacks.    *)
(***************************************************************************)
EXTENDS ConfigStore

CONSTANTS w1, w2, k1, k2, v1

MCTwoWriters == {w1, w2}
MCKeys == {k1, k2}
MCValues == {v1}
===============================================================================
