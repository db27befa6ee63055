------------------------------ MODULE Metrics ------------------------------
(***************************************************************************)
(* Counters and histograms with labels (control-plane/metrics.go).  A      *)
(* sync.Map holds one entry for each set of label values that was used:    *)
(* here a function whose domain are the entries present.                   *)
(*                                                                         *)
(* A definition marked "faulty" is a plausible bug in the one after it and *)
(* is not used.                                                            *)
(***************************************************************************)
EXTENDS Integers, Sequences

CONSTANT Bounds  \* the upper bounds of a histogram's buckets

ASSUME MetricsAssumption ==
    /\ Bounds \in Seq(Nat)
    /\ \A i, j \in 1 .. Len(Bounds) : i <= j => Bounds[i] <= Bounds[j]

(* the last bucket has no bound                                            *)
Buckets == 1 .. Len(Bounds) + 1

Histograms == [counts : [Buckets -> Nat], sum : Nat, total : Nat]

NewHistogram == [counts |-> [i \in Buckets |-> 0], sum |-> 0, total |-> 0]

Holds(i, v) == i = Len(Bounds) + 1 \/ v <= Bounds[i]

ObserveInOneBucket(h, v) ==  \* faulty
    [counts |-> [i \in Buckets |->
                    IF Holds(i, v) /\ \A j \in 1 .. i - 1 : ~ Holds(j, v)
                    THEN h.counts[i] + 1 ELSE h.counts[i]],
     sum    |-> h.sum + v,
     total  |-> h.total + 1]

(***************************************************************************)
(* labelHistogram.Observe, under the entry's mutex: buckets are            *)
(* cumulative.                                                             *)
(***************************************************************************)
Observe(h, v) ==
    [counts |-> [i \in Buckets |->
                    IF Holds(i, v) THEN h.counts[i] + 1 ELSE h.counts[i]],
     sum    |-> h.sum + v,
     total  |-> h.total + 1]

StoreAlways(registry, series, new) ==  \* faulty
    [s \in DOMAIN registry \cup {series} |-> IF s # series THEN registry[s] ELSE new]

LoadOnly(registry, series, new) == registry  \* faulty

(***************************************************************************)
(* sync.Map.LoadOrStore: an entry that is present stays.                   *)
(***************************************************************************)
LoadOrStore(registry, series, new) ==
    [s \in DOMAIN registry \cup {series} |->
        IF s \in DOMAIN registry THEN registry[s] ELSE new]

Cumulative(h) ==
    /\ \A i, j \in Buckets : i <= j => h.counts[i] <= h.counts[j]
    /\ h.counts[Len(Bounds) + 1] = h.total
===============================================================================
