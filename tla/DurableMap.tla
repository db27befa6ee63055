----------------------------- MODULE DurableMap -----------------------------
(***************************************************************************)
(* What the file-backed configuration store promises, without files,       *)
(* locks or writers: a map in memory, and the map a restart would bring    *)
(* back.  Writes change the first at once.  The second is replaced only by *)
(* whole snapshots of the first, taken earlier, in any order, and may be   *)
(* empty whenever a save is under way.                                     *)
(***************************************************************************)
CONSTANTS Keys, Values, None

Maps == [Keys -> Values \cup {None}]
Empty == [k \in Keys |-> None]

VARIABLES
    data,    \* the map in memory
    saved,   \* the map a restart would load
    pending  \* snapshots on their way to the file

vars == <<data, saved, pending>>

Init ==
    /\ data = Empty
    /\ saved = Empty
    /\ pending = {}

Write ==
    /\ \E k \in Keys, v \in Values \cup {None} : data' = [data EXCEPT ![k] = v]
    /\ UNCHANGED <<saved, pending>>

Snapshot ==
    /\ pending' = pending \cup {data}
    /\ UNCHANGED <<data, saved>>

\* A save empties what was there before it writes.
Open ==
    /\ pending # {}
    /\ saved' = Empty
    /\ UNCHANGED <<data, pending>>

Save ==
    \E m \in pending :
        /\ saved' = m
        /\ pending' \in {pending, pending \ {m}}
        /\ UNCHANGED data

GiveUp ==
    \E m \in pending :
        /\ pending' = pending \ {m}
        /\ UNCHANGED <<data, saved>>

Restart ==
    /\ data' = saved
    /\ pending' = {}
    /\ UNCHANGED saved

Next == Write \/ Snapshot \/ Open \/ Save \/ GiveUp \/ Restart

Spec == Init /\ [][Next]_vars
===============================================================================
