--------------------------- MODULE BreakerReplicas ---------------------------
(***************************************************************************)
(* The circuit breaker of one route on several control-plane replicas over *)
(* a shared store (control-plane/main.go), or on one replica over its file.*)
(*                                                                         *)
(* A check, report or operator request gets a pointer to the replica's     *)
(* breaker object, runs one of its methods, marshals the object without    *)
(* its mutex, and stores the text.  Every two seconds loadFromStore reads  *)
(* the stored text and replaces the object by a new one: requests that are *)
(* under way keep the old one, and counters and the probe flag, which are  *)
(* not stored, start again.                                                *)
(*                                                                         *)
(* Thresholds are configuration and keep their defaults.  Observe's        *)
(* verdict is the report's own; CircuitBreaker has its two critical        *)
(* sections.  alone, clean and synced are auxiliary.  A definition marked  *)
(* "faulty" is a plausible bug in the one after it and is not used.        *)
(***************************************************************************)
EXTENDS Breaker, FiniteSets

CONSTANTS
    Replicas,
    Callers,     \* requests that may check, work and report
    Operators,   \* requests that may force a state
    None,        \* marks an absent object or record, and nobody
    MaxWindow,   \* bound on the successes a window counts
    Deployments  \* the replicas that run, the operators that use them, and
                 \* the bound on failed work, lost reports, store errors,
                 \* overrides and restarts

Requests == Callers \cup Operators

(***************************************************************************)
(* A label that was read while it changed is none of the known ones.       *)
(***************************************************************************)
Labels == States \cup {"torn"}

Records == [State : Labels, age : 0..OpenDuration]

Breakers ==
    [ State : Labels,
      ErrorThreshold : {DefaultErrorThreshold},
      LatencyThresholdMs : {DefaultLatencyThreshold},
      successes : Nat,
      failures : Nat,
      age : 0..OpenDuration,
      probeInFlight : BOOLEAN ]

ASSUME BreakerReplicasAssumption ==
    /\ IsFiniteSet(Requests)
    /\ Replicas \cap Requests = {}
    /\ None \notin Replicas \cup Requests \cup Records \cup Breakers
    /\ MaxWindow \in Nat
    /\ Deployments \subseteq
         [replicas : SUBSET Replicas, operators : SUBSET Operators, faults : Nat]

(***************************************************************************)
(* The object in a replica's map has the name of the replica.  One that    *)
(* was replaced while requests hold a pointer to it gets the name of a     *)
(* request, of which there are enough.                                     *)
(***************************************************************************)
Objects == Replicas \cup Requests

VARIABLES
    objs,     \* the breaker objects, None where there is none
    store,    \* the stored State and age of the last transition, or None
    pc,       \* the step each request is at
    at,       \* the replica serving it
    ptr,      \* the object it holds a pointer to
    admitted, \* whether its check let it through
    snap,     \* what it has marshalled so far
    round,    \* replicas that have read the store and not yet replaced theirs
    got,      \* what they read
    deployed, \* the deployment, which does not change
    faults,   \* faults so far
    alone,    \* the request that has met no other, and no round of its replica
    clean,    \* replicas whose round has met no request
    synced    \* replicas served by a lone request or a clean round since then

requestVars == <<pc, at, ptr, admitted, snap>>
roundVars == <<round, got>>
auxVars == <<alone, clean, synced>>
vars == <<objs, store, pc, at, ptr, admitted, snap, round, got, deployed, faults,
          alone, clean, synced>>

Steps == {"idle", "working", "check", "report", "force", "marshal", "labelled", "store"}

Init ==
    /\ objs = [i \in Objects |-> None]
    /\ store = None
    /\ pc = [c \in Requests |-> "idle"]
    /\ at = [c \in Requests |-> None]
    /\ ptr = [c \in Requests |-> None]
    /\ admitted = [c \in Requests |-> FALSE]
    /\ snap = [c \in Requests |-> None]
    /\ round = {}
    /\ got = [r \in Replicas |-> None]
    /\ deployed \in Deployments
    /\ faults = 0
    /\ alone = None
    /\ clean = {}
    /\ synced = Replicas

Fault ==
    /\ faults < deployed.faults
    /\ faults' = faults + 1

-------------------------------------------------------------------------------
Serving(c) == pc[c] \notin {"idle", "working"}

NobodyServed == \A c \in Requests : ~Serving(c)

-------------------------------------------------------------------------------
(***************************************************************************)
(* Time: every copy of a transition's time grows older together.           *)
(***************************************************************************)
Aged(p) == IF p = None THEN None
           ELSE [p EXCEPT !.age = IF @ < OpenDuration THEN @ + 1 ELSE @]

Tick ==
    /\ objs' = [i \in Objects |-> Aged(objs[i])]
    /\ store' = Aged(store)
    /\ snap' = [c \in Requests |-> Aged(snap[c])]
    /\ got' = [r \in Replicas |-> Aged(got[r])]
    /\ <<objs, store, snap, got>>' # <<objs, store, snap, got>>
    /\ UNCHANGED <<deployed, pc, at, ptr, admitted, round, faults, auxVars>>

(***************************************************************************)
(* ensureCircuitBreaker at replica r, for a request that goes on with the  *)
(* given step.                                                             *)
(***************************************************************************)
Arrive(c, r, step) ==
    /\ objs' = [objs EXCEPT ![r] = IF @ = None THEN NewCircuitBreaker ELSE @]
    /\ ptr' = [ptr EXCEPT ![c] = r]
    /\ at' = [at EXCEPT ![c] = r]
    /\ pc' = [pc EXCEPT ![c] = step]
    /\ alone' = IF NobodyServed /\ r \notin round THEN c ELSE None
    /\ clean' = {}
    /\ synced' = {}
    /\ UNCHANGED <<deployed, store, admitted, snap, roundVars>>

ArriveCheck(c, r)  == pc[c] = "idle" /\ Arrive(c, r, "check") /\ UNCHANGED faults
ArriveReport(c, r) == pc[c] = "working" /\ Arrive(c, r, "report") /\ UNCHANGED faults
ArriveForce(c, r)  == pc[c] = "idle" /\ Arrive(c, r, "force") /\ Fault

(***************************************************************************)
(* The request's method changes its object under the mutex.                *)
(***************************************************************************)
Update(c, breaker) ==
    /\ objs' = [objs EXCEPT ![ptr[c]] = breaker]
    /\ pc' = [pc EXCEPT ![c] = "marshal"]

(***************************************************************************)
(* checkCircuitBreakerHandler: cb.Check.                                   *)
(***************************************************************************)
CheckIt(c) ==
    /\ pc[c] = "check"
    /\ Update(c, Check(objs[ptr[c]]))
    /\ admitted' = [admitted EXCEPT ![c] = Admits(objs[ptr[c]])]
    /\ UNCHANGED <<deployed, store, at, ptr, snap, roundVars, faults, auxVars>>

(***************************************************************************)
(* A success beyond the bound of its window is not counted.                *)
(***************************************************************************)
Successful(cb) ==
    IF cb.State # "half-open" /\ cb.successes >= MaxWindow
      THEN [cb EXCEPT !.probeInFlight = FALSE]
      ELSE RecordSuccess(cb)

\* reportCircuitBreakerHandler: cb.Observe.
ReportSuccess(c) ==
    /\ pc[c] = "report"
    /\ Update(c, Successful(objs[ptr[c]]))
    /\ admitted' = [admitted EXCEPT ![c] = FALSE]
    /\ UNCHANGED <<deployed, store, at, ptr, snap, roundVars, faults, auxVars>>

ReportFailure(c) ==
    /\ Fault
    /\ pc[c] = "report"
    /\ Update(c, RecordFailure(objs[ptr[c]]))
    /\ admitted' = [admitted EXCEPT ![c] = FALSE]
    /\ UNCHANGED <<deployed, store, at, ptr, snap, roundVars, auxVars>>

(***************************************************************************)
(* The work of an admitted caller ends without a report.                   *)
(***************************************************************************)
Abandon(c) ==
    /\ Fault
    /\ pc[c] = "working"
    /\ pc' = [pc EXCEPT ![c] = "idle"]
    /\ admitted' = [admitted EXCEPT ![c] = FALSE]
    /\ UNCHANGED <<deployed, objs, store, at, ptr, snap, roundVars, auxVars>>

(***************************************************************************)
(* setCircuitBreakerHandler: cb.SetState.                                  *)
(***************************************************************************)
ForceState(c, state) ==
    /\ pc[c] = "force"
    /\ Update(c, SetState(objs[ptr[c]], state))
    /\ UNCHANGED <<deployed, store, at, ptr, admitted, snap, roundVars, faults, auxVars>>

-------------------------------------------------------------------------------
(***************************************************************************)
(* persistJSON: json.Marshal reads State, then LastTransitionUnix, while   *)
(* other requests change the object, State first and the time last.  So    *)
(* either may be read before the change and the other after it, and a      *)
(* label that changes as it is read may come out as the bytes of one with  *)
(* the other's length.                                                     *)
(***************************************************************************)
Described(cb) == IF cb = None THEN None ELSE [State |-> cb.State, age |-> cb.age]

MarshalState(c) ==
    /\ pc[c] = "marshal"
    /\ snap' = [snap EXCEPT ![c] = Described(objs[ptr[c]])]
    /\ pc' = [pc EXCEPT ![c] = "labelled"]
    /\ UNCHANGED <<deployed, objs, store, at, ptr, admitted, roundVars, faults, auxVars>>

Marshal(c) ==
    LET cb   == objs[ptr[c]]
        read == snap[c].State
    IN  /\ pc[c] = "labelled"
        /\ \E label \in {read, cb.State} \cup (IF read # cb.State THEN {"torn"} ELSE {}),
              time \in {snap[c].age, cb.age} :
              snap' = [snap EXCEPT ![c] = [State |-> label, age |-> time]]
        /\ pc' = [pc EXCEPT ![c] = "store"]
        /\ ptr' = [ptr EXCEPT ![c] = None]
        /\ objs' = [i \in Objects |->
                      IF i \in Replicas \/ \E x \in Requests \ {c} : ptr[x] = i
                        THEN objs[i] ELSE None]
        /\ UNCHANGED <<deployed, store, at, admitted, roundVars, faults, auxVars>>

(***************************************************************************)
(* store.Set, and the answer.                                              *)
(***************************************************************************)
Answer(c) ==
    /\ pc' = [pc EXCEPT ![c] = IF admitted[c] THEN "working" ELSE "idle"]
    /\ at' = [at EXCEPT ![c] = None]
    /\ snap' = [snap EXCEPT ![c] = None]
    /\ UNCHANGED <<deployed, objs, ptr, admitted, roundVars>>

Store(c) ==
    /\ pc[c] = "store"
    /\ store' = snap[c]
    /\ synced' = IF alone = c THEN {at[c]} ELSE {}
    /\ alone' = None
    /\ Answer(c)
    /\ UNCHANGED <<clean, faults>>

\* The command fails; persistJSON logs it.
StoreFails(c) ==
    /\ Fault
    /\ pc[c] = "store"
    /\ Answer(c)
    /\ alone' = None
    /\ UNCHANGED <<store, clean, synced>>

-------------------------------------------------------------------------------
(***************************************************************************)
(* loadFromStore: the stored record is read, or left out when its GET      *)
(* fails; after the other reads the map is replaced.                       *)
(***************************************************************************)
RestoredNow(p) == [NewCircuitBreaker EXCEPT !.State = p.State]  \* faulty

Restored(p) == [NewCircuitBreaker EXCEPT !.State = p.State, !.age = p.age]

Meets(r) == alone' = IF alone # None /\ at[alone] = r THEN None ELSE alone

SyncRead(r) ==
    /\ r \notin round
    /\ round' = round \cup {r}
    /\ got' = [got EXCEPT ![r] = store]
    /\ clean' = IF NobodyServed THEN clean \cup {r} ELSE clean
    /\ Meets(r)
    /\ UNCHANGED <<deployed, objs, store, requestVars, faults, synced>>

SyncReadFails(r) ==
    /\ Fault
    /\ r \notin round
    /\ round' = round \cup {r}
    /\ Meets(r)
    /\ UNCHANGED <<deployed, objs, store, requestVars, got, clean, synced>>

(***************************************************************************)
(* Replica r's map gets what record p describes.  The requests that point  *)
(* to its object keep that one, under another name.                        *)
(***************************************************************************)
ReplaceUnderHolders(r, p, holders) ==  \* faulty
    /\ objs' = [objs EXCEPT ![r] = IF p = None THEN None ELSE Restored(p)]
    /\ UNCHANGED ptr

Replace(r, p, holders) ==
    LET next  == IF p = None THEN None ELSE Restored(p)
        spare == CHOOSE i \in Requests : \A c \in Requests : ptr[c] # i
    IN  IF holders = {}
          THEN /\ objs' = [objs EXCEPT ![r] = next]
               /\ UNCHANGED ptr
          ELSE /\ objs' = [objs EXCEPT ![r] = next, ![spare] = objs[r]]
               /\ ptr' = [c \in Requests |-> IF c \in holders THEN spare ELSE ptr[c]]

EndRound(r) ==
    /\ round' = round \ {r}
    /\ got' = [got EXCEPT ![r] = None]
    /\ clean' = clean \ {r}

SyncAborts(r) ==
    /\ Fault
    /\ r \in round
    /\ EndRound(r)
    /\ UNCHANGED <<deployed, objs, store, requestVars, alone, synced>>

SyncKeepsKnown(r) ==  \* faulty
    /\ r \in round
    /\ objs' = [objs EXCEPT ![r] = IF @ = None /\ got[r] # None THEN Restored(got[r]) ELSE @]
    /\ EndRound(r)
    /\ synced' = synced \ {r}
    /\ UNCHANGED <<deployed, store, requestVars, faults, alone>>

SyncSwap(r) ==
    /\ r \in round
    /\ Replace(r, got[r], {c \in Requests : ptr[c] = r})
    /\ EndRound(r)
    /\ synced' = IF r \in clean THEN synced \cup {r} ELSE synced \ {r}
    /\ UNCHANGED <<deployed, store, pc, at, admitted, snap, faults, alone>>

(***************************************************************************)
(* A replica stops, starts again and loads the store, or nothing when that *)
(* fails.  The requests it was serving are gone.                           *)
(***************************************************************************)
Restart(r) ==
    LET gone == {c \in Requests : at[c] = r}
    IN  /\ Fault
        /\ \E p \in {store, None} :
              objs' = [i \in Objects |->
                         IF i = r THEN IF p = None THEN None ELSE Restored(p)
                         ELSE IF \E c \in gone : ptr[c] = i THEN None ELSE objs[i]]
        /\ pc' = [c \in Requests |-> IF c \in gone THEN "idle" ELSE pc[c]]
        /\ at' = [c \in Requests |-> IF c \in gone THEN None ELSE at[c]]
        /\ ptr' = [c \in Requests |-> IF c \in gone THEN None ELSE ptr[c]]
        /\ snap' = [c \in Requests |-> IF c \in gone THEN None ELSE snap[c]]
        /\ admitted' = [c \in Requests |-> c \notin gone /\ admitted[c]]
        /\ EndRound(r)
        /\ synced' = synced \ {r}
        /\ alone' = IF alone \in gone THEN None ELSE alone
        /\ UNCHANGED <<deployed, store>>

-------------------------------------------------------------------------------
Serve(c) ==
    \/ CheckIt(c)
    \/ ReportSuccess(c)
    \/ ReportFailure(c)
    \/ \E state \in ForcedStates : ForceState(c, state)
    \/ MarshalState(c)
    \/ Marshal(c)
    \/ Store(c)
    \/ StoreFails(c)

Next ==
    \/ Tick
    \/ \E c \in Callers, r \in deployed.replicas : ArriveCheck(c, r) \/ ArriveReport(c, r)
    \/ \E c \in deployed.operators, r \in deployed.replicas : ArriveForce(c, r)
    \/ \E c \in Requests : Serve(c)
    \/ \E c \in Callers : Abandon(c)
    \/ \E r \in deployed.replicas :
          \/ SyncRead(r)
          \/ SyncReadFails(r)
          \/ SyncAborts(r)
          \/ SyncSwap(r)
          \/ Restart(r)

Spec == Init /\ [][Next]_vars

(***************************************************************************)
(* Time passes, requests are served to their end, callers let through end  *)
(* their work and report, every replica that runs keeps being asked, and   *)
(* the ticker of startStoreSync starts a round every two seconds.          *)
(***************************************************************************)
FairSpec ==
    /\ Spec
    /\ WF_vars(Tick)
    /\ \A c \in Requests : WF_vars(Serve(c))
    /\ \A c \in Callers : WF_vars(\E r \in deployed.replicas : ArriveReport(c, r))
    /\ \A r \in Replicas :
          /\ SF_vars(r \in deployed.replicas /\ \E c \in Callers : ArriveCheck(c, r))
          /\ WF_vars(r \in deployed.replicas /\ (SyncRead(r) \/ SyncSwap(r)))

-------------------------------------------------------------------------------
(***************************************************************************)
(* The type invariant: every object a request or a map points to is well   *)
(* formed, whatever was marshalled, and pointers are never lost.           *)
(***************************************************************************)
TypeOK ==
    /\ objs \in [Objects -> Breakers \cup {None}]
    /\ \A c \in Requests : ptr[c] # None => objs[ptr[c]] # None
    /\ store \in Records \cup {None}
    /\ pc \in [Requests -> Steps]
    /\ at \in [Requests -> Replicas \cup {None}]
    /\ ptr \in [Requests -> Objects \cup {None}]
    /\ admitted \in [Requests -> BOOLEAN]
    /\ snap \in [Requests -> Records \cup {None}]
    /\ round \subseteq Replicas
    /\ got \in [Replicas -> Records \cup {None}]
    /\ deployed \in Deployments
    /\ faults \in 0..deployed.faults
    /\ alone \in Requests \cup {None}
    /\ clean \subseteq round
    /\ synced \subseteq Replicas

(***************************************************************************)
(* What replication does guarantee: when a request that met nobody has     *)
(* ended, the store has the state and the transition time of its replica's *)
(* breaker, and every replica whose round met no request has them too, so  *)
(* that all of them refuse and probe at the same times.                    *)
(***************************************************************************)
SyncedReplicasAgree == \A r \in synced : Described(objs[r]) = store

(***************************************************************************)
(* After the last fault every replica lets callers through again and       *)
(* again: lost trips, torn and stale records, leaked probes and orphaned   *)
(* objects leave no breaker that refuses for ever.                         *)
(***************************************************************************)
LetsThrough(r) == \E c \in Callers : pc[c] = "marshal" /\ admitted[c] /\ at[c] = r

KeepsLettingThrough ==
    \A r \in Replicas : []<>(r \in deployed.replicas => LetsThrough(r))
===============================================================================
