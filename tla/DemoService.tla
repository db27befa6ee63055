----------------------------- MODULE DemoService -----------------------------
(***************************************************************************)
(* The demo service (microservice-demo/main.go): trafficCaptureMiddleware  *)
(* keeps the latest requests in a bounded list, replays send some of them  *)
(* again, and actionHandler serves both through the control plane's        *)
(* circuit breaker: its steps are those of CircuitBreaker, whose Callers   *)
(* are the handlers of this service, the requests it serves at once.       *)
(*                                                                         *)
(* A request gets its number from an atomic counter and enters the list    *)
(* under captureMu later, so the list is not in the order of the numbers.  *)
(* A replay works on the selection it made under captureMu, one request    *)
(* after the other, while new traffic is served and captured; it waits for *)
(* each answer, for five seconds at most, and the request it gave up on    *)
(* goes on.  Requests sent by a replay are marked and never captured.      *)
(*                                                                         *)
(* Requests are of two kinds: POST /demo/action, and any other captured    *)
(* route, whose handler changes nothing and is left out.  A restart is the *)
(* initial state.                                                          *)
(*                                                                         *)
(* A definition marked "faulty" is a plausible bug in the one after it and *)
(* is not used.                                                            *)
(***************************************************************************)
EXTENDS CircuitBreaker, SequencesExt

CONSTANTS
    Replays,            \* replays in progress at once
    ReplayLimits,       \* requests a replay may ask for
    maxCapturedTraffic, \* 2000 in the code
    None,
    MaxSeq,             \* bound on the requests captured
    MaxLoad,            \* bound on the outcomes a closed breaker counts
    MaxFaults           \* bound on lost answers and refused actions

Kinds == {"action", "other"}
Captured == [id : 1..MaxSeq, kind : Kinds]

ASSUME DemoServiceAssumption ==
    /\ maxCapturedTraffic \in Nat \ {0}
    /\ ReplayLimits \subseteq Nat \ {0}
    /\ MaxSeq \in Nat
    /\ MaxLoad \in Nat
    /\ MaxWindow >= 2 * MaxLoad
    /\ MaxFaults \in Nat
    /\ None \notin Callers \cup Captured

VARIABLES
    faults,                  \* lost answers and refused actions so far
    captureSeq,              \* the last number given to a request
    capturedTraffic,         \* the captured requests, oldest first
    at,      \* each handler: away, numbered, or routed to actionHandler
    request, \* its request while it is numbered
    todo,    \* what each replay has still to send
    awaited  \* the handler it waits for, or None

breakerVars == <<vars, faults>>
captureVars == <<captureSeq, capturedTraffic>>
serverVars == <<at, request>>
replayVars == <<todo, awaited>>
demoVars == <<breakerVars, captureVars, serverVars, replayVars>>

DemoInit ==
    /\ Init
    /\ faults = 0
    /\ captureSeq = 0
    /\ capturedTraffic = <<>>
    /\ at = [h \in Callers |-> "away"]
    /\ request = [h \in Callers |-> None]
    /\ todo = [p \in Replays |-> <<>>]
    /\ awaited = [p \in Replays |-> None]

\* The bound MaxLoad: no more work for a closed breaker that will count so much.
RoomFor(n) ==
    cb.State = "closed" =>
        MaxLoad >= n + cb.successes + cb.failures
                     + Cardinality({h \in Callers : at[h] # "away"})
                     + SumFunction([p \in Replays |-> Len(todo[p])])

-------------------------------------------------------------------------------
(***************************************************************************)
(* captureRequest: the number first, the list later.                       *)
(***************************************************************************)
Arrive(h, kind) ==
    /\ at[h] = "away"
    /\ captureSeq < MaxSeq
    /\ kind = "action" => RoomFor(1)
    /\ captureSeq' = captureSeq + 1
    /\ at' = [at EXCEPT ![h] = "numbered"]
    /\ request' = [request EXCEPT ![h] = [id |-> captureSeq', kind |-> kind]]
    /\ UNCHANGED <<breakerVars, capturedTraffic, replayVars>>

(***************************************************************************)
(* A request whose body cannot be read is not captured, but it is served.  *)
(* Requests past the bound MaxSeq are counted among them.                  *)
(***************************************************************************)
ArriveUncaptured(h) ==
    /\ at[h] = "away"
    /\ RoomFor(1)
    /\ at' = [at EXCEPT ![h] = "routed"]
    /\ UNCHANGED <<breakerVars, captureVars, request, replayVars>>

WithLatestTooMany(traffic, r) ==  \* faulty
    IF Len(traffic) > maxCapturedTraffic THEN Append(Tail(traffic), r)
    ELSE Append(traffic, r)

WithLatestDropped(traffic, r) ==  \* faulty
    IF Len(traffic) >= maxCapturedTraffic THEN traffic ELSE Append(traffic, r)

WithLatest(traffic, r) ==
    IF Len(traffic) >= maxCapturedTraffic THEN Append(Tail(traffic), r)
    ELSE Append(traffic, r)

Capture(h) ==
    /\ at[h] = "numbered"
    /\ capturedTraffic' = WithLatest(capturedTraffic, request[h])
    /\ at' = [at EXCEPT ![h] = IF request[h].kind = "action" THEN "routed" ELSE "away"]
    /\ request' = [request EXCEPT ![h] = None]
    /\ UNCHANGED <<breakerVars, captureSeq, replayVars>>

-------------------------------------------------------------------------------
(***************************************************************************)
(* actionHandler, one call of the control plane after the other.  At its   *)
(* end the sender has the answer, if it still waits.                       *)
(***************************************************************************)
Step(h) ==
    \/ CheckHandler(h)
    \/ Observe(h)
    \/ ReportSuccess(h)
    \/ ReportFailure(h)

FaultyStep(h) ==
    /\ faults < MaxFaults
    /\ CheckFailsOpen(h) \/ Abandon(h)

ServeAction(h) ==
    /\ at[h] = "routed"
    /\ \/ Step(h) /\ UNCHANGED faults
       \/ FaultyStep(h) /\ faults' = faults + 1
    /\ IF pc'[h] = "idle"
         THEN /\ at' = [at EXCEPT ![h] = "away"]
              /\ awaited' = [p \in Replays |-> IF awaited[p] = h THEN None ELSE awaited[p]]
         ELSE UNCHANGED <<at, awaited>>
    /\ UNCHANGED <<captureVars, request, todo>>

DemoTick ==
    /\ Tick
    /\ UNCHANGED <<faults, captureVars, serverVars, replayVars>>

-------------------------------------------------------------------------------
(***************************************************************************)
(* selectCapturedTraffic: the latest requests of a kind, in the order of   *)
(* their numbers.                                                          *)
(***************************************************************************)
Latest(matches, limit) ==
    IF Len(matches) > limit
      THEN SubSeq(matches, Len(matches) - limit + 1, Len(matches))
      ELSE matches

Matches(kind) == {r \in Range(capturedTraffic) : r.kind = kind}

InOrder(requests) ==
    CHOOSE s \in [1..Cardinality(requests) -> requests] :
        \A i, j \in DOMAIN s : i < j => s[i].id < s[j].id

selectAsCaptured(kind, limit) ==  \* faulty
    Latest(SelectSeq(capturedTraffic, LAMBDA r : r.kind = kind), limit)

selectCapturedTraffic(kind, limit) == Latest(InOrder(Matches(kind)), limit)

Replaying(p) == todo[p] # <<>> \/ awaited[p] # None

\* replayTrafficHandler.  With nothing selected it answers at once.
StartReplay(p, kind, limit) ==
    /\ ~Replaying(p)
    /\ todo' = [todo EXCEPT ![p] = selectCapturedTraffic(kind, limit)]
    /\ kind = "action" => RoomFor(Len(todo'[p]))
    /\ UNCHANGED <<breakerVars, captureVars, serverVars, awaited>>

(***************************************************************************)
(* The next request is sent to the service itself, marked as a replay.     *)
(***************************************************************************)
SendAgain(p, h) ==  \* faulty
    /\ todo[p] # <<>> /\ awaited[p] = None
    /\ Head(todo[p]).kind = "action"
    /\ at[h] = "away"
    /\ at' = [at EXCEPT ![h] = "routed"]
    /\ awaited' = [awaited EXCEPT ![p] = h]
    /\ UNCHANGED <<breakerVars, captureVars, request, todo>>

Send(p, h) ==
    /\ todo[p] # <<>> /\ awaited[p] = None
    /\ Head(todo[p]).kind = "action"
    /\ at[h] = "away"
    /\ at' = [at EXCEPT ![h] = "routed"]
    /\ todo' = [todo EXCEPT ![p] = Tail(@)]
    /\ awaited' = [awaited EXCEPT ![p] = h]
    /\ UNCHANGED <<breakerVars, captureVars, request>>

\* It cannot be sent, and counts as failed, or its handler changes nothing.
SendWithoutEffect(p) ==
    /\ todo[p] # <<>> /\ awaited[p] = None
    /\ todo' = [todo EXCEPT ![p] = Tail(@)]
    /\ UNCHANGED <<breakerVars, captureVars, serverVars, awaited>>

(***************************************************************************)
(* The client gives up waiting; the handler is not stopped.                *)
(***************************************************************************)
Timeout(p) ==
    /\ awaited[p] # None
    /\ awaited' = [awaited EXCEPT ![p] = None]
    /\ UNCHANGED <<breakerVars, captureVars, serverVars, todo>>

-------------------------------------------------------------------------------
DemoNext ==
    \/ DemoTick
    \/ \E h \in Callers :
          \/ \E kind \in Kinds : Arrive(h, kind)
          \/ ArriveUncaptured(h)
          \/ Capture(h)
          \/ ServeAction(h)
    \/ \E p \in Replays :
          \/ \E kind \in Kinds, limit \in ReplayLimits : StartReplay(p, kind, limit)
          \/ \E h \in Callers : Send(p, h)
          \/ SendWithoutEffect(p)
          \/ Timeout(p)

DemoSpec == DemoInit /\ [][DemoNext]_demoVars

(***************************************************************************)
(* Time passes, actions keep arriving, and handlers run to their end; a    *)
(* replay sends its next request and gives up waiting in the end.          *)
(***************************************************************************)
FairSpec ==
    /\ DemoSpec
    /\ WF_demoVars(DemoTick)
    /\ SF_demoVars(\E h \in Callers : ArriveUncaptured(h))
    /\ \A h \in Callers : WF_demoVars(Capture(h) \/ ServeAction(h))
    /\ \A p \in Replays :
          /\ SF_demoVars(SendWithoutEffect(p) \/ \E h \in Callers : Send(p, h))
          /\ WF_demoVars(Timeout(p))

-------------------------------------------------------------------------------
(***************************************************************************)
(* The type invariant: the list never outgrows its bound, and a number is  *)
(* in it, or on its way to it, once.                                       *)
(***************************************************************************)
Numbers == {capturedTraffic[i].id : i \in DOMAIN capturedTraffic}
Pending == {h \in Callers : at[h] = "numbered"}

DemoTypeOK ==
    /\ TypeOK
    /\ faults \in 0..MaxFaults
    /\ captureSeq \in 0..MaxSeq
    /\ capturedTraffic \in Seq(Captured)
    /\ Cardinality(Numbers) = Len(capturedTraffic)
    /\ Len(capturedTraffic) <= maxCapturedTraffic
    /\ at \in [Callers -> {"away", "numbered", "routed"}]
    /\ request \in [Callers -> Captured \cup {None}]
    /\ \A h \in Callers :
          /\ request[h] # None <=> h \in Pending
          /\ pc[h] # "idle" => at[h] = "routed"
          /\ h \in Pending => request[h].id \in (1..captureSeq) \ Numbers
    /\ todo \in [Replays -> Seq(Captured)]
    /\ awaited \in [Replays -> Callers \cup {None}]

(***************************************************************************)
(* What the list may have lost.  A request that is no longer in it has     *)
(* made room for a full list of later ones, except for those that were on  *)
(* their way when it was captured: at most one per other handler.          *)
(***************************************************************************)
LostAreOld ==
    \A n \in (1..captureSeq) \ (Numbers \cup {request[h].id : h \in Pending}) :
        Cardinality({m \in Numbers : m > n})
            >= maxCapturedTraffic - (Cardinality(Callers) - 1)

(***************************************************************************)
(* A replay takes the latest matching requests the list holds and sends    *)
(* them in the order they arrived in, in whichever order concurrent        *)
(* handlers put them there.                                                *)
(***************************************************************************)
ReplaysLatestInOrder ==
    [][\A p \in Replays, kind \in Kinds, limit \in ReplayLimits :
          StartReplay(p, kind, limit) =>
              LET taken == todo'[p]
              IN  /\ \A i, j \in DOMAIN taken : i < j => taken[i].id < taken[j].id
                  /\ \A r \in Matches(kind) \ Range(taken) :
                        Len(taken) = limit /\ r.id < taken[1].id]_demoVars

(***************************************************************************)
(* A replay ends although new traffic keeps coming, and although what it   *)
(* sends may be refused, fail, or not be answered in time.                 *)
(***************************************************************************)
ReplayEnds == \A p \in Replays : Replaying(p) ~> ~Replaying(p)

(***************************************************************************)
(* The breaker does not stay open: late failures, of actions given up on   *)
(* by a replay among them, restart the open period, but there are only     *)
(* finitely many, and after them a check finds the period over.            *)
(***************************************************************************)
OpenEventuallyProbed == cb.State = "open" ~> cb.State # "open"

(***************************************************************************)
(* A claimed probe slot is released, unless an action was refused by the   *)
(* rate limiter or its report was lost.                                    *)
(***************************************************************************)
ProbeEventuallyReleased == cb.probeInFlight ~> (~cb.probeInFlight \/ faults > 0)
===============================================================================
