-------------------------- MODULE FlagClientProofs --------------------------
(***************************************************************************)
(* Proofs about FlagClient, for every number of replicas, lists, orders    *)
(* and faults, and for applications that start either goroutine or both.   *)
(***************************************************************************)
EXTENDS FlagClient, TLAPS

LEMMA BodyHasList == \A t \in Bodies : t.list \in Lists
BY FlagClientAssumption DEF Bodies

LEMMA BodiesAreTexts == Bodies \subseteq Texts
BY DEF Texts

LEMMA ParsedTyped ==
    ASSUME TypeOK, NEW g \in Goroutines
    PROVE  Parsed(g) \in Lists
BY BodyHasList DEF Parsed, TypeOK

LEMMA AnnounceTyped ==
    ASSUME TypeOK, NEW r \in Replicas, Announce(r)
    PROVE  /\ queued' \in 0..Capacity
           /\ stream = None => queued' = 0
           /\ stream # r => queued' = queued
           /\ stream = r => queued' > 0
BY FlagClientAssumption DEF Announce, TypeOK

LEMMA RoundTyped ==
    ASSUME TypeOK, NEW r \in Replicas, NEW l \in Lists
    PROVE  /\ [round EXCEPT ![r] = NoRound] \in [Replicas -> Rounds]
           /\ [round EXCEPT ![r] = [phase |-> "begun", before |-> l]] \in [Replicas -> Rounds]
           /\ [round EXCEPT ![r].phase = "swapped"] \in [Replicas -> Rounds]
BY FlagClientAssumption DEF TypeOK, Rounds, NoRound

LEMMA InitTyped == Init => TypeOK
<1>. SUFFICES ASSUME Init
              PROVE  TypeOK
  OBVIOUS
<1>1. PICK s \in Setups : up = s.up /\ started = s.started /\ left = s.writes
  BY DEF Init
<1>2. up \subseteq Replicas /\ started \subseteq Goroutines /\ left \in Nat
  BY <1>1, FlagClientAssumption
<1>3. /\ round \in [Replicas -> Rounds]
      /\ lastConfig \in Texts
      /\ body \in [Goroutines -> Texts]
  BY FlagClientAssumption DEF Init, NoRound, Rounds, Texts
<1>4. /\ served \in [Replicas -> Lists]
      /\ writing \in [Replicas -> Nat]
      /\ stored \in Lists
      /\ flags \in Lists
      /\ app \in Lists
      /\ update \in [Goroutines -> Lists]
  BY FlagClientAssumption DEF Init
<1>5. commands \in Nat /\ queued \in 0..Capacity /\ faults \in 0..MaxFaults
  BY FlagClientAssumption DEF Init
<1>6. /\ stream \in up \cup {None}
      /\ stream = None => queued = 0
      /\ missed \in BOOLEAN
  BY DEF Init
<1>7. pc \in [Goroutines -> {"idle", "asking", "answered", "calling"}]
  BY DEF Init
<1>. QED
  BY <1>2, <1>3, <1>4, <1>5, <1>6, <1>7 DEF TypeOK

LEMMA StepTyped == TypeOK /\ [Next]_vars => TypeOK'
<1>. SUFFICES ASSUME TypeOK, [Next]_vars
              PROVE  TypeOK'
  OBVIOUS
<1>. USE FlagClientAssumption
     DEF deployVars, replicaVars, storeVars, serverVars, streamVars, clientVars, fetchVars
<1>1. ASSUME NEW r \in Replicas, NEW l \in Lists, Change(r, l)
      PROVE  TypeOK'
  BY <1>1 DEF Change, TypeOK
<1>2. ASSUME NEW r \in Replicas, Finish(r)
      PROVE  TypeOK'
  <2>1. writing' \in [Replicas -> Nat]
    BY <1>2 DEF Finish, TypeOK
  <2>2. queued' \in 0..Capacity /\ (stream = None => queued' = 0) /\ missed' \in BOOLEAN
    BY <1>2, AnnounceTyped DEF Finish, Miss, TypeOK
  <2>. QED
    BY <1>2, <2>1, <2>2 DEF Finish, TypeOK
<1>3. CASE Configure
  BY <1>3 DEF Configure, TypeOK
<1>4. ASSUME NEW l \in Lists, Execute(l)
      PROVE  TypeOK'
  BY <1>4 DEF Execute, TypeOK
<1>5. ASSUME NEW r \in Replicas, Sync(r)
      PROVE  TypeOK'
  <2>1. CASE SyncBegin(r)
    <3>1. round' \in [Replicas -> Rounds]
      BY <2>1, RoundTyped DEF SyncBegin, TypeOK
    <3>. QED
      BY <2>1, <3>1 DEF SyncBegin, TypeOK
  <2>2. CASE SyncSwap(r)
    <3>1. ASSUME NEW l \in Lists, Replace(r, l)
          PROVE  /\ served' \in [Replicas -> Lists]
                 /\ round' \in [Replicas -> Rounds]
                 /\ missed' \in BOOLEAN
      BY <3>1, RoundTyped DEF Replace, Miss, TypeOK
    <3>2. faults' \in 0..MaxFaults
      BY <2>2 DEF SyncSwap, Fault, TypeOK
    <3>. QED
      BY <2>2, <3>1, <3>2 DEF SyncSwap, TypeOK
  <2>3. CASE SyncAborts(r)
    <3>1. round' \in [Replicas -> Rounds]
      BY <2>3, RoundTyped DEF SyncAborts, TypeOK
    <3>2. faults' \in 0..MaxFaults
      BY <2>3 DEF SyncAborts, Fault, TypeOK
    <3>. QED
      BY <2>3, <3>1, <3>2 DEF SyncAborts, TypeOK
  <2>4. CASE SyncAnnounce(r)
    <3>1. /\ round' \in [Replicas -> Rounds]
          /\ queued' \in 0..Capacity
          /\ stream = None => queued' = 0
      BY <2>4, RoundTyped, AnnounceTyped DEF SyncAnnounce, TypeOK
    <3>. QED
      BY <2>4, <3>1 DEF SyncAnnounce, TypeOK
  <2>. QED
    BY <1>5, <2>1, <2>2, <2>3, <2>4 DEF Sync
<1>6. ASSUME NEW r \in Replicas, Connect(r)
      PROVE  TypeOK'
  BY <1>6 DEF Connect, TypeOK
<1>7. CASE Disconnect
  BY <1>7 DEF Disconnect, Fault, TypeOK
<1>8. CASE Receive
  <2>1. lastConfig' \in Texts
    BY <1>8 DEF Receive, Signal, Texts
  <2>2. queued' \in 0..Capacity /\ (stream = None => queued' = 0)
    BY <1>8 DEF Receive, TypeOK
  <2>. QED
    BY <1>8, <2>1, <2>2 DEF Receive, TypeOK
<1>9. ASSUME NEW g \in Goroutines, NEW r \in Replicas, Answer(g, r)
      PROVE  TypeOK'
  <2>1. missed' \in BOOLEAN
    BY <1>9 DEF Answer
  <2>2. body' \in [Goroutines -> Texts]
    BY <1>9, BodiesAreTexts DEF Answer, TypeOK
  <2>. QED
    BY <1>9, <2>1, <2>2 DEF Answer, TypeOK
<1>10. ASSUME NEW g \in Goroutines, AnswerFails(g)
       PROVE  TypeOK'
  <2>1. body' \in [Goroutines -> Texts]
    BY <1>10 DEF AnswerFails, TypeOK, Texts
  <2>2. missed' \in BOOLEAN /\ faults' \in 0..MaxFaults
    BY <1>10 DEF AnswerFails, Fault, Miss, TypeOK
  <2>3. pc' \in [Goroutines -> {"idle", "asking", "answered", "calling"}]
    BY <1>10 DEF AnswerFails, TypeOK
  <2>. QED
    BY <1>10, <2>1, <2>2, <2>3 DEF AnswerFails, TypeOK
<1>11. ASSUME NEW g \in Goroutines, Apply(g)
       PROVE  TypeOK'
  <2>1. /\ lastConfig' \in Texts
        /\ flags' \in Lists
        /\ update' \in [Goroutines -> Lists]
        /\ pc' \in [Goroutines -> {"idle", "asking", "answered", "calling"}]
    <3>1. CASE body[g] = lastConfig
      BY <1>11, <3>1 DEF Apply, TypeOK
    <3>2. CASE body[g] # lastConfig
      BY <1>11, <3>2, ParsedTyped DEF Apply, TypeOK
    <3>. QED
      BY <3>1, <3>2
  <2>2. body' \in [Goroutines -> Texts]
    BY <1>11 DEF Apply, TypeOK, Texts
  <2>. QED
    BY <1>11, <2>1, <2>2 DEF Apply, TypeOK
<1>12. ASSUME NEW g \in Goroutines, Call(g)
       PROVE  TypeOK'
  BY <1>12 DEF Call, TypeOK
<1>13. CASE UNCHANGED vars
  BY <1>13 DEF vars, TypeOK
<1>. QED
  BY <1>1, <1>2, <1>3, <1>4, <1>5, <1>6, <1>7, <1>8, <1>9, <1>10, <1>11, <1>12, <1>13
     DEF Next, Fetch

(***************************************************************************)
(* Type correctness: the stream never holds more than it has room for, and *)
(* the client's list is always a list.                                     *)
(***************************************************************************)
THEOREM TypeCorrect == Spec => []TypeOK
BY InitTyped, StepTyped, PTL DEF Spec

(***************************************************************************)
(* What the replicas and the store do on their own leaves the client's     *)
(* side as it is.                                                          *)
(***************************************************************************)
ServerStep ==
    \/ \E r \in Replicas : (\E l \in Lists : Change(r, l)) \/ Finish(r) \/ Sync(r)
    \/ Configure
    \/ \E l \in Lists : Execute(l)

LEMMA ServerStepFrame ==
    ASSUME ServerStep
    PROVE  UNCHANGED <<up, started, stream, lastConfig, flags, app, pc, body, update>>
BY DEF ServerStep, Change, Finish, Configure, Execute, Sync, SyncBegin, SyncSwap, SyncAborts,
       SyncAnnounce, deployVars, streamVars, clientVars, fetchVars

-------------------------------------------------------------------------------
LEMMA InitKnown == Init => SkippedIsKnown
BY FlagClientAssumption DEF Init, SkippedIsKnown

LEMMA StepKnown == TypeOK /\ SkippedIsKnown /\ [Next]_vars => SkippedIsKnown'
<1>. SUFFICES ASSUME TypeOK, SkippedIsKnown, [Next]_vars
              PROVE  SkippedIsKnown'
  OBVIOUS
<1>1. ASSUME NEW g \in Goroutines, Apply(g)
      PROVE  SkippedIsKnown'
  <2>1. CASE body[g] = lastConfig
    BY <1>1, <2>1 DEF Apply, SkippedIsKnown
  <2>2. CASE body[g] # lastConfig
    BY <1>1, <2>2 DEF Apply, Parsed, SkippedIsKnown
  <2>. QED
    BY <2>1, <2>2
<1>2. CASE Receive
  BY <1>2, FlagClientAssumption DEF Receive, Signal, SkippedIsKnown
<1>3. ASSUME UNCHANGED <<lastConfig, flags>>
      PROVE  SkippedIsKnown'
  BY <1>3 DEF SkippedIsKnown
<1>4. CASE \/ UNCHANGED vars
           \/ Disconnect
           \/ ServerStep
           \/ \E r \in Replicas : Connect(r)
           \/ \E g \in Goroutines : \/ \E r \in Replicas : Answer(g, r)
                                    \/ AnswerFails(g)
                                    \/ Call(g)
  BY <1>4, <1>3, ServerStepFrame
     DEF vars, Disconnect, Connect, Answer, AnswerFails, Call, clientVars
<1>. QED
  BY <1>1, <1>2, <1>4 DEF Next, Fetch, ServerStep

(***************************************************************************)
(* fetchFlags never skips a body whose list the client does not have.      *)
(***************************************************************************)
THEOREM SkippedKnown == Spec => []SkippedIsKnown
<1>1. Spec => [](TypeOK /\ SkippedIsKnown)
  BY InitTyped, InitKnown, StepTyped, StepKnown, PTL DEF Spec
<1>. QED
  BY <1>1, PTL

-------------------------------------------------------------------------------
(***************************************************************************)
(* A goroutine that was not started does nothing, so a lone one is the     *)
(* only one that touches the list and calls the callback.                  *)
(***************************************************************************)
NotStartedIdle == \A g \in Goroutines \ started : pc[g] = "idle"

StreamIsStarted == stream # None => "sse" \in started

AppInv == NotStartedIdle /\ StreamIsStarted /\ AppFollows

LEMMA InitApp == Init => AppInv
BY DEF Init, AppInv, NotStartedIdle, StreamIsStarted, AppFollows

LEMMA StepIdle == TypeOK /\ AppInv /\ [Next]_vars => (NotStartedIdle /\ StreamIsStarted)'
<1>. SUFFICES ASSUME TypeOK, NotStartedIdle, StreamIsStarted, [Next]_vars
              PROVE  (NotStartedIdle /\ StreamIsStarted)'
  BY DEF AppInv
<1>1. ASSUME NEW g \in Goroutines, g \in started,
             pc' \in {[pc EXCEPT ![g] = "idle"], [pc EXCEPT ![g] = "asking"],
                      [pc EXCEPT ![g] = "answered"], [pc EXCEPT ![g] = "calling"]},
             UNCHANGED <<stream, started>>
      PROVE  (NotStartedIdle /\ StreamIsStarted)'
  BY <1>1 DEF NotStartedIdle, StreamIsStarted, TypeOK
<1>2. CASE Receive
  <2>1. "sse" \in started
    BY <1>2 DEF Receive, StreamIsStarted, TypeOK
  <2>. QED
    BY <1>1, <1>2, <2>1 DEF Receive, deployVars, Goroutines
<1>3. ASSUME NEW g \in Goroutines, (\E r \in Replicas : Answer(g, r)) \/ AnswerFails(g)
      PROVE  (NotStartedIdle /\ StreamIsStarted)'
  BY <1>1, <1>3 DEF Answer, AnswerFails, Fetching, deployVars, streamVars
<1>4. ASSUME NEW g \in Goroutines, Apply(g) \/ Call(g)
      PROVE  (NotStartedIdle /\ StreamIsStarted)'
  <2>1. g \in started
    BY <1>4 DEF NotStartedIdle, Apply, Call
  <2>. QED
    BY <1>1, <1>4, <2>1 DEF Apply, Call, deployVars, streamVars
<1>5. CASE \/ UNCHANGED vars
           \/ Disconnect
           \/ ServerStep
           \/ \E r \in Replicas : Connect(r)
  BY <1>5, ServerStepFrame
     DEF vars, Disconnect, Connect, NotStartedIdle, StreamIsStarted, deployVars, fetchVars
<1>. QED
  BY <1>2, <1>3, <1>4, <1>5 DEF Next, Fetch, ServerStep

LEMMA StepApp == TypeOK /\ AppInv /\ [Next]_vars => AppFollows'
<1>. DEFINE Told(g) ==
              IF pc[g] = "calling" THEN update[g] = flags ELSE app = flags
<1>. SUFFICES ASSUME TypeOK, AppInv, [Next]_vars,
                     NEW g \in Goroutines, started' = {g}
              PROVE  Told(g)'
  BY DEF AppFollows
<1>1. started = {g}
  BY ServerStepFrame
     DEF Next, Fetch, ServerStep, Connect, Disconnect, Receive, Answer, AnswerFails, Apply, Call, deployVars, vars
<1>2. Told(g)
  BY <1>1 DEF AppInv, AppFollows
<1>3. \A h \in Goroutines : pc[h] # "idle" => h = g
  BY <1>1 DEF AppInv, NotStartedIdle
<1>4. ASSUME NEW h \in Goroutines, Apply(h)
      PROVE  Told(g)'
  <2>1. h = g /\ app = flags
    BY <1>2, <1>3, <1>4 DEF Apply
  <2>2. CASE body[g] = lastConfig
    BY <1>4, <2>1, <2>2 DEF Apply, TypeOK
  <2>3. CASE body[g] # lastConfig
    <3>1. /\ flags' = Parsed(g)
          /\ update' = [update EXCEPT ![g] = flags']
          /\ pc' = [pc EXCEPT ![g] = "calling"]
      BY <1>4, <2>1, <2>3 DEF Apply
    <3>. QED
      BY <3>1 DEF TypeOK
  <2>. QED
    BY <2>2, <2>3
<1>5. ASSUME NEW h \in Goroutines, Call(h)
      PROVE  Told(g)'
  <2>1. h = g
    BY <1>3, <1>5 DEF Call
  <2>. QED
    BY <1>2, <1>5, <2>1 DEF Call, TypeOK
<1>6. ASSUME UNCHANGED <<flags, app, update>>, pc[g] = "calling" <=> pc'[g] = "calling"
      PROVE  Told(g)'
  BY <1>2, <1>6
<1>7. CASE \/ UNCHANGED vars
           \/ Disconnect
           \/ ServerStep
           \/ \E r \in Replicas : Connect(r)
  BY <1>6, <1>7, ServerStepFrame DEF vars, Disconnect, Connect, clientVars, fetchVars
<1>8. CASE Receive
  BY <1>6, <1>8 DEF Receive, TypeOK
<1>9. ASSUME NEW h \in Goroutines, (\E r \in Replicas : Answer(h, r)) \/ AnswerFails(h)
      PROVE  Told(g)'
  BY <1>6, <1>9 DEF Answer, AnswerFails, Fetching, clientVars, TypeOK
<1>. QED
  BY <1>4, <1>5, <1>7, <1>8, <1>9 DEF Next, Fetch, ServerStep

(***************************************************************************)
(* An application that started one goroutine has been told of the list the *)
(* client has, or is about to be.                                          *)
(***************************************************************************)
THEOREM AppTold == Spec => []AppFollows
<1>1. TypeOK /\ AppInv /\ [Next]_vars => AppInv'
  BY StepIdle, StepApp DEF AppInv
<1>2. Spec => [](TypeOK /\ AppInv)
  BY <1>1, InitTyped, InitApp, StepTyped, PTL DEF Spec
<1>3. AppInv => AppFollows
  BY DEF AppInv
<1>. QED
  BY <1>2, <1>3, PTL

-------------------------------------------------------------------------------
(***************************************************************************)
(* Why a client with a stream alone is current: as long as nothing was     *)
(* missed, the list it has, or is about to take, is its replica's, or an   *)
(* event waits to be read or acted on, or the replica has still to         *)
(* announce its list.                                                      *)
(***************************************************************************)
Unannounced(r) ==
    \/ writing[r] > 0
    \/ round[r].phase = "swapped" /\ round[r].before # served[r]

Takes(l) ==
    IF pc["sse"] = "answered" THEN body["sse"] \in Bodies /\ body["sse"].list = l
                              ELSE flags = l

Informed(r) ==
    \/ queued > 0
    \/ pc["sse"] = "asking"
    \/ Unannounced(r)
    \/ Takes(served[r])

StreamInv ==
    \A r \in Replicas : started = {"sse"} /\ stream = r /\ ~missed => Informed(r)

LEMMA InitStream == Init => StreamInv
BY FlagClientAssumption DEF Init, StreamInv

(***************************************************************************)
(* A replica's own steps: whatever changes its list leaves an announcement *)
(* to be made, makes it, or is known to be missed.                         *)
(***************************************************************************)
LEMMA ServerStepStream ==
    ASSUME TypeOK, StreamInv, ServerStep
    PROVE  StreamInv'
<1>. SUFFICES ASSUME NEW r \in Replicas, started' = {"sse"}, stream' = r, ~missed'
              PROVE  Informed(r)'
  BY DEF StreamInv
<1>. USE DEF replicaVars, storeVars, streamVars
<1>1. UNCHANGED <<up, started, stream, lastConfig, flags, app, pc, body, update>>
  BY ServerStepFrame
<1>2. started = {"sse"} /\ stream = r /\ "poll" \notin started
  BY <1>1
<1>3. ASSUME ~missed, queued' = queued, served'[r] = served[r],
             Unannounced(r) => Unannounced(r)'
      PROVE  Informed(r)'
  <2>1. Informed(r)
    BY <1>2, <1>3 DEF StreamInv
  <2>2. Takes(served[r]) => Takes(served[r])'
    BY <1>1, <1>3 DEF Takes
  <2>. QED
    BY <1>1, <1>3, <2>1, <2>2 DEF Informed
<1>4. ASSUME NEW x \in Replicas, NEW l \in Lists, Change(x, l)
      PROVE  Informed(r)'
  <2>1. CASE x = r
    <3>1. writing'[r] = writing[r] + 1 /\ writing[r] \in Nat
      BY <1>4, <2>1 DEF Change, TypeOK
    <3>. QED
      BY <3>1 DEF Informed, Unannounced
  <2>2. CASE x # r
    BY <1>3, <1>4, <2>2 DEF Change, TypeOK, Unannounced
  <2>. QED
    BY <2>1, <2>2
<1>5. ASSUME NEW x \in Replicas, Finish(x)
      PROVE  Informed(r)'
  <2>1. CASE x = r
    BY <1>2, <1>5, <2>1, AnnounceTyped DEF Finish, Miss, Informed
  <2>2. CASE x # r
    BY <1>2, <1>3, <1>5, <2>2, AnnounceTyped DEF Finish, Miss, TypeOK, Unannounced
  <2>. QED
    BY <2>1, <2>2
<1>6. CASE Configure \/ \E l \in Lists : Execute(l)
  BY <1>3, <1>6 DEF Configure, Execute, Unannounced
<1>7. ASSUME NEW x \in Replicas, Sync(x)
      PROVE  Informed(r)'
  <2>1. CASE SyncBegin(x) \/ SyncAborts(x)
    BY <1>3, <2>1 DEF SyncBegin, SyncAborts, InRound, TypeOK, Unannounced, NoRound
  <2>2. CASE SyncSwap(x)
    <3>1. PICK l \in Lists : Replace(x, l)
      BY <2>2 DEF SyncSwap, TypeOK
    <3>2. queued' = queued /\ writing' = writing /\ ~missed
      BY <2>2, <3>1 DEF SyncSwap, Replace, Miss
    <3>3. CASE x # r
      BY <1>3, <3>1, <3>2, <3>3 DEF Replace, TypeOK, Unannounced
    <3>4. CASE x = r /\ l = served[r]
      BY <1>3, <2>2, <3>1, <3>2, <3>4 DEF SyncSwap, InRound, Replace, TypeOK, Unannounced
    <3>5. CASE x = r /\ l # served[r]
      <4>1. l # round[r].before
        BY <1>2, <3>1, <3>5 DEF Replace, Miss
      <4>2. round'[r].phase = "swapped" /\ round'[r].before = round[r].before
        BY <3>1, <3>5 DEF Replace, TypeOK, Rounds
      <4>3. served'[r] = l
        BY <3>1, <3>5 DEF Replace, TypeOK
      <4>. QED
        BY <4>1, <4>2, <4>3 DEF Informed, Unannounced
    <3>. QED
      BY <3>3, <3>4, <3>5
  <2>3. CASE SyncAnnounce(x)
    <3>1. CASE x = r /\ Announces(r)
      BY <1>2, <2>3, <3>1, AnnounceTyped DEF SyncAnnounce, Informed
    <3>2. CASE x = r /\ ~Announces(r)
      BY <1>3, <2>3, <3>2 DEF SyncAnnounce, Announces, Unannounced
    <3>3. CASE x # r
      BY <1>2, <1>3, <2>3, <3>3, AnnounceTyped DEF SyncAnnounce, TypeOK, Unannounced
    <3>. QED
      BY <3>1, <3>2, <3>3
  <2>. QED
    BY <1>7, <2>1, <2>2, <2>3 DEF Sync
<1>. QED
  BY <1>4, <1>5, <1>6, <1>7 DEF ServerStep

LEMMA StepStream ==
    TypeOK /\ SkippedIsKnown /\ NotStartedIdle /\ StreamInv /\ [Next]_vars => StreamInv'
<1>. SUFFICES ASSUME TypeOK, SkippedIsKnown, NotStartedIdle, StreamInv, [Next]_vars,
                     NEW r \in Replicas, started' = {"sse"}, stream' = r, ~missed'
              PROVE  Informed(r)'
  BY DEF StreamInv
<1>. USE DEF deployVars, serverVars, replicaVars, storeVars, streamVars, clientVars, fetchVars
<1>1. CASE ServerStep
  BY <1>1, ServerStepStream DEF StreamInv
<1>2. CASE UNCHANGED vars
  BY <1>2 DEF vars, StreamInv, Informed, Unannounced, Takes
<1>3. ASSUME NEW x \in Replicas, Connect(x)
      PROVE  Informed(r)'
  BY <1>3 DEF Connect, Informed
<1>4. CASE Disconnect
  BY <1>4, FlagClientAssumption DEF Disconnect
<1>5. CASE Receive
  BY <1>5 DEF Receive, TypeOK, Goroutines, Informed
<1>6. ASSUME NEW g \in Goroutines, Fetch(g) \/ AnswerFails(g)
      PROVE  Informed(r)'
  <2>1. /\ started = {"sse"} /\ stream = r
        /\ UNCHANGED <<served, writing, round, queued>>
        /\ "poll" \notin started
    BY <1>6 DEF Fetch, Answer, Apply, Call, AnswerFails
  <2>2. g = "sse"
    <3>1. pc[g] # "idle" \/ g \in started
      BY <1>6 DEF Fetch, Answer, Apply, Call, AnswerFails, Fetching
    <3>. QED
      BY <2>1, <3>1 DEF NotStartedIdle
  <2>3. ~AnswerFails(g)
    BY <2>1 DEF AnswerFails, Miss
  <2>4. ASSUME NEW x \in Replicas, Answer(g, x)
        PROVE  Informed(r)'
    <3>1. served[x] = served[r]
      BY <2>1, <2>4, FlagClientAssumption DEF Answer
    <3>2. pc'["sse"] = "answered" /\ body'["sse"] \in Bodies /\ body'["sse"].list = served[x]
      BY <2>2, <2>4 DEF Answer, TypeOK
    <3>. QED
      BY <2>1, <3>1, <3>2 DEF Informed, Takes
  <2>5. ASSUME ~missed, pc["sse"] # "asking", Takes(served[r]) => Takes(served[r])'
        PROVE  Informed(r)'
    BY <2>1, <2>5 DEF StreamInv, Informed, Unannounced
  <2>6. CASE Apply(g)
    <3>1. ~missed /\ pc["sse"] = "answered"
      BY <2>2, <2>6 DEF Apply
    <3>2. ASSUME Takes(served[r])
          PROVE  pc'["sse"] # "answered" /\ flags' = served[r]
      <4>1. body["sse"] \in Bodies /\ body["sse"].list = served[r]
        BY <3>1, <3>2 DEF Takes
      <4>2. CASE body["sse"] = lastConfig
        BY <2>2, <2>6, <4>1, <4>2 DEF Apply, SkippedIsKnown, TypeOK
      <4>3. CASE body["sse"] # lastConfig
        BY <2>2, <2>6, <4>1, <4>3 DEF Apply, Parsed, TypeOK
      <4>. QED
        BY <4>2, <4>3
    <3>. QED
      BY <2>1, <2>5, <3>1, <3>2 DEF Takes
  <2>7. CASE Call(g)
    <3>1. ~missed /\ pc["sse"] = "calling" /\ pc'["sse"] = "idle" /\ flags' = flags
      BY <2>2, <2>7 DEF Call, TypeOK
    <3>. QED
      BY <2>1, <2>5, <3>1 DEF Takes
  <2>. QED
    BY <1>6, <2>3, <2>4, <2>6, <2>7 DEF Fetch
<1>. QED
  BY <1>1, <1>2, <1>3, <1>4, <1>5, <1>6 DEF Next, ServerStep

(***************************************************************************)
(* A client that started the stream alone has the list of its replica once *)
(* that is at rest, unless its last fetch failed or was answered by        *)
(* another, or the replica announced nothing of what it did.               *)
(***************************************************************************)
THEOREM QuietCurrent == Spec => []QuietIsCurrent
<1>1. Spec => [](TypeOK /\ SkippedIsKnown /\ AppInv /\ StreamInv)
  BY InitTyped, InitKnown, InitApp, InitStream, StepTyped, StepKnown, StepIdle, StepApp,
     StepStream, PTL DEF Spec, AppInv
<1>2. TypeOK /\ StreamInv => QuietIsCurrent
  <2>. SUFFICES ASSUME TypeOK, StreamInv, NEW r \in Replicas, started = {"sse"},
                       AtRest(r), ~missed
                PROVE  flags = served[r]
    BY DEF QuietIsCurrent
  <2>. QED
    BY DEF StreamInv, Informed, Unannounced, Takes, AtRest, TypeOK
<1>. QED
  BY <1>1, <1>2, PTL
===============================================================================
