-------------------------- MODULE FlagReplicasProofs --------------------------
(***************************************************************************)
(* Proofs about FlagReplicas, for every number of replicas, handlers,      *)
(* flags and values, and with or without faults and file fallback.         *)
(***************************************************************************)
EXTENDS FlagReplicas, TLAPS

USE DEF Maps

LEMMA EmptyTyped == Empty \in Maps /\ Empty \in Held
BY DEF Empty, Held

LEMMA NoWindowTyped == NoWindow \in [Names -> SUBSET (Texts \cup {None})]
BY DEF NoWindow

LEMMA NoRequestTyped == NoRequest \in RequestType
BY DEF NoRequest, RequestType

LEMMA UpdateIsMap ==
    ASSUME NEW m \in Maps, NEW n \in Names, NEW v \in Values \cup {None}
    PROVE  [m EXCEPT ![n] = v] \in Maps
OBVIOUS

LEMMA UpdateIsHeld ==
    ASSUME NEW m \in Held, NEW k \in Names, NEW t \in Texts \cup {None}
    PROVE  [m EXCEPT ![k] = t] \in Held
BY DEF Held

LEMMA FlagIsText ==
    ASSUME NEW n \in Names, NEW v \in Values
    PROVE  Flag(n, v) \in Texts
BY DEF Flag, Texts

(***************************************************************************)
(* Decoding: every flag of the result is in a text under some key, and a   *)
(* flag it lacks is in none.                                               *)
(***************************************************************************)
LEMMA DecodedFlags ==
    ASSUME NEW texts, NEW m \in Decoded(texts), NEW n \in Names
    PROVE  IF m[n] = None
             THEN \A k \in Names : texts[k] \notin Naming(n)
             ELSE \E k \in Names : texts[k] = Flag(n, m[n])
<1>1. m[n] \in Choices(texts, n)
  BY DEF Decoded
<1>2. CASE Definitions(texts, n) = {}
  <2>1. m[n] = None
    BY <1>1, <1>2 DEF Choices
  <2>2. \A k \in Names : texts[k] \in Naming(n) => texts[k].def \in Definitions(texts, n)
    BY DEF Definitions
  <2>. QED
    BY <1>2, <2>1, <2>2
<1>3. CASE Definitions(texts, n) # {}
  <2>1. m[n] \in Definitions(texts, n)
    BY <1>1, <1>3 DEF Choices
  <2>2. PICK t \in {texts[k] : k \in Names} \cap Naming(n) : m[n] = t.def
    BY <2>1 DEF Definitions
  <2>3. t = Flag(n, m[n]) /\ m[n] \in Values
    BY <2>2 DEF Naming, Flag
  <2>4. m[n] # None
    BY <2>3, FlagReplicasAssumption
  <2>. QED
    BY <2>2, <2>3, <2>4
<1>. QED
  BY <1>2, <1>3

LEMMA InstallTyped ==
    ASSUME flags \in [Replicas -> Maps], NEW r \in Replicas, NEW texts, Install(r, texts)
    PROVE  /\ flags' \in [Replicas -> Maps]
           /\ flags'[r] \in Decoded(texts)
           /\ \A x \in Replicas \ {r} : flags'[x] = flags[x]
BY DEF Install, Decoded

(***************************************************************************)
(* What a round has read so far was in the store at some moment of the     *)
(* round, what it will read is in the window too, and a key still to be    *)
(* read is absent from what it has so far, so that a failed GET    *)
(* leaves it absent.                                                       *)
(***************************************************************************)
RoundReadsWindow(r) ==
    \A k \in Names :
        /\ stores[backing[r]][k] \in window[r][k]
        /\ k \in todo[r] => got[r][k] = None
        /\ k \notin todo[r] => got[r][k] \in window[r][k]

RoundsReadWindow == \A r \in syncing : RoundReadsWindow(r)

(***************************************************************************)
(* A handler past its first step knows its replica and its flag.           *)
(***************************************************************************)
RequestsNamed ==
    \A h \in Handlers : pc[h] # "idle" => req[h].at \in Replicas /\ req[h].key \in Names

TypeInv == TypeOK /\ RequestsNamed

IInv == TypeInv /\ RoundsReadWindow

-------------------------------------------------------------------------------
LEMMA ExecuteTyped ==
    ASSUME TypeOK, NEW b \in Replicas \cup {Shared}, NEW k \in Names,
           NEW t \in Texts \cup {None}, Execute(b, k, t)
    PROVE  /\ stores' \in [Replicas \cup {Shared} -> Held]
           /\ window' \in [Replicas -> [Names -> SUBSET (Texts \cup {None})]]
<1>1. stores' \in [Replicas \cup {Shared} -> Held]
  BY UpdateIsHeld DEF Execute, TypeOK
<1>2. ASSUME NEW r \in Replicas
      PROVE  window'[r] \in [Names -> SUBSET (Texts \cup {None})]
  BY <1>2 DEF Execute, TypeOK
<1>. QED
  BY <1>1, <1>2 DEF Execute

LEMMA CommandFailsTyped ==
    ASSUME TypeOK, NEW b \in Replicas \cup {Shared}, NEW k \in Names,
           NEW t \in Texts \cup {None}, CommandFails(b, k, t)
    PROVE  /\ stores' \in [Replicas \cup {Shared} -> Held]
           /\ window' \in [Replicas -> [Names -> SUBSET (Texts \cup {None})]]
           /\ faults' \in 0..MaxFaults
           /\ late' \subseteq [id : Nat, key : Names, text : Texts \cup {None}]
<1>1. faults' \in 0..MaxFaults /\ faults' \in Nat
  BY FlagReplicasAssumption DEF CommandFails, Fault, TypeOK
<1>2. CASE Execute(b, k, t) /\ UNCHANGED late
  BY <1>1, <1>2, ExecuteTyped DEF TypeOK
<1>3. CASE /\ late' \in {late, late \cup {[id |-> faults', key |-> k, text |-> t]}}
           /\ UNCHANGED <<stores, window>>
  <2>1. [id |-> faults', key |-> k, text |-> t]
          \in [id : Nat, key : Names, text : Texts \cup {None}]
    BY <1>1
  <2>. QED
    BY <1>1, <1>3, <2>1 DEF TypeOK
<1>. QED
  BY <1>2, <1>3 DEF CommandFails

LEMMA EndRoundTyped ==
    ASSUME TypeOK, NEW r \in Replicas, EndRound(r)
    PROVE  /\ syncing' \subseteq Replicas
           /\ todo' \in [Replicas -> SUBSET Names]
           /\ got' \in [Replicas -> Held]
           /\ window' \in [Replicas -> [Names -> SUBSET (Texts \cup {None})]]
BY EmptyTyped, NoWindowTyped DEF EndRound, TypeOK

LEMMA InitTyped == Init => TypeInv
BY EmptyTyped, NoWindowTyped, NoRequestTyped, FlagReplicasAssumption
   DEF Init, TypeOK, RequestsNamed, TypeInv

LEMMA StepTyped == TypeInv /\ [Next]_vars => TypeInv'
<1>. SUFFICES ASSUME TypeOK, RequestsNamed, [Next]_vars
              PROVE  TypeInv'
  BY DEF TypeInv
<1>. USE FlagReplicasAssumption DEF TypeInv
<1>1. ASSUME NEW h \in Handlers, NEW r \in Replicas, NEW n \in Names,
             NEW v \in Sent \cup {None}, Change(h, r, n, v)
      PROVE  TypeInv'
  <2>1. flags' \in [Replicas -> Maps]
    BY <1>1, UpdateIsMap, FlagReplicasAssumption DEF Change, TypeOK
  <2>2. req' \in [Handlers -> RequestType]
    BY <1>1, FlagIsText, FlagReplicasAssumption DEF Change, TypeOK, RequestType
  <2>3. RequestsNamed'
    BY <1>1 DEF Change, TypeOK, RequestsNamed
  <2>4. writes' \in 0..MaxWrites
    BY <1>1 DEF Change, TypeOK
  <2>. QED
    BY <1>1, <2>1, <2>2, <2>3, <2>4 DEF Change, TypeOK, syncVars
<1>2. ASSUME NEW h \in Handlers, Handle(h)
      PROVE  TypeInv'
  <2>1. CASE Respond(h)
    BY <2>1, NoRequestTyped DEF Respond, TypeOK, RequestsNamed, syncVars
  <2>2. ASSUME pc[h] = "changed",
               Execute(backing[req[h].at], req[h].key, req[h].text)
        PROVE  /\ stores' \in [Replicas \cup {Shared} -> Held]
               /\ window' \in [Replicas -> [Names -> SUBSET (Texts \cup {None})]]
    <3>1. /\ backing[req[h].at] \in Replicas \cup {Shared}
          /\ req[h].key \in Names
          /\ req[h].text \in Texts \cup {None}
      BY <2>2 DEF TypeOK, RequestsNamed, RequestType
    <3>. QED
      BY <2>2, <3>1, ExecuteTyped
  <2>3. CASE Persist(h)
    BY <2>3, <2>2 DEF Persist, TypeOK, RequestsNamed, syncVars
  <2>4. CASE PersistFails(h)
    <3>1. /\ backing[req[h].at] \in Replicas \cup {Shared}
          /\ req[h].key \in Names
          /\ req[h].text \in Texts \cup {None}
      BY <2>4 DEF PersistFails, TypeOK, RequestsNamed, RequestType
    <3>2. CommandFails(backing[req[h].at], req[h].key, req[h].text)
      BY <2>4 DEF PersistFails
    <3>. QED
      BY <2>4, <3>1, <3>2, CommandFailsTyped DEF PersistFails, TypeOK, RequestsNamed, syncVars
  <2>. QED
    BY <1>2, <2>1, <2>3, <2>4 DEF Handle
<1>3. ASSUME NEW r \in Replicas, Sync(r)
      PROVE  TypeInv'
  <2>1. CASE SyncScan(r)
    <3>1. stores[backing[r]] \in Held
      BY DEF TypeOK
    <3>2. /\ got' \in [Replicas -> Held]
          /\ todo' \in [Replicas -> SUBSET Names]
          /\ window' \in [Replicas -> [Names -> SUBSET (Texts \cup {None})]]
      BY <2>1, <3>1, EmptyTyped DEF SyncScan, TypeOK, Held
    <3>. QED
      BY <2>1, <3>2 DEF SyncScan, TypeOK, RequestsNamed, handlerVars
  <2>2. ASSUME NEW n \in Names, SyncGet(r, n)
        PROVE  TypeInv'
    <3>1. stores[backing[r]][n] \in Texts \cup {None}
      BY DEF TypeOK, Held
    <3>2. got' \in [Replicas -> Held]
      BY <2>2, <3>1, UpdateIsHeld DEF SyncGet, TypeOK
    <3>. QED
      BY <2>2, <3>2 DEF SyncGet, TypeOK, RequestsNamed, handlerVars
  <2>3. ASSUME NEW n \in Names, SyncGetFails(r, n)
        PROVE  TypeInv'
    <3>1. /\ faults' \in 0..MaxFaults
          /\ window' \in [Replicas -> [Names -> SUBSET (Texts \cup {None})]]
      BY <2>3 DEF SyncGetFails, Fault, TypeOK
    <3>. QED
      BY <2>3, <3>1 DEF SyncGetFails, TypeOK, RequestsNamed, handlerVars
  <2>4. CASE SyncAborts(r)
    <3>1. faults' \in 0..MaxFaults
      BY <2>4 DEF SyncAborts, Fault, TypeOK
    <3>. QED
      BY <2>4, <3>1, EndRoundTyped DEF SyncAborts, TypeOK, RequestsNamed, handlerVars
  <2>5. CASE SyncSwap(r)
    BY <2>5, EndRoundTyped, InstallTyped DEF SyncSwap, TypeOK, RequestsNamed, handlerVars
  <2>. QED
    BY <1>3, <2>1, <2>2, <2>3, <2>4, <2>5 DEF Sync
<1>4. ASSUME NEW r \in Replicas, Restart(r)
      PROVE  TypeInv'
  <2>1. /\ flags' \in [Replicas -> Maps]
        /\ stores' \in [Replicas \cup {Shared} -> Held]
        /\ backing' \in [Replicas -> Replicas \cup {Shared}]
        /\ \A x \in Replicas : backing'[x] \in {x, Shared}
    <3>1. CASE /\ \E keys \in SUBSET Names : Install(r, ReadOnly(stores[Shared], keys))
               /\ backing' = [backing EXCEPT ![r] = Shared]
               /\ UNCHANGED stores
      BY <3>1, InstallTyped DEF TypeOK
    <3>2. CASE /\ \E texts \in {stores[r], Empty} :
                     /\ Install(r, texts)
                     /\ stores' = [stores EXCEPT ![r] = texts]
               /\ backing' = [backing EXCEPT ![r] = r]
      BY <3>2, EmptyTyped, InstallTyped DEF TypeOK
    <3>. QED
      BY <1>4, <3>1, <3>2 DEF Restart
  <2>3. faults' \in 0..MaxFaults
    BY <1>4 DEF Restart, Fault, TypeOK
  <2>4. /\ pc' \in [Handlers -> {"idle", "changed", "persisted"}]
        /\ req' \in [Handlers -> RequestType]
        /\ RequestsNamed'
    BY <1>4, NoRequestTyped DEF Restart, TypeOK, RequestsNamed
  <2>. QED
    BY <1>4, <2>1, <2>3, <2>4, EndRoundTyped DEF Restart, TypeOK
<1>5. ASSUME NEW r \in Replicas, NEW k \in Names, NEW t \in Posted, Configure(r, k, t)
      PROVE  TypeInv'
  <2>1. /\ backing[r] \in Replicas \cup {Shared}
        /\ t \in Texts \cup {None}
        /\ writes' \in 0..MaxWrites
    BY <1>5 DEF Configure, TypeOK
  <2>2. CASE Execute(backing[r], k, t) /\ UNCHANGED <<faults, late>>
    BY <1>5, <2>1, <2>2, ExecuteTyped
       DEF Configure, TypeOK, RequestsNamed, handlerVars, syncVars
  <2>3. CASE CommandFails(backing[r], k, t)
    BY <1>5, <2>1, <2>3, CommandFailsTyped
       DEF Configure, TypeOK, RequestsNamed, handlerVars, syncVars
  <2>. QED
    BY <1>5, <2>2, <2>3 DEF Configure
<1>6. ASSUME NEW c \in late, ExecuteLate(c)
      PROVE  TypeInv'
  <2>1. c.key \in Names /\ c.text \in Texts \cup {None}
    BY DEF TypeOK
  <2>. QED
    BY <1>6, <2>1, ExecuteTyped
       DEF ExecuteLate, TypeOK, RequestsNamed, handlerVars, syncVars
<1>7. CASE UNCHANGED vars
  BY <1>7 DEF vars, TypeOK, RequestsNamed
<1>. QED
  BY <1>1, <1>2, <1>3, <1>4, <1>5, <1>6, <1>7 DEF Next

(***************************************************************************)
(* Type correctness: whatever order reads, writes, faults and restarts     *)
(* come in, replicas build and serve maps of flags only.                   *)
(***************************************************************************)
THEOREM TypeCorrect == Spec => []TypeOK
<1>1. Spec => []TypeInv
  BY InitTyped, StepTyped, PTL DEF Spec
<1>2. TypeInv => TypeOK
  BY DEF TypeInv
<1>. QED
  BY <1>1, <1>2, PTL

-------------------------------------------------------------------------------
(***************************************************************************)
(* A command executed on a store keeps every round that is under way right:*)
(* a round over that store gets the new value into its window.             *)
(***************************************************************************)
LEMMA ExecuteKeepsRounds ==
    ASSUME TypeOK, NEW b \in Replicas \cup {Shared}, NEW k \in Names,
           NEW t \in Texts \cup {None}, Execute(b, k, t),
           NEW r \in syncing, RoundReadsWindow(r),
           UNCHANGED <<backing, syncVars>>
    PROVE  RoundReadsWindow(r)'
<1>. SUFFICES ASSUME NEW x \in Names
              PROVE  /\ stores'[backing[r]][x] \in window'[r][x]
                     /\ x \in todo[r] => got[r][x] = None
                     /\ x \notin todo[r] => got[r][x] \in window'[r][x]
  BY DEF RoundReadsWindow, syncVars
<1>1. /\ r \in Replicas
      /\ stores[backing[r]][x] \in window[r][x]
      /\ x \in todo[r] => got[r][x] = None
      /\ x \notin todo[r] => got[r][x] \in window[r][x]
  BY DEF RoundReadsWindow, TypeOK
<1>2. window[r][x] \subseteq window'[r][x]
  BY <1>1 DEF Execute, TypeOK
<1>3. CASE backing[r] = b /\ x = k
  <2>1. t \in window'[r][x]
    BY <1>1, <1>3 DEF Execute, TypeOK
  <2>2. stores'[backing[r]][x] = t
    BY <1>1, <1>3 DEF Execute, TypeOK, Held
  <2>. QED
    BY <1>1, <1>2, <2>1, <2>2
<1>4. CASE ~(backing[r] = b /\ x = k)
  <2>1. stores'[backing[r]][x] = stores[backing[r]][x]
    BY <1>1, <1>4 DEF Execute, TypeOK
  <2>. QED
    BY <1>1, <1>2, <2>1
<1>. QED
  BY <1>3, <1>4

LEMMA OthersKeepRounds ==
    ASSUME TypeOK, NEW r \in Replicas, NEW x \in syncing, x # r,
           RoundReadsWindow(x), backing'[x] = backing[x],
           stores'[backing[x]] = stores[backing[x]],
           todo'[x] = todo[x], got'[x] = got[x], window'[x] = window[x]
    PROVE  RoundReadsWindow(x)'
BY DEF RoundReadsWindow

LEMMA EndedRounds ==
    ASSUME TypeInv, RoundsReadWindow, NEW r \in Replicas, EndRound(r),
           \A x \in Replicas \ {r} :
               backing'[x] = backing[x] /\ stores'[backing[x]] = stores[backing[x]]
    PROVE  RoundsReadWindow'
<1>. SUFFICES ASSUME NEW x \in syncing'
              PROVE  RoundReadsWindow(x)'
  BY DEF RoundsReadWindow
<1>1. /\ x \in syncing /\ x # r /\ x \in Replicas
      /\ todo'[x] = todo[x] /\ got'[x] = got[x] /\ window'[x] = window[x]
  BY DEF EndRound, TypeInv, TypeOK
<1>. QED
  BY <1>1, OthersKeepRounds DEF RoundsReadWindow, TypeInv

LEMMA InitRounds == Init => RoundsReadWindow
BY DEF Init, RoundsReadWindow

LEMMA StepRounds == IInv /\ [Next]_vars => RoundsReadWindow'
<1>. SUFFICES ASSUME TypeInv, TypeOK, RequestsNamed, RoundsReadWindow, [Next]_vars
              PROVE  RoundsReadWindow'
  BY DEF IInv, TypeInv
<1>1. ASSUME UNCHANGED <<stores, backing, syncVars, window>>
      PROVE  RoundsReadWindow'
  BY <1>1 DEF RoundsReadWindow, RoundReadsWindow, syncVars
<1>2. ASSUME NEW h \in Handlers, NEW r \in Replicas, NEW n \in Names,
             NEW v \in Sent \cup {None}, Change(h, r, n, v)
      PROVE  RoundsReadWindow'
  BY <1>1, <1>2 DEF Change
<1>3. ASSUME NEW b \in Replicas \cup {Shared}, NEW k \in Names,
             NEW t \in Texts \cup {None}, Execute(b, k, t),
             UNCHANGED <<backing, syncVars>>
      PROVE  RoundsReadWindow'
  <2>1. ASSUME NEW r \in syncing
        PROVE  RoundReadsWindow(r)'
    BY <1>3, ExecuteKeepsRounds DEF RoundsReadWindow
  <2>. QED
    BY <1>3, <2>1 DEF RoundsReadWindow, syncVars
<1>4. ASSUME NEW b \in Replicas \cup {Shared}, NEW k \in Names,
             NEW t \in Texts \cup {None}, CommandFails(b, k, t),
             UNCHANGED <<backing, syncVars>>
      PROVE  RoundsReadWindow'
  BY <1>4, <1>3, <1>1 DEF CommandFails
<1>5. ASSUME NEW h \in Handlers, Handle(h)
      PROVE  RoundsReadWindow'
  <2>1. ASSUME pc[h] = "changed"
        PROVE  /\ backing[req[h].at] \in Replicas \cup {Shared}
               /\ req[h].key \in Names
               /\ req[h].text \in Texts \cup {None}
    BY <2>1 DEF TypeOK, RequestsNamed, RequestType
  <2>2. CASE Persist(h)
    BY <2>2, <2>1, <1>3 DEF Persist
  <2>3. CASE PersistFails(h)
    BY <2>3, <2>1, <1>4 DEF PersistFails
  <2>4. CASE Respond(h)
    BY <2>4, <1>1 DEF Respond
  <2>. QED
    BY <1>5, <2>2, <2>3, <2>4 DEF Handle
<1>6. ASSUME NEW r \in Replicas, Sync(r)
      PROVE  RoundsReadWindow'
  <2>1. ASSUME NEW x \in syncing, x # r, stores' = stores, backing' = backing,
               todo'[x] = todo[x], got'[x] = got[x], window'[x] = window[x]
        PROVE  RoundReadsWindow(x)'
    BY <2>1, OthersKeepRounds DEF RoundsReadWindow
  <2>2. CASE SyncScan(r)
    <3>1. RoundReadsWindow(r)'
      <4>1. SUFFICES ASSUME NEW n \in Names
                     PROVE  /\ stores'[backing'[r]][n] \in window'[r][n]
                            /\ n \in todo'[r] => got'[r][n] = None
                            /\ n \notin todo'[r] => got'[r][n] \in window'[r][n]
        BY DEF RoundReadsWindow
      <4>2. window'[r][n] = {stores[backing[r]][n]}
        BY <2>2 DEF SyncScan, TypeOK
      <4>3. CASE backing[r] = Shared
        BY <2>2, <4>2, <4>3 DEF SyncScan, TypeOK, Empty
      <4>4. CASE backing[r] # Shared
        BY <2>2, <4>2, <4>4 DEF SyncScan, TypeOK
      <4>. QED
        BY <4>3, <4>4
    <3>2. ASSUME NEW x \in syncing, x # r
          PROVE  RoundReadsWindow(x)'
      BY <2>2, <3>2, <2>1 DEF SyncScan, TypeOK
    <3>. QED
      BY <2>2, <3>1, <3>2 DEF SyncScan, RoundsReadWindow
  <2>3. ASSUME NEW n \in Names, SyncGet(r, n)
        PROVE  RoundsReadWindow'
    <3>1. RoundReadsWindow(r)'
      BY <2>3 DEF SyncGet, TypeOK, Held, RoundReadsWindow, RoundsReadWindow
    <3>2. ASSUME NEW x \in syncing, x # r
          PROVE  RoundReadsWindow(x)'
      BY <2>3, <3>2, <2>1 DEF SyncGet, TypeOK
    <3>. QED
      BY <2>3, <3>1, <3>2 DEF SyncGet, RoundsReadWindow
  <2>4. ASSUME NEW n \in Names, SyncGetFails(r, n)
        PROVE  RoundsReadWindow'
    <3>1. RoundReadsWindow(r)'
      BY <2>4 DEF SyncGetFails, TypeOK, RoundReadsWindow, RoundsReadWindow
    <3>2. ASSUME NEW x \in syncing, x # r
          PROVE  RoundReadsWindow(x)'
      BY <2>4, <3>2, <2>1 DEF SyncGetFails, TypeOK
    <3>. QED
      BY <2>4, <3>1, <3>2 DEF SyncGetFails, RoundsReadWindow
  <2>5. CASE SyncAborts(r)
    BY <2>5, EndedRounds DEF SyncAborts
  <2>6. CASE SyncSwap(r)
    BY <2>6, EndedRounds DEF SyncSwap
  <2>. QED
    BY <1>6, <2>2, <2>3, <2>4, <2>5, <2>6 DEF Sync
<1>7. ASSUME NEW r \in Replicas, Restart(r)
      PROVE  RoundsReadWindow'
  <2>1. ASSUME NEW x \in Replicas \ {r}
        PROVE  backing'[x] = backing[x] /\ stores'[backing[x]] = stores[backing[x]]
    <3>1. backing[x] \in {x, Shared} /\ r # Shared
      BY FlagReplicasAssumption DEF TypeOK
    <3>. QED
      BY <1>7, <3>1 DEF Restart, TypeOK
  <2>. QED
    BY <1>7, <2>1, EndedRounds DEF Restart
<1>8. CASE UNCHANGED vars
  BY <1>8, <1>1 DEF vars, syncVars
<1>9. ASSUME NEW r \in Replicas, NEW k \in Names, NEW t \in Posted, Configure(r, k, t)
      PROVE  RoundsReadWindow'
  <2>1. backing[r] \in Replicas \cup {Shared} /\ t \in Texts \cup {None}
    BY FlagReplicasAssumption DEF TypeOK
  <2>. QED
    BY <1>9, <2>1, <1>3, <1>4 DEF Configure
<1>10. ASSUME NEW c \in late, ExecuteLate(c)
       PROVE  RoundsReadWindow'
  <2>1. c.key \in Names /\ c.text \in Texts \cup {None}
    BY DEF TypeOK
  <2>. QED
    BY <1>10, <2>1, <1>3 DEF ExecuteLate
<1>. QED
  BY <1>2, <1>5, <1>6, <1>7, <1>8, <1>9, <1>10 DEF Next

(***************************************************************************)
(* The inductive invariant.                                                *)
(***************************************************************************)
THEOREM Invariance == Spec => []IInv
<1>1. Init => IInv
  BY InitTyped, InitRounds DEF IInv
<1>2. IInv /\ [Next]_vars => IInv'
  BY StepTyped, StepRounds DEF IInv
<1>. QED
  BY <1>1, <1>2, PTL DEF Spec

(***************************************************************************)
(* loadFromStore: every flag a round puts into a replica's map was defined *)
(* by a text the store held during that round, and every flag it leaves    *)
(* out was, key by key, in no text, or its GET failed.                     *)
(***************************************************************************)
THEOREM SyncWindowSafe == Spec => SyncReadsWindow
<1>. DEFINE Shown(r) ==
              \A n \in Names :
                 IF flags'[r][n] = None
                   THEN \A k \in Names : \E t \in window[r][k] : t \notin Naming(n)
                   ELSE \E k \in Names : Flag(n, flags'[r][n]) \in window[r][k]
<1>1. ASSUME IInv, NEW r \in Replicas, SyncSwap(r)
      PROVE  Shown(r)
  <2>. SUFFICES ASSUME NEW n \in Names
                PROVE  IF flags'[r][n] = None
                         THEN \A k \in Names : \E t \in window[r][k] : t \notin Naming(n)
                         ELSE \E k \in Names : Flag(n, flags'[r][n]) \in window[r][k]
    OBVIOUS
  <2>1. flags'[r] \in Decoded(got[r])
    BY <1>1, InstallTyped DEF SyncSwap, IInv, TypeInv, TypeOK
  <2>2. \A k \in Names : got[r][k] \in window[r][k]
    BY <1>1 DEF SyncSwap, IInv, RoundsReadWindow, RoundReadsWindow
  <2>. QED
    BY <2>1, <2>2, DecodedFlags
<1>2. IInv /\ [Next]_vars => [\A r \in Replicas : SyncSwap(r) => Shown(r)]_vars
  BY <1>1
<1>. QED
  BY <1>2, Invariance, PTL DEF Spec, SyncReadsWindow

(***************************************************************************)
(* loadFromStore: a round during which the store did not change and no GET *)
(* failed leaves the replica with what the store's texts decode to.        *)
(***************************************************************************)
LEMMA QuietRoundStep ==
    ASSUME IInv, NEW r \in Replicas, SyncSwap(r), QuietRound(r)
    PROVE  flags'[r] \in Decoded(stores[backing[r]])
<1>1. /\ flags'[r] \in Decoded(got[r])
      /\ got[r] \in Held
      /\ stores[backing[r]] \in Held
  BY InstallTyped DEF SyncSwap, IInv, TypeInv, TypeOK
<1>2. RoundReadsWindow(r) /\ todo[r] = {}
  BY DEF SyncSwap, IInv, RoundsReadWindow
<1>3. ASSUME NEW k \in Names
      PROVE  got[r][k] = stores[backing[r]][k]
  BY <1>2 DEF RoundReadsWindow, QuietRound
<1>4. got[r] = stores[backing[r]]
  BY <1>1, <1>3 DEF Held
<1>. QED
  BY <1>1, <1>4

THEOREM QuietRoundsRepair == Spec => QuietRoundRepairs
<1>1. IInv /\ [Next]_vars =>
        [\A r \in Replicas :
            SyncSwap(r) /\ QuietRound(r) => flags'[r] \in Decoded(stores[backing[r]])]_vars
  BY QuietRoundStep
<1>. QED
  BY <1>1, Invariance, PTL DEF Spec, QuietRoundRepairs

-------------------------------------------------------------------------------
(* In a settled system a round keeps every replica on its store's flags. *)
LEMMA SettledRound ==
    ASSUME IInv, Settled, UNCHANGED faults, NEW r \in Replicas, Sync(r)
    PROVE  Settled'
<1>. USE DEF IInv, TypeInv
<1>1. faults \in Int
  BY DEF TypeOK
<1>2. ~Fault
  BY <1>1 DEF Fault
<1>3. CASE SyncScan(r)
  <2>1. UNCHANGED <<flags, stores, backing, pc, late>>
    BY <1>3 DEF SyncScan, handlerVars
  <2>2. ASSUME NEW x \in syncing', NEW n \in Names
        PROVE  window'[x][n] = {stores[backing[x]][n]}
    <3>1. CASE x = r
      BY <1>3, <3>1 DEF SyncScan, TypeOK
    <3>2. CASE x # r
      BY <1>3, <3>2 DEF SyncScan, Settled, TypeOK
    <3>. QED
      BY <3>1, <3>2
  <2>. QED
    BY <2>1, <2>2 DEF Settled, Current
<1>4. ASSUME NEW n \in Names, SyncGet(r, n)
      PROVE  Settled'
  BY <1>4 DEF SyncGet, Settled, Current, handlerVars
<1>5. ASSUME NEW n \in Names, SyncGetFails(r, n)
      PROVE  FALSE
  BY <1>5, <1>2 DEF SyncGetFails
<1>6. ~SyncAborts(r)
  BY <1>2 DEF SyncAborts
<1>7. CASE SyncSwap(r)
  <2>1. UNCHANGED <<stores, backing, pc, late>>
    BY <1>7 DEF SyncSwap, handlerVars
  <2>2. ASSUME NEW k \in Names
        PROVE  window[r][k] = {stores[backing[r]][k]}
    BY <1>7 DEF SyncSwap, Settled
  <2>3. \A k \in Names : stores[backing[r]][k] \in Texts \cup {None}
    BY DEF TypeOK, Held
  <2>4. QuietRound(r)
    BY <2>2, <2>3 DEF QuietRound
  <2>5. flags'[r] \in Decoded(stores[backing[r]])
    BY <1>7, <2>4, QuietRoundStep
  <2>6. ASSUME NEW x \in Replicas
        PROVE  flags'[x] \in Decoded(stores[backing[x]])
    <3>1. CASE x = r
      BY <2>5, <3>1
    <3>2. CASE x # r
      BY <1>7, <3>2, InstallTyped DEF SyncSwap, Settled, Current, TypeOK
    <3>. QED
      BY <3>1, <3>2
  <2>7. ASSUME NEW x \in syncing', NEW n \in Names
        PROVE  window'[x][n] = {stores[backing[x]][n]}
    BY <1>7 DEF SyncSwap, EndRound, Settled, TypeOK
  <2>. QED
    BY <2>1, <2>6, <2>7 DEF Settled, Current
<1>. QED
  BY <1>3, <1>4, <1>5, <1>6, <1>7 DEF Sync

(***************************************************************************)
(* startStoreSync: only a write or a fault takes a settled system out of   *)
(* that state.  With QuietRoundsRepair it is the safety half of Converges: *)
(* one quiet round repairs a replica, and no later round undoes it.        *)
(***************************************************************************)
THEOREM SettledSafe == Spec => SettledStays
<1>1. ASSUME IInv, Settled, Next, UNCHANGED <<writes, faults>>
      PROVE  Settled'
  <2>1. writes \in Int /\ faults \in Int
    BY <1>1 DEF IInv, TypeInv, TypeOK
  <2>2. ASSUME NEW h \in Handlers, NEW r \in Replicas, NEW n \in Names,
               NEW v \in Sent \cup {None}, Change(h, r, n, v)
        PROVE  FALSE
    BY <1>1, <2>1, <2>2 DEF Change
  <2>3. ASSUME NEW h \in Handlers, Handle(h)
        PROVE  FALSE
    BY <1>1, <2>3 DEF Handle, Persist, PersistFails, Respond, Settled
  <2>4. ASSUME NEW r \in Replicas, NEW k \in Names, NEW t \in Posted, Configure(r, k, t)
        PROVE  FALSE
    BY <1>1, <2>1, <2>4 DEF Configure
  <2>5. late = {}
    BY <1>1 DEF Settled
  <2>6. ASSUME NEW r \in Replicas, Restart(r)
        PROVE  FALSE
    BY <1>1, <2>1, <2>6 DEF Restart, Fault
  <2>. QED
    BY <1>1, <2>2, <2>3, <2>4, <2>5, <2>6, SettledRound DEF Next
<1>2. ASSUME Settled, UNCHANGED vars
      PROVE  Settled'
  BY <1>2 DEF Settled, Current, vars
<1>3. IInv /\ [Next]_vars => [Settled /\ UNCHANGED <<writes, faults>> => Settled']_vars
  BY <1>1, <1>2
<1>. QED
  BY <1>3, Invariance, PTL DEF Spec, SettledStays
===============================================================================
