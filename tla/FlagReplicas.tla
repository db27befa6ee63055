---------------------------- MODULE FlagReplicas ----------------------------
(***************************************************************************)
(* Feature flags on several control-plane replicas over one shared store.  *)
(*                                                                         *)
(* A write handler (createFlagHandler, updateFlagHandler,                  *)
(* deleteFlagHandler in control-plane/main.go) changes the replica's map,  *)
(* then sends one command to the store, and answers 200 whether or not the *)
(* command succeeded.  Every replica also runs loadFromStore in a loop:    *)
(* SCAN for the keys, GET them one at a time, replace the whole map.  A    *)
(* GET that fails leaves its flag out; a SCAN that fails, or a failure in  *)
(* one of the other three prefixes, abandons the round.                    *)
(*                                                                         *)
(* A command whose client gave up after two seconds may still be on its    *)
(* way: the store executes it whenever it arrives, after commands that     *)
(* were sent later, or never (redisCommand opens a connection for each).   *)
(*                                                                         *)
(* A replica that cannot reach the shared store when it starts uses its    *)
(* own file instead, until it is restarted (NewConfigStore).               *)
(*                                                                         *)
(* The store holds texts.  A handler stores a flag under its own name, but *)
(* POST /config stores any text under any key: a round leaves out what     *)
(* does not decode, and takes a flag's name from the text, not the key.    *)
(*                                                                         *)
(* Experiments are stored, read and replaced in the same way.              *)
(*                                                                         *)
(* window is auxiliary.  A definition marked "faulty" is a plausible bug   *)
(* in the one after it and is not used.                                    *)
(***************************************************************************)
EXTENDS Integers

CONSTANTS
    Replicas,
    Handlers,    \* write requests that may be in progress at once
    Names,       \* flag names
    Values,      \* flag definitions
    Garbage,     \* a text that is no flag
    Sent,        \* definitions that write requests carry
    Posted,      \* texts that POST /config stores
    None,        \* marks an absent flag or text
    Shared,      \* the shared store
    MaxWrites,   \* bound on write requests
    MaxFaults,   \* bound on failed commands and restarts
    MayFallBack  \* the shared store may be unreachable when a replica starts

Maps == [Names -> Values \cup {None}]
Empty == [n \in Names |-> None]

(***************************************************************************)
(* What a store holds under the keys "flag:" \o n.                         *)
(***************************************************************************)
Flag(n, v) == [name |-> n, def |-> v]
Texts == [name : Names, def : Values] \cup {Garbage}
Held == [Names -> Texts \cup {None}]

ASSUME FlagReplicasAssumption ==
    /\ None \notin Values \cup Replicas
    /\ {None, Garbage} \cap [name : Names, def : Values] = {}
    /\ Sent \subseteq Values
    /\ Posted \subseteq Texts
    /\ Shared \notin Replicas
    /\ MaxWrites \in Nat
    /\ MaxFaults \in Nat
    /\ MayFallBack \in BOOLEAN

VARIABLES
    flags,    \* each replica's map of flags
    stores,   \* the shared store, and the file of each replica
    backing,  \* the store each replica uses: Shared or its own file
    pc,       \* each handler: idle, changed (memory only) or persisted
    req,      \* the handler's replica, key and text
    syncing,  \* replicas in the middle of loadFromStore
    todo,     \* keys their SCAN returned and not read yet
    got,      \* the texts they have read
    window,   \* texts each key has had since, None where it was not read
    writes,   \* write requests so far
    faults,   \* failed commands and restarts so far
    late      \* commands still on their way to the shared store

handlerVars == <<pc, req>>
syncVars == <<syncing, todo, got>>
vars == <<flags, stores, backing, pc, req, syncing, todo, got, window, writes, faults,
          late>>

NoRequest == [at |-> None, key |-> None, text |-> None]

NoWindow == [n \in Names |-> {}]

Init ==
    /\ flags = [r \in Replicas |-> Empty]
    /\ stores = [b \in Replicas \cup {Shared} |-> Empty]
    /\ backing = [r \in Replicas |-> Shared]
    /\ pc = [h \in Handlers |-> "idle"]
    /\ req = [h \in Handlers |-> NoRequest]
    /\ syncing = {}
    /\ todo = [r \in Replicas |-> {}]
    /\ got = [r \in Replicas |-> Empty]
    /\ window = [r \in Replicas |-> NoWindow]
    /\ writes = 0
    /\ faults = 0
    /\ late = {}

Fault ==
    /\ faults < MaxFaults
    /\ faults' = faults + 1

-------------------------------------------------------------------------------
(***************************************************************************)
(* A create or update request, or a delete when v is None, reaches replica *)
(* r, which changes its map under flagsMu.                                 *)
(***************************************************************************)
Change(h, r, n, v) ==
    /\ pc[h] = "idle"
    /\ writes < MaxWrites
    /\ flags' = [flags EXCEPT ![r][n] = v]
    /\ pc' = [pc EXCEPT ![h] = "changed"]
    /\ req' = [req EXCEPT ![h] =
                 [at |-> r, key |-> n, text |-> IF v = None THEN None ELSE Flag(n, v)]]
    /\ writes' = writes + 1
    /\ UNCHANGED <<stores, backing, syncVars, window, faults, late>>

(***************************************************************************)
(* The store executes SET or DEL.  Every round in progress over that store *)
(* may or may not have read the key already.                               *)
(***************************************************************************)
Execute(b, k, t) ==
    /\ stores' = [stores EXCEPT ![b][k] = t]
    /\ window' = [r \in Replicas |->
                    IF r \in syncing /\ backing[r] = b
                      THEN [window[r] EXCEPT ![k] = @ \cup {t}]
                      ELSE window[r]]

Persist(h) ==
    /\ pc[h] = "changed"
    /\ Execute(backing[req[h].at], req[h].key, req[h].text)
    /\ pc' = [pc EXCEPT ![h] = "persisted"]
    /\ UNCHANGED <<flags, backing, req, syncVars, writes, faults, late>>

(***************************************************************************)
(* A command fails: it was executed and the answer did not come back in    *)
(* time, or it never reaches the shared store, or it reaches it later.  A  *)
(* file store's map has the change even when the file does not.            *)
(***************************************************************************)
CommandFails(b, k, t) ==
    /\ Fault
    /\ \/ Execute(b, k, t) /\ UNCHANGED late
       \/ /\ b = Shared
          /\ late' \in {late, late \cup {[id |-> faults', key |-> k, text |-> t]}}
          /\ UNCHANGED <<stores, window>>

\* A command whose client gave up arrives, in no order with any other.
ExecuteLate(c) ==
    /\ c \in late
    /\ Execute(Shared, c.key, c.text)
    /\ late' = late \ {c}
    /\ UNCHANGED <<flags, backing, handlerVars, syncVars, writes, faults>>

\* The handler only logs that the store failed.
PersistFails(h) ==
    /\ pc[h] = "changed"
    /\ CommandFails(backing[req[h].at], req[h].key, req[h].text)
    /\ pc' = [pc EXCEPT ![h] = "persisted"]
    /\ UNCHANGED <<flags, backing, req, syncVars, writes>>

\* The handler answers 200, also when the store failed.
Respond(h) ==
    /\ pc[h] = "persisted"
    /\ pc' = [pc EXCEPT ![h] = "idle"]
    /\ req' = [req EXCEPT ![h] = NoRequest]
    /\ UNCHANGED <<flags, stores, backing, syncVars, window, writes, faults, late>>

(***************************************************************************)
(* setConfigHandler: the key may be a flag's, and the text anything.  The  *)
(* store is written and no replica's map; when the store fails the answer  *)
(* is 500.                                                                 *)
(***************************************************************************)
Configure(r, k, t) ==
    /\ writes < MaxWrites
    /\ writes' = writes + 1
    /\ \/ Execute(backing[r], k, t) /\ UNCHANGED <<faults, late>>
       \/ CommandFails(backing[r], k, t)
    /\ UNCHANGED <<flags, backing, handlerVars, syncVars>>

-------------------------------------------------------------------------------
(***************************************************************************)
(* GetAllByPrefix.  Over the shared store SCAN gives the keys; over a file *)
(* the map is copied under the read lock in one step.                      *)
(***************************************************************************)
SyncScanKnown(r) ==  \* faulty
    /\ r \notin syncing
    /\ syncing' = syncing \cup {r}
    /\ todo' = [todo EXCEPT ![r] = {n \in Names : flags[r][n] # None}]
    /\ window' = [window EXCEPT ![r] = [k \in Names |-> {stores[backing[r]][k]}]]
    /\ UNCHANGED <<flags, stores, backing, handlerVars, got, writes, faults, late>>

SyncScan(r) ==
    LET stored == stores[backing[r]]
    IN  /\ r \notin syncing
        /\ syncing' = syncing \cup {r}
        /\ todo' = [todo EXCEPT ![r] =
                      IF backing[r] = Shared THEN {k \in Names : stored[k] # None} ELSE {}]
        /\ got' = [got EXCEPT ![r] = IF backing[r] = Shared THEN Empty ELSE stored]
        /\ window' = [window EXCEPT ![r] = [k \in Names |-> {stored[k]}]]
        /\ UNCHANGED <<flags, stores, backing, handlerVars, writes, faults, late>>

\* GET of one key; a key deleted since the SCAN is left out.
SyncGet(r, k) ==
    /\ r \in syncing
    /\ k \in todo[r]
    /\ got' = [got EXCEPT ![r][k] = stores[backing[r]][k]]
    /\ todo' = [todo EXCEPT ![r] = @ \ {k}]
    /\ UNCHANGED <<flags, stores, backing, handlerVars, syncing, window, writes, faults,
                   late>>

(***************************************************************************)
(* GET fails: GetAllByPrefix goes on with the next key.                    *)
(***************************************************************************)
SyncGetFails(r, k) ==
    /\ Fault
    /\ r \in syncing
    /\ k \in todo[r]
    /\ todo' = [todo EXCEPT ![r] = @ \ {k}]
    /\ window' = [window EXCEPT ![r][k] = @ \cup {None}]
    /\ UNCHANGED <<flags, stores, backing, handlerVars, syncing, got, writes, late>>

EndRound(r) ==
    /\ syncing' = syncing \ {r}
    /\ todo' = [todo EXCEPT ![r] = {}]
    /\ got' = [got EXCEPT ![r] = Empty]
    /\ window' = [window EXCEPT ![r] = NoWindow]

\* SCAN fails, or a later prefix cannot be read: loadFromStore returns early.
SyncAborts(r) ==
    /\ Fault
    /\ r \in syncing
    /\ backing[r] = Shared
    /\ EndRound(r)
    /\ UNCHANGED <<flags, stores, backing, handlerVars, writes, late>>

(***************************************************************************)
(* json.Unmarshal of each text.  A flag is called what its text says; of   *)
(* two texts that name one flag a Go map's order chooses.                  *)
(***************************************************************************)
Naming(n) == [name : {n}, def : Values]

Definitions(texts, n) == {t.def : t \in {texts[k] : k \in Names} \cap Naming(n)}

Choices(texts, n) ==
    IF Definitions(texts, n) = {} THEN {None} ELSE Definitions(texts, n)

DecodedByKey(texts) ==  \* faulty
    {[n \in Names |-> IF texts[n] \in {Garbage, None} THEN None ELSE texts[n].def]}

DecodedUnchecked(texts) ==  \* faulty
    {m \in [Names -> Values \cup {None, Garbage}] : \A n \in Names :
        IF texts[n] = Garbage THEN m[n] = Garbage ELSE m[n] \in Choices(texts, n)}

Decoded(texts) == {m \in Maps : \A n \in Names : m[n] \in Choices(texts, n)}

Install(r, texts) == \E m \in Decoded(texts) : flags' = [flags EXCEPT ![r] = m]

(***************************************************************************)
(* The map is replaced, with whatever requests wrote into it since the     *)
(* round began.                                                            *)
(***************************************************************************)
SyncMerges(r) ==  \* faulty
    /\ r \in syncing
    /\ todo[r] = {}
    /\ \E m \in Decoded(got[r]) :
          flags' = [flags EXCEPT ![r] = [n \in Names |->
                      IF m[n] # None THEN m[n] ELSE flags[r][n]]]
    /\ EndRound(r)
    /\ UNCHANGED <<stores, backing, handlerVars, writes, faults, late>>

SyncSwapEarly(r) ==  \* faulty
    /\ r \in syncing
    /\ Install(r, got[r])
    /\ EndRound(r)
    /\ UNCHANGED <<stores, backing, handlerVars, writes, faults, late>>

SyncSwap(r) ==
    /\ r \in syncing
    /\ todo[r] = {}
    /\ Install(r, got[r])
    /\ EndRound(r)
    /\ UNCHANGED <<stores, backing, handlerVars, writes, faults, late>>

-------------------------------------------------------------------------------
(***************************************************************************)
(* A replica stops with its requests unfinished and starts again.  When    *)
(* the shared store answers PING it loads that before it serves, as far as *)
(* its reads succeed; otherwise it loads its own file, which may have been *)
(* cut short (ConfigStore has the file's history in detail).               *)
(***************************************************************************)
ReadOnly(texts, keys) == [k \in Names |-> IF k \in keys THEN texts[k] ELSE None]

Restart(r) ==
    /\ Fault
    /\ \/ /\ \E keys \in SUBSET Names : Install(r, ReadOnly(stores[Shared], keys))
          /\ backing' = [backing EXCEPT ![r] = Shared]
          /\ UNCHANGED stores
       \/ /\ MayFallBack
          /\ \E texts \in {stores[r], Empty} :
                /\ Install(r, texts)
                /\ stores' = [stores EXCEPT ![r] = texts]
          /\ backing' = [backing EXCEPT ![r] = r]
    /\ pc' = [h \in Handlers |-> IF req[h].at = r THEN "idle" ELSE pc[h]]
    /\ req' = [h \in Handlers |-> IF req[h].at = r THEN NoRequest ELSE req[h]]
    /\ EndRound(r)
    /\ UNCHANGED <<writes, late>>

-------------------------------------------------------------------------------
Handle(h) ==
    \/ Persist(h)
    \/ PersistFails(h)
    \/ Respond(h)

Sync(r) ==
    \/ SyncScan(r)
    \/ \E k \in Names : SyncGet(r, k) \/ SyncGetFails(r, k)
    \/ SyncAborts(r)
    \/ SyncSwap(r)

Next ==
    \/ \E h \in Handlers :
          \/ \E r \in Replicas, n \in Names, v \in Sent \cup {None} : Change(h, r, n, v)
          \/ Handle(h)
    \/ \E r \in Replicas, k \in Names, t \in Posted : Configure(r, k, t)
    \/ \E c \in late : ExecuteLate(c)
    \/ \E r \in Replicas : Sync(r) \/ Restart(r)

Spec == Init /\ [][Next]_vars

(***************************************************************************)
(* Handlers run to their end, and the ticker of startStoreSync starts a    *)
(* round every two seconds whose reads all return within their deadline.   *)
(***************************************************************************)
FairSpec ==
    /\ Spec
    /\ \A h \in Handlers : WF_vars(Handle(h))
    /\ \A r \in Replicas : WF_vars(Sync(r))

-------------------------------------------------------------------------------
(***************************************************************************)
(* The type invariant: every map a replica serves is a map of flags,       *)
(* whatever its reads returned and whatever was stored.                    *)
(***************************************************************************)
RequestType ==
    [at : Replicas \cup {None}, key : Names \cup {None}, text : Texts \cup {None}]

TypeOK ==
    /\ flags \in [Replicas -> Maps]
    /\ stores \in [Replicas \cup {Shared} -> Held]
    /\ backing \in [Replicas -> Replicas \cup {Shared}]
    /\ \A r \in Replicas : backing[r] \in {r, Shared}
    /\ pc \in [Handlers -> {"idle", "changed", "persisted"}]
    /\ req \in [Handlers -> RequestType]
    /\ syncing \subseteq Replicas
    /\ todo \in [Replicas -> SUBSET Names]
    /\ got \in [Replicas -> Held]
    /\ window \in [Replicas -> [Names -> SUBSET (Texts \cup {None})]]
    /\ writes \in 0..MaxWrites
    /\ faults \in 0..MaxFaults
    /\ late \subseteq [id : Nat, key : Names, text : Texts \cup {None}]

(***************************************************************************)
(* A flag that a round of loadFromStore puts into the map is in a text the *)
(* store held, under whatever key, at some moment of that round; a flag it *)
(* leaves out was at some moment under no key, each in its own moment, or  *)
(* its GET failed.  Nothing a replica only remembered survives the round.  *)
(***************************************************************************)
SyncReadsWindow ==
    [][\A r \in Replicas : SyncSwap(r) =>
          \A n \in Names :
             IF flags'[r][n] = None
               THEN \A k \in Names : \E t \in window[r][k] : t \notin Naming(n)
               ELSE \E k \in Names : Flag(n, flags'[r][n]) \in window[r][k]]_vars

(***************************************************************************)
(* One quiet round is enough: when no text of the store changed and no GET *)
(* failed between a round's SCAN and its swap, the replica serves what its *)
(* store's texts decode to, whatever it served before and whoever wrote    *)
(* them.                                                                   *)
(***************************************************************************)
QuietRound(r) == \A k \in Names : \E t \in Texts \cup {None} : window[r][k] = {t}

QuietRoundRepairs ==
    [][\A r \in Replicas :
          SyncSwap(r) /\ QuietRound(r) => flags'[r] \in Decoded(stores[backing[r]])]_vars

(***************************************************************************)
(* A repaired system stays repaired: once nothing is on its way, every     *)
(* replica serves its store's flags and every round under way began after  *)
(* the last change, only a new write or a new fault ends that.  Rounds     *)
(* themselves never put an old value back.                                 *)
(***************************************************************************)
Current == \A r \in Replicas : flags[r] \in Decoded(stores[backing[r]])

Settled ==
    /\ \A h \in Handlers : pc[h] = "idle"
    /\ late = {}
    /\ Current
    /\ \A r \in syncing, k \in Names : window[r][k] = {stores[backing[r]][k]}

SettledStays == [][Settled /\ UNCHANGED <<writes, faults>> => Settled']_vars

(***************************************************************************)
(* Once writes and faults are over, every replica serves what its store    *)
(* holds, and keeps doing so: those on the shared store agree, except on a *)
(* flag that two keys define differently, where each round of each replica *)
(* takes either.  Lost writes, failed reads, reverted memory and restarts  *)
(* are all repaired by later rounds.  A replica that fell back to its file *)
(* is not: it agrees with nobody until it is started again.                *)
(***************************************************************************)
Converges == <>[]Current
===============================================================================
