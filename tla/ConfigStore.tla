----------------------------- MODULE ConfigStore -----------------------------
(***************************************************************************)
(* The file-backed mode of ConfigStore (control-plane/configstore.go).     *)
(*                                                                         *)
(* Set and Delete change the map under the mutex and then save the whole   *)
(* map: it is marshalled under the read lock, and os.WriteFile truncates   *)
(* and writes the file with no lock held.  Handlers run concurrently, so   *)
(* every one of these is a step of its own and saves overlap.              *)
(*                                                                         *)
(* The process can stop between any two steps.  An orderly shutdown is no  *)
(* exception: main returns as soon as Shutdown is called and does not wait *)
(* for the handlers in flight.                                             *)
(*                                                                         *)
(* history, alone, settled and acked are auxiliary.  A definition marked   *)
(* "faulty" is a plausible bug in the one after it and is not used.        *)
(***************************************************************************)
CONSTANTS
    Writers,    \* handlers that may be writing at once
    Keys,
    Values,
    None,       \* marks an absent key
    Unreadable, \* a file that is missing, truncated or cut short
    MayFail,    \* os.WriteFile may return an error
    MayStop     \* the process may stop and start again

Maps == [Keys -> Values \cup {None}]
Empty == [k \in Keys |-> None]

ASSUME ConfigStoreAssumption ==
    /\ None \notin Values \cup Writers
    /\ Unreadable \notin Maps
    /\ MayFail \in BOOLEAN
    /\ MayStop \in BOOLEAN

VARIABLES
    data,    \* cs.data
    file,    \* what is in the file
    pc,      \* how far each writer is: idle, stored, marshalled or truncated
    snap,    \* the map each writer marshalled
    history, \* maps data has been since the process started
    alone,   \* the writer that has met no other since it began, or None
    settled, \* no write began since a lone save ended or the process started
    acked    \* the map the last such save wrote

vars == <<data, file, pc, snap, history, alone, settled, acked>>
auxVars == <<history, alone, settled, acked>>

(***************************************************************************)
(* loadFromFile: whatever cannot be decoded starts a fresh map.            *)
(***************************************************************************)
DecodeWithoutRecovery(f) == f  \* faulty

Decode(f) == IF f = Unreadable THEN Empty ELSE f

Init ==
    /\ data = Empty
    /\ file = Unreadable
    /\ pc = [w \in Writers |-> "idle"]
    /\ snap = [w \in Writers |-> Empty]
    /\ history = {Empty}
    /\ alone = None
    /\ settled = TRUE
    /\ acked = Empty

-------------------------------------------------------------------------------
(***************************************************************************)
(* Set(k, v), and Delete(k) when v is None: the map changes.               *)
(***************************************************************************)
Store(w, k, v) ==
    /\ pc[w] = "idle"
    /\ data' = [data EXCEPT ![k] = v]
    /\ pc' = [pc EXCEPT ![w] = "stored"]
    /\ history' = history \cup {data'}
    /\ alone' = IF \A x \in Writers : pc[x] = "idle" THEN w ELSE None
    /\ settled' = FALSE
    /\ UNCHANGED <<file, snap, acked>>

(***************************************************************************)
(* saveToFile under the read lock: json.Marshal(cs.data).                  *)
(***************************************************************************)
Marshal(w) ==
    /\ pc[w] = "stored"
    /\ snap' = [snap EXCEPT ![w] = data]
    /\ pc' = [pc EXCEPT ![w] = "marshalled"]
    /\ UNCHANGED <<data, file, auxVars>>

(***************************************************************************)
(* os.WriteFile opens the file with O_TRUNC.                               *)
(***************************************************************************)
TruncateBeforeMarshal(w) ==  \* faulty
    /\ pc[w] \in {"stored", "marshalled"}
    /\ file' = Unreadable
    /\ pc' = [pc EXCEPT ![w] = IF @ = "stored" THEN @ ELSE "truncated"]
    /\ UNCHANGED <<data, snap, auxVars>>

Truncate(w) ==
    /\ pc[w] = "marshalled"
    /\ file' = Unreadable
    /\ pc' = [pc EXCEPT ![w] = "truncated"]
    /\ UNCHANGED <<data, snap, auxVars>>

Finish(w) ==
    /\ pc' = [pc EXCEPT ![w] = "idle"]
    /\ snap' = [snap EXCEPT ![w] = Empty]

(***************************************************************************)
(* ... and writes the bytes from its start.  A longer text written by an   *)
(* overlapping save may show behind them; the decoder reads one value and  *)
(* ignores it.                                                             *)
(***************************************************************************)
WriteMerged(w) ==  \* faulty
    /\ pc[w] = "truncated"
    /\ file' = [k \in Keys |-> IF snap[w][k] # None THEN snap[w][k] ELSE acked[k]]
    /\ settled' = (alone = w)
    /\ acked' = IF alone = w THEN snap[w] ELSE acked
    /\ Finish(w)
    /\ UNCHANGED <<data, history, alone>>

WriteOut(w) ==
    /\ pc[w] = "truncated"
    /\ file' = snap[w]
    /\ settled' = (alone = w)
    /\ acked' = IF alone = w THEN snap[w] ELSE acked
    /\ Finish(w)
    /\ UNCHANGED <<data, history, alone>>

(***************************************************************************)
(* os.WriteFile fails: the file could not be opened, or could not be       *)
(* written after it was truncated.  The map keeps the change.              *)
(***************************************************************************)
SaveFails(w) ==
    /\ MayFail
    /\ pc[w] \in {"marshalled", "truncated"}
    /\ Finish(w)
    /\ UNCHANGED <<data, file, auxVars>>

(***************************************************************************)
(* The process stops, whatever the writers are doing, and a new one loads  *)
(* the file.                                                               *)
(***************************************************************************)
Restart ==
    /\ MayStop
    /\ data' = Decode(file)
    /\ pc' = [w \in Writers |-> "idle"]
    /\ snap' = [w \in Writers |-> Empty]
    /\ history' = {data'}
    /\ alone' = None
    /\ settled' = TRUE
    /\ acked' = data'
    /\ UNCHANGED file

-------------------------------------------------------------------------------
Next ==
    \/ \E w \in Writers :
          \/ \E k \in Keys, v \in Values \cup {None} : Store(w, k, v)
          \/ Marshal(w)
          \/ Truncate(w)
          \/ WriteOut(w)
          \/ SaveFails(w)
    \/ Restart

Spec == Init /\ [][Next]_vars

-------------------------------------------------------------------------------
(***************************************************************************)
(* The type invariant: whatever the file holds, loading it gives a map.    *)
(***************************************************************************)
TypeOK ==
    /\ data \in Maps
    /\ file \in Maps \cup {Unreadable}
    /\ pc \in [Writers -> {"idle", "stored", "marshalled", "truncated"}]
    /\ snap \in [Writers -> Maps]
    /\ history \subseteq Maps
    /\ alone \in Writers \cup {None}
    /\ settled \in BOOLEAN
    /\ acked \in Maps

(***************************************************************************)
(* However saves overlap, fail or are cut off, a restart finds the map as  *)
(* it was at one moment of this process, or nothing: never a mixture of    *)
(* two writers' maps and never a map from before the last restart.         *)
(***************************************************************************)
FileHoldsPastMap == Decode(file) \in history \cup {Empty}

(***************************************************************************)
(* A save that met no other save leaves the file equal to memory, and it   *)
(* stays so until the next write begins.  Earlier overlaps, failed saves   *)
(* and stops do no lasting harm.                                           *)
(***************************************************************************)
LoneSaveIsCurrent == settled => Decode(file) = data /\ acked = data

(***************************************************************************)
(* The store implements the durable map: a restart would load Decode(file),*)
(* and the snapshots under way are those of the writers past Marshal.      *)
(***************************************************************************)
Saving == {w \in Writers : pc[w] \in {"marshalled", "truncated"}}

Durable == INSTANCE DurableMap
    WITH saved <- Decode(file), pending <- {snap[w] : w \in Saving}

ImplementsDurableMap == Durable!Spec

(***************************************************************************)
(* "thread-safe ... the file gives persistence across restarts": once all  *)
(* writers are done, the file holds what memory holds.                     *)
(***************************************************************************)
IdleMeansSaved == (\A w \in Writers : pc[w] = "idle") => Decode(file) = data
===============================================================================
