-------------------------- MODULE ConfigStoreProofs --------------------------
(***************************************************************************)
(* Proofs about the file-backed store for any writers, keys and values.    *)
(***************************************************************************)
EXTENDS ConfigStore, TLAPS

(* Whatever the file holds, loading it gives a map. *)
LEMMA DecodeType ==
    ASSUME NEW f \in Maps \cup {Unreadable}
    PROVE  Decode(f) \in Maps
BY DEF Decode, Maps, Empty

-------------------------------------------------------------------------------
(* The type invariant is inductive. *)
THEOREM TypeCorrect == Spec => []TypeOK
<1>1. Init => TypeOK
  BY DEF Init, TypeOK, Maps, Empty
<1>2. TypeOK /\ [Next]_vars => TypeOK'
  <2> SUFFICES ASSUME TypeOK, [Next]_vars PROVE TypeOK'
    OBVIOUS
  <2> USE DEF TypeOK
  <2>1. Empty \in Maps
    BY DEF Empty, Maps
  <2>2. ASSUME NEW w \in Writers, NEW k \in Keys, NEW v \in Values \cup {None},
               Store(w, k, v)
        PROVE  TypeOK'
    <3>1. data' \in Maps
      BY <2>2 DEF Store, Maps
    <3>2. QED
      BY <2>2, <3>1 DEF Store
  <2>3. ASSUME NEW w \in Writers, Marshal(w)
        PROVE  TypeOK'
    BY <2>3 DEF Marshal, auxVars
  <2>4. ASSUME NEW w \in Writers, Truncate(w)
        PROVE  TypeOK'
    BY <2>4 DEF Truncate, auxVars
  <2>5. ASSUME NEW w \in Writers, WriteOut(w)
        PROVE  TypeOK'
    BY <2>1, <2>5 DEF WriteOut, Finish
  <2>6. ASSUME NEW w \in Writers, SaveFails(w)
        PROVE  TypeOK'
    BY <2>1, <2>6 DEF SaveFails, Finish, auxVars
  <2>7. CASE Restart
    BY <2>1, <2>7, DecodeType DEF Restart
  <2>8. CASE UNCHANGED vars
    BY <2>8 DEF vars
  <2>9. QED
    BY <2>2, <2>3, <2>4, <2>5, <2>6, <2>7, <2>8 DEF Next
<1>3. QED
  BY <1>1, <1>2, PTL DEF Spec

-------------------------------------------------------------------------------
(***************************************************************************)
(* FileHoldsPastMap is inductive together with the same fact about every   *)
(* snapshot that may still be written.                                     *)
(***************************************************************************)
SnapsArePastMaps == \A w \in Saving : snap[w] \in history

PastInv ==
    /\ data \in history
    /\ SnapsArePastMaps
    /\ FileHoldsPastMap

(* Every step keeps file and snapshots within the history. *)
LEMMA PastInvInductive == TypeOK /\ PastInv /\ [Next]_vars => PastInv'
<1> SUFFICES ASSUME TypeOK, PastInv, [Next]_vars PROVE PastInv'
  OBVIOUS
<1> USE DEF PastInv, SnapsArePastMaps, FileHoldsPastMap, Saving
<1>1. ASSUME NEW w \in Writers, NEW k \in Keys, NEW v \in Values \cup {None},
             Store(w, k, v)
      PROVE  PastInv'
  BY <1>1 DEF Store, TypeOK
<1>2. ASSUME NEW w \in Writers, Marshal(w)
      PROVE  PastInv'
  BY <1>2 DEF Marshal, auxVars, TypeOK
<1>3. ASSUME NEW w \in Writers, Truncate(w)
      PROVE  PastInv'
  BY <1>3 DEF Truncate, auxVars, TypeOK, Decode
<1>4. ASSUME NEW w \in Writers, WriteOut(w)
      PROVE  PastInv'
  <2>1. /\ snap[w] \in history /\ snap[w] \in Maps
        /\ file' = snap[w]
        /\ UNCHANGED <<data, history>>
    BY <1>4 DEF WriteOut, TypeOK
  <2>2. Decode(file') = snap[w]
    BY <2>1, ConfigStoreAssumption DEF Decode
  <2>3. SnapsArePastMaps'
    BY <1>4, <2>1 DEF WriteOut, Finish, TypeOK
  <2>4. QED
    BY <2>1, <2>2, <2>3
<1>5. ASSUME NEW w \in Writers, SaveFails(w)
      PROVE  PastInv'
  BY <1>5 DEF SaveFails, Finish, auxVars, TypeOK
<1>6. CASE Restart
  BY <1>6 DEF Restart
<1>7. CASE UNCHANGED vars
  BY <1>7 DEF vars
<1>8. QED
  BY <1>1, <1>2, <1>3, <1>4, <1>5, <1>6, <1>7 DEF Next

(* A restart never brings back a mixture, nor anything from before the *)
(* last restart.                                                       *)
THEOREM PastMapSafe == Spec => []FileHoldsPastMap
<1>1. Init => PastInv
  BY DEF Init, PastInv, SnapsArePastMaps, FileHoldsPastMap, Saving, Decode
<1>2. PastInv => FileHoldsPastMap
  BY DEF PastInv
<1>3. QED
  BY <1>1, <1>2, PastInvInductive, TypeCorrect, PTL DEF Spec

-------------------------------------------------------------------------------
(***************************************************************************)
(* LoneSaveIsCurrent needs to know what a writer that met no other leaves  *)
(* undisturbed: nobody else is active, and what it marshalled is still the *)
(* map.  That no save is under way keeps a settled file settled.           *)
(***************************************************************************)
AloneInv ==
    \A w \in Writers :
        alone = w /\ pc[w] # "idle" =>
            /\ \A x \in Writers \ {w} : pc[x] = "idle"
            /\ w \in Saving => snap[w] = data

SettledInv ==
    settled => /\ \A w \in Writers : pc[w] = "idle"
               /\ Decode(file) = data
               /\ acked = data

LoneInv == AloneInv /\ SettledInv

(* Every step keeps them. *)
LEMMA LoneInvInductive == TypeOK /\ LoneInv /\ [Next]_vars => LoneInv'
<1> SUFFICES ASSUME TypeOK, LoneInv, [Next]_vars PROVE LoneInv'
  OBVIOUS
<1> USE DEF LoneInv, AloneInv, SettledInv, Saving
<1>1. ASSUME NEW w \in Writers, NEW k \in Keys, NEW v \in Values \cup {None},
             Store(w, k, v)
      PROVE  LoneInv'
  BY <1>1, ConfigStoreAssumption DEF Store, TypeOK
<1>2. ASSUME NEW w \in Writers, Marshal(w)
      PROVE  LoneInv'
  BY <1>2 DEF Marshal, auxVars, TypeOK
<1>3. ASSUME NEW w \in Writers, Truncate(w)
      PROVE  LoneInv'
  BY <1>3 DEF Truncate, auxVars, TypeOK
<1>4. ASSUME NEW w \in Writers, WriteOut(w)
      PROVE  LoneInv'
  <2>1. /\ pc' = [pc EXCEPT ![w] = "idle"]
        /\ snap' = [snap EXCEPT ![w] = Empty]
        /\ file' = snap[w]
        /\ settled' = (alone = w)
        /\ acked' = IF alone = w THEN snap[w] ELSE acked
        /\ pc[w] = "truncated"
        /\ UNCHANGED <<data, alone>>
    BY <1>4 DEF WriteOut, Finish
  <2>2. AloneInv'
    BY <2>1 DEF TypeOK
  <2>3. Decode(snap[w]) = snap[w]
    BY ConfigStoreAssumption DEF Decode, TypeOK
  <2>4. SettledInv'
    BY <2>1, <2>3 DEF TypeOK
  <2>5. QED
    BY <2>2, <2>4
<1>5. ASSUME NEW w \in Writers, SaveFails(w)
      PROVE  LoneInv'
  BY <1>5 DEF SaveFails, Finish, auxVars, TypeOK
<1>6. CASE Restart
  BY <1>6, ConfigStoreAssumption DEF Restart
<1>7. CASE UNCHANGED vars
  BY <1>7 DEF vars
<1>8. QED
  BY <1>1, <1>2, <1>3, <1>4, <1>5, <1>6, <1>7 DEF Next

(* A save that met no other leaves the file equal to memory. *)
THEOREM LoneSaveSafe == Spec => []LoneSaveIsCurrent
<1>1. Init => LoneInv
  BY ConfigStoreAssumption DEF Init, LoneInv, AloneInv, SettledInv, Decode
<1>2. LoneInv => LoneSaveIsCurrent
  BY DEF LoneInv, SettledInv, LoneSaveIsCurrent
<1>3. QED
  BY <1>1, <1>2, LoneInvInductive, TypeCorrect, PTL DEF Spec

-------------------------------------------------------------------------------
(***************************************************************************)
(* The refinement.  Only the steps of a save change what is pending.       *)
(***************************************************************************)

(* Every step of the store is a step of the durable map, or leaves it as  *)
(* it is: Store writes, Marshal snapshots, Truncate opens, WriteOut saves *)
(* and SaveFails gives up.                                                *)
LEMMA StepRefinement == TypeOK /\ [Next]_vars => [Durable!Next]_(Durable!vars)
<1> SUFFICES ASSUME TypeOK, [Next]_vars
             PROVE  Durable!Next \/ UNCHANGED Durable!vars
  OBVIOUS
<1> DEFINE pending == {snap[w] : w \in Saving}
<1> USE DEF Saving
<1>1. ASSUME NEW w \in Writers, NEW k \in Keys, NEW v \in Values \cup {None},
             Store(w, k, v)
      PROVE  Durable!Write
  <2>1. pending' = pending /\ file' = file
    BY <1>1 DEF Store, TypeOK
  <2>2. data' = [data EXCEPT ![k] = v]
    BY <1>1 DEF Store
  <2>3. QED
    BY <2>1, <2>2 DEF Durable!Write
<1>2. ASSUME NEW w \in Writers, Marshal(w)
      PROVE  Durable!Snapshot
  <2>1. pending' = pending \cup {data}
    BY <1>2 DEF Marshal, TypeOK
  <2>2. data' = data /\ file' = file
    BY <1>2 DEF Marshal
  <2>3. QED
    BY <2>1, <2>2 DEF Durable!Snapshot
<1>3. ASSUME NEW w \in Writers, Truncate(w)
      PROVE  Durable!Open
  <2>1. pending' = pending
    BY <1>3 DEF Truncate, TypeOK
  <2>2. data' = data /\ Decode(file') = Durable!Empty
    BY <1>3 DEF Truncate, Decode, Empty, Durable!Empty
  <2>3. pending # {}
    BY <1>3 DEF Truncate
  <2>4. QED
    BY <2>1, <2>2, <2>3 DEF Durable!Open
<1>4. ASSUME NEW w \in Writers, WriteOut(w) \/ SaveFails(w)
      PROVE  /\ snap[w] \in pending
             /\ pending' \in {pending, pending \ {snap[w]}}
             /\ data' = data
  <2>1. /\ w \in Saving
        /\ pc' = [pc EXCEPT ![w] = "idle"]
        /\ snap' = [snap EXCEPT ![w] = Empty]
        /\ data' = data
    BY <1>4 DEF WriteOut, SaveFails, Finish
  <2>2. pending' = {snap[x] : x \in Saving \ {w}}
    BY <2>1 DEF TypeOK
  <2>3. QED
    BY <2>1, <2>2
<1>5. ASSUME NEW w \in Writers, WriteOut(w)
      PROVE  Durable!Save
  <2>1. Decode(file') = snap[w]
    BY <1>5, ConfigStoreAssumption DEF WriteOut, Decode, TypeOK
  <2>2. QED
    BY <1>4, <1>5, <2>1 DEF Durable!Save
<1>6. ASSUME NEW w \in Writers, SaveFails(w)
      PROVE  Durable!GiveUp \/ UNCHANGED Durable!vars
  <2>1. file' = file
    BY <1>6 DEF SaveFails
  <2>2. QED
    BY <1>4, <1>6, <2>1 DEF Durable!GiveUp, Durable!vars
<1>7. CASE Restart
  <2>1. /\ data' = Decode(file)
        /\ file' = file
        /\ pending' = {}
    BY <1>7 DEF Restart
  <2>2. QED
    BY <2>1 DEF Durable!Restart, Durable!Next
<1>8. CASE UNCHANGED vars
  BY <1>8 DEF vars, Durable!vars
<1>9. QED
  BY <1>1, <1>2, <1>3, <1>5, <1>6, <1>7, <1>8 DEF Next, Durable!Next

(* The file-backed store implements the durable map. *)
THEOREM Refinement == Spec => ImplementsDurableMap
<1>1. Init => Durable!Init
  BY DEF Init, Durable!Init, Decode, Empty, Durable!Empty, Saving
<1>2. QED
  BY <1>1, StepRefinement, TypeCorrect, PTL
  DEF Spec, Durable!Spec, ImplementsDurableMap

===============================================================================
