-------------------------- MODULE FlagStreamProofs --------------------------
(***************************************************************************)
(* Proofs about FlagStream, for every number of flags, environments, write *)
(* handlers and connections, every capacity, and with the middleware in    *)
(* front of the handler or without it.                                     *)
(*                                                                         *)
(* There are two invariants.  IInv ties every payload, wherever it is on   *)
(* its way from the map to a client, to the topic it was computed for.     *)
(* SInv follows a lone broadcaster from its beginning to its end.          *)
(***************************************************************************)
EXTENDS FlagStream, SequenceTheorems, TLAPS

(* payloads that subscribers of a topic may be sent                        *)
Fits(t) == {m \in PayloadType : t = "all" \/ \A f \in m : f[2].env = t}

PayloadsFit(p) == \A t \in DOMAIN p : t \in Topics /\ p[t] \in Fits(t)

Open == {"registered", "streaming"}

MapsOK ==
    /\ flags \in Flags
    /\ store \in Flags
    /\ got \in Flags
    /\ req \in [Handlers -> [name : Names \cup {None}, def : Defs \cup {None}]]
    /\ writes \in 0..MaxWrites

PayloadsOK ==
    /\ DOMAIN out = Broadcasters
    /\ \A b \in Broadcasters : PayloadsFit(out[b])
    /\ PayloadsFit(before)

ConnectionsOK ==
    /\ conn \in [Subscribers -> {"new", "refused", "registered", "streaming", "leaving", "closed"}]
    /\ listed \subseteq Subscribers
    /\ dropped \subseteq Subscribers
    /\ \A s \in listed : conn[s] \in Open
    /\ DOMAIN view = Subscribers
    /\ DOMAIN chan = Subscribers
    /\ \A s \in Subscribers :
          /\ view[s] \in Fits(Topic[s])
          /\ chan[s] \in Seq(Fits(Topic[s]))
          /\ Len(chan[s]) <= Capacity

IInv == MapsOK /\ PayloadsOK /\ ConnectionsOK

-------------------------------------------------------------------------------
(***************************************************************************)
(* What is computed from a map fits.                                       *)
(***************************************************************************)
LEMMA PayloadFits ==
    ASSUME NEW f \in Flags, NEW t \in Topics
    PROVE  Payload(f, t) \in Fits(t)
<1>1. ASSUME NEW p \in Payload(f, t)
      PROVE  p \in Names \X Defs /\ (t = "all" \/ p[2].env = t)
  <2>1. PICK n \in {m \in Names : f[m] # None /\ (t = "all" \/ f[m].env = t)} : p = <<n, f[n]>>
    BY DEF Payload
  <2>2. n \in Names /\ f[n] # None /\ f[n] \in Defs \cup {None}
    BY <2>1 DEF Flags
  <2>. QED
    BY <2>1, <2>2
<1>. QED
  BY <1>1 DEF Fits, PayloadType

LEMMA PresentAreTopics ==
    ASSUME NEW f \in Flags
    PROVE  Present(f) \subseteq Topics
<1>1. ASSUME NEW n \in Names, f[n] # None
      PROVE  f[n].env \in Envs
  <2>1. f[n] \in Defs
    BY <1>1 DEF Flags
  <2>. QED
    BY <2>1, FlagStreamAssumption
<1>. QED
  BY <1>1 DEF Present, Topics

LEMMA ComputedFit ==
    ASSUME NEW f \in Flags
    PROVE  PayloadsFit(flagPayloadsByEnv(f))
<1>1. \A t \in Present(f) : t \in Topics
  BY PresentAreTopics
<1>. QED
  BY <1>1, PayloadFits DEF PayloadsFit, flagPayloadsByEnv

LEMMA ChangedFit ==
    ASSUME NEW old, PayloadsFit(old), NEW new, PayloadsFit(new)
    PROVE  PayloadsFit(Changed(old, new))
<1>1. \A t \in Topics : {} \in Fits(t)
  BY DEF Fits, PayloadType
<1>2. \A t \in DOMAIN Changed(old, new) :
         \/ t \in DOMAIN old /\ Changed(old, new)[t] = {}
         \/ t \in DOMAIN new /\ Changed(old, new)[t] = new[t]
  BY DEF Changed
<1>. QED
  BY <1>1, <1>2 DEF PayloadsFit

(***************************************************************************)
(* A channel takes what fits its connection, up to its capacity.           *)
(***************************************************************************)
LEMMA TakenFits ==
    ASSUME ConnectionsOK, NEW s \in Subscribers, NEW t \in Topics, NEW m \in Fits(t),
           Copies(s, t) > 0
    PROVE  Taken(s, t, m) \in Seq(Fits(Topic[s])) /\ Len(Taken(s, t, m)) <= Capacity
<1>1. m \in Fits(Topic[s])
  BY DEF Copies, Fits
<1>2. Copies(s, t) \in Nat
  BY DEF Copies
<1>3. [i \in 1..Copies(s, t) |-> m] \in Seq(Fits(Topic[s]))
  BY <1>1, <1>2
<1>4. Offered(s, t, m) \in Seq(Fits(Topic[s]))
  BY <1>3, ConcatProperties DEF Offered, ConnectionsOK
<1>5. Capacity \in Nat \ {0} /\ Len(Offered(s, t, m)) \in Nat
  BY <1>4, FlagStreamAssumption
<1>6. ASSUME NEW n \in 0..Len(Offered(s, t, m)), n <= Capacity
      PROVE  /\ SubSeq(Offered(s, t, m), 1, n) \in Seq(Fits(Topic[s]))
             /\ Len(SubSeq(Offered(s, t, m), 1, n)) <= Capacity
  BY <1>4, <1>5, <1>6, SubSeqProperties
<1>. QED
  BY <1>5, <1>6 DEF Taken

-------------------------------------------------------------------------------
LEMMA InitSafe == Init => IInv
<1>. SUFFICES ASSUME Init
              PROVE  IInv
  OBVIOUS
<1>1. NoFlags \in Flags
  BY DEF NoFlags, Flags
<1>2. PayloadsFit(<<>>) /\ \A t \in Topics : {} \in Fits(t)
  BY DEF PayloadsFit, Fits, PayloadType
<1>3. MapsOK
  BY <1>1, FlagStreamAssumption DEF Init, MapsOK, NoRequest
<1>4. PayloadsOK
  BY <1>2 DEF Init, PayloadsOK
<1>5. ConnectionsOK
  BY <1>2, FlagStreamAssumption DEF Init, ConnectionsOK
<1>. QED
  BY <1>3, <1>4, <1>5 DEF IInv

LEMMA HandlerSafe ==
    ASSUME IInv, NEW h \in Handlers,
           \/ \E n \in Names, d \in Defs \cup {None} : Change(h, n, d)
           \/ Persist(h)
           \/ Compute(h)
    PROVE  IInv'
<1>1. UNCHANGED connVars
  BY DEF Change, Persist, Compute
<1>2. ConnectionsOK'
  BY <1>1 DEF IInv, ConnectionsOK, connVars
<1>3. NoRequest \in [name : Names \cup {None}, def : Defs \cup {None}]
  BY DEF NoRequest
<1>4. ASSUME NEW n \in Names, NEW d \in Defs \cup {None}, Change(h, n, d)
      PROVE  MapsOK' /\ PayloadsOK'
  <2>1. flags' \in Flags
    BY <1>4 DEF Change, IInv, MapsOK, Flags
  <2>2. writes' \in 0..MaxWrites
    BY <1>4, FlagStreamAssumption DEF Change, IInv, MapsOK
  <2>. QED
    BY <1>4, <2>1, <2>2 DEF Change, IInv, MapsOK, PayloadsOK
<1>5. ASSUME Persist(h)
      PROVE  MapsOK' /\ PayloadsOK'
  <2>1. req[h].def \in Defs \cup {None}
    BY DEF IInv, MapsOK
  <2>2. store' \in Flags
    BY <1>5, <2>1 DEF Persist, IInv, MapsOK, Flags
  <2>. QED
    BY <1>5, <2>2 DEF Persist, IInv, MapsOK, PayloadsOK
<1>6. ASSUME Compute(h)
      PROVE  MapsOK' /\ PayloadsOK'
  <2>1. PayloadsFit(flagPayloadsByEnv(flags))
    BY ComputedFit DEF IInv, MapsOK
  <2>. QED
    BY <1>3, <1>6, <2>1 DEF Compute, IInv, MapsOK, PayloadsOK
<1>. QED
  BY <1>2, <1>4, <1>5, <1>6 DEF IInv

LEMMA SynchronisationSafe ==
    ASSUME IInv,
           \/ \E n \in Names, d \in Defs \cup {None} : RemoteWrite(n, d)
           \/ SyncBefore \/ SyncRead \/ SyncAborts \/ SyncSwap \/ SyncCompute
    PROVE  IInv'
<1>1. UNCHANGED connVars
  BY DEF RemoteWrite, SyncBefore, SyncRead, SyncAborts, SyncSwap, SyncCompute
<1>2. ConnectionsOK'
  BY <1>1 DEF IInv, ConnectionsOK, connVars
<1>3. NoFlags \in Flags /\ PayloadsFit(<<>>)
  BY DEF NoFlags, Flags, PayloadsFit
<1>4. PayloadsFit(flagPayloadsByEnv(flags))
  BY ComputedFit DEF IInv, MapsOK
<1>5. ASSUME NEW n \in Names, NEW d \in Defs \cup {None}, RemoteWrite(n, d)
      PROVE  MapsOK' /\ PayloadsOK'
  <2>1. store' \in Flags
    BY <1>5 DEF RemoteWrite, IInv, MapsOK, Flags
  <2>2. writes' \in 0..MaxWrites
    BY <1>5, FlagStreamAssumption DEF RemoteWrite, IInv, MapsOK
  <2>. QED
    BY <1>5, <2>1, <2>2 DEF RemoteWrite, IInv, MapsOK, PayloadsOK
<1>6. ASSUME SyncBefore
      PROVE  MapsOK' /\ PayloadsOK'
  BY <1>4, <1>6 DEF SyncBefore, IInv, MapsOK, PayloadsOK
<1>7. ASSUME SyncRead
      PROVE  MapsOK' /\ PayloadsOK'
  <2>1. got' \in Flags
    BY <1>7 DEF SyncRead, IInv, MapsOK, Flags
  <2>. QED
    BY <1>7, <2>1 DEF SyncRead, IInv, MapsOK, PayloadsOK
<1>8. ASSUME SyncAborts \/ SyncSwap
      PROVE  MapsOK' /\ PayloadsOK'
  BY <1>3, <1>8 DEF SyncAborts, SyncSwap, IInv, MapsOK, PayloadsOK
<1>9. ASSUME SyncCompute
      PROVE  MapsOK' /\ PayloadsOK'
  <2>1. PayloadsFit(Changed(before, flagPayloadsByEnv(flags)))
    BY <1>4, ChangedFit DEF IInv, PayloadsOK
  <2>. QED
    BY <1>3, <1>9, <2>1 DEF SyncCompute, IInv, MapsOK, PayloadsOK
<1>. QED
  BY <1>2, <1>5, <1>6, <1>7, <1>8, <1>9 DEF IInv

LEMMA SendSafe ==
    ASSUME IInv, NEW b \in Broadcasters, NEW t \in DOMAIN out[b], Send(b, t)
    PROVE  IInv'
<1>1. t \in Topics /\ out[b][t] \in Fits(t)
  BY DEF IInv, PayloadsOK, PayloadsFit
<1>2. MapsOK'
  BY DEF Send, IInv, MapsOK
<1>3. PayloadsOK'
  <2>1. out' = [out EXCEPT ![b] = [u \in DOMAIN out[b] \ {t} |-> out[b][u]]]
        /\ before' = before
    BY DEF Send
  <2>2. PayloadsFit([u \in DOMAIN out[b] \ {t} |-> out[b][u]])
    BY DEF IInv, PayloadsOK, PayloadsFit
  <2>. QED
    BY <2>1, <2>2 DEF IInv, PayloadsOK
<1>4. UNCHANGED <<conn, listed, view>>
  BY DEF Send
<1>5. /\ DOMAIN chan' = Subscribers
      /\ \A s \in Subscribers : \/ chan'[s] = chan[s]
                                \/ Copies(s, t) > 0 /\ chan'[s] = Taken(s, t, out[b][t])
      /\ dropped' \subseteq Subscribers
  BY DEF Send, broadcastSSE, IInv, ConnectionsOK
<1>6. \A s \in Subscribers : chan'[s] \in Seq(Fits(Topic[s])) /\ Len(chan'[s]) <= Capacity
  BY <1>1, <1>5, TakenFits DEF IInv, ConnectionsOK
<1>. QED
  BY <1>2, <1>3, <1>4, <1>5, <1>6 DEF IInv, ConnectionsOK

LEMMA ConnectionSafe ==
    ASSUME IInv, NEW s \in Subscribers,
           Register(s) \/ SendCurrent(s) \/ Receive(s) \/ Leave(s) \/ Close(s)
    PROVE  IInv'
<1>1. MapsOK' /\ PayloadsOK'
  BY DEF Register, SendCurrent, Receive, Leave, Close, IInv, MapsOK, PayloadsOK
<1>2. Topic[s] \in Topics
  BY FlagStreamAssumption
<1>. USE DEF IInv, ConnectionsOK, Open
<1>3. CASE Register(s)
  BY <1>1, <1>3 DEF Register
<1>4. CASE SendCurrent(s)
  <2>1. Payload(flags, Topic[s]) \in Fits(Topic[s])
    BY <1>2, PayloadFits DEF MapsOK
  <2>. QED
    BY <1>1, <1>4, <2>1 DEF SendCurrent
<1>5. CASE Receive(s)
  <2>1. /\ Head(chan[s]) \in Fits(Topic[s])
        /\ Tail(chan[s]) \in Seq(Fits(Topic[s]))
        /\ Len(Tail(chan[s])) <= Capacity
    BY <1>5, FlagStreamAssumption, HeadTailProperties DEF Receive
  <2>. QED
    BY <1>1, <1>5, <2>1 DEF Receive
<1>6. CASE Leave(s)
  BY <1>1, <1>6 DEF Leave
<1>7. CASE Close(s)
  <2>1. {} \in Fits(Topic[s]) /\ <<>> \in Seq(Fits(Topic[s])) /\ Len(<<>>) <= Capacity
    <3>1. {} \in Fits(Topic[s])
      BY DEF Fits, PayloadType
    <3>2. <<>> \in Seq(Fits(Topic[s])) /\ Len(<<>>) = 0
      BY EmptySeq
    <3>. QED
      BY <3>1, <3>2, FlagStreamAssumption
  <2>2. s \notin listed
    BY <1>7 DEF Close
  <2>. QED
    BY <1>1, <1>7, <2>1, <2>2 DEF Close
<1>. QED
  BY <1>3, <1>4, <1>5, <1>6, <1>7

LEMMA StepSafe == IInv /\ [Next]_vars => IInv'
<1>. SUFFICES ASSUME IInv, [Next]_vars
              PROVE  IInv'
  OBVIOUS
<1>1. ASSUME NEW b \in Broadcasters, Done(b)
      PROVE  IInv'
  <2>1. PayloadsFit(<<>>)
    BY DEF PayloadsFit
  <2>. QED
    BY <1>1, <2>1 DEF Done, IInv, MapsOK, PayloadsOK, ConnectionsOK, connVars
<1>2. CASE UNCHANGED vars
  BY <1>2 DEF vars, connVars, IInv, MapsOK, PayloadsOK, ConnectionsOK
<1>. QED
  BY <1>1, <1>2, HandlerSafe, SynchronisationSafe, SendSafe, ConnectionSafe DEF Next

LEMMA InductiveInvariant == Spec => []IInv
BY InitSafe, StepSafe, PTL DEF Spec

(***************************************************************************)
(* No channel holds more than its capacity, and clients are sent lists of  *)
(* flags only.                                                             *)
(***************************************************************************)
THEOREM TypeCorrect == Spec => []TypeOK
<1>1. IInv => TypeOK
  <2>. SUFFICES ASSUME IInv
                PROVE  TypeOK
    OBVIOUS
  <2>1. \A t : Fits(t) \subseteq PayloadType
    BY DEF Fits
  <2>2. \A s \in Subscribers : \A i \in DOMAIN chan[s] : chan[s][i] \in Fits(Topic[s])
    BY DEF IInv, ConnectionsOK
  <2>. QED
    BY <2>1, <2>2 DEF IInv, MapsOK, ConnectionsOK, TypeOK
<1>. QED
  BY <1>1, InductiveInvariant, PTL

(***************************************************************************)
(* A connection is off the list before its channel is closed, so that no   *)
(* broadcast sends on a closed one.                                        *)
(***************************************************************************)
THEOREM ListedOpen == Spec => []ListedAreOpen
<1>1. IInv => ListedAreOpen
  BY DEF IInv, ConnectionsOK, Open, ListedAreOpen
<1>. QED
  BY <1>1, InductiveInvariant, PTL

(***************************************************************************)
(* Payloads keep to the environment they were computed for on their whole  *)
(* way, however broadcasters and flags that change environment overlap.    *)
(***************************************************************************)
THEOREM Isolation == Spec => []EnvIsolation
<1>1. IInv => EnvIsolation
  <2>. SUFFICES ASSUME IInv, NEW s \in Subscribers, Topic[s] # "all"
                PROVE  /\ \A f \in view[s] : f[2].env = Topic[s]
                       /\ \A i \in DOMAIN chan[s] : \A f \in chan[s][i] : f[2].env = Topic[s]
    BY DEF EnvIsolation
  <2>1. view[s] \in Fits(Topic[s])
        /\ \A i \in DOMAIN chan[s] : chan[s][i] \in Fits(Topic[s])
    BY DEF IInv, ConnectionsOK
  <2>. QED
    BY <2>1 DEF Fits
<1>. QED
  BY <1>1, InductiveInvariant, PTL

-------------------------------------------------------------------------------
(***************************************************************************)
(* That a lone broadcast leaves its subscribers current needs to be known  *)
(* of every step of one that is still alone: what it has sent is shown,    *)
(* and what it has yet to send is what the map holds.  Nothing is said of  *)
(* broadcasters that have met.                                             *)
(***************************************************************************)

(* what s shows in the end, if nothing is dropped, is p; a connection that *)
(* is registered with an empty channel has yet to read the map             *)
Shown(s, p) ==
    conn[s] \in Open /\ s \notin dropped =>
        IF chan[s] = << >>
        THEN conn[s] = "streaming" => view[s] = p
        ELSE chan[s][Len(chan[s])] = p

ShownTo(t) == \A s \in Subscribers : Topic[s] = t => Shown(s, Payload(flags, t))

Sent(b, t) ==
    IF t \in DOMAIN out[b] THEN out[b][t] = Payload(flags, t) ELSE ShownTo(t)

(* the payload of t among payloads p; there is none of no flags            *)
Held(p, t) == IF t \in DOMAIN p THEN p[t] ELSE {}

ListingOK ==
    \A s \in Subscribers :
        /\ conn[s] = "new" => chan[s] = << >>
        /\ conn[s] \in Open => s \in listed

AloneOK ==
    /\ DOMAIN pc = Broadcasters
    /\ \A h \in Handlers : pc[h] \in {"idle", "changed", "persisted", "sending"}
    /\ pc[Syncer] \in {"idle", "reading", "read", "swapped", "sending"}
    /\ exact \subseteq Envs
    /\ base \subseteq Envs
    /\ alone \in Broadcasters \cup {None}
    /\ alone # None =>
          /\ pc[alone] # "idle"
          /\ \A c \in Broadcasters \ {alone} : pc[c] = "idle"
    /\ exact # {} => NobodyActive
    /\ base # {} => alone = Syncer

HandlerShows ==
    alone \in Handlers /\ pc[alone] = "sending" =>
        \A t \in Present(flags) \ {"all"} : Sent(alone, t)

SyncerShows ==
    alone = Syncer =>
        /\ pc[Syncer] \in {"reading", "read"} =>
              before = flagPayloadsByEnv(flags) /\ \A t \in base : ShownTo(t)
        /\ pc[Syncer] = "swapped" =>
              \A s \in Subscribers :
                  Topic[s] \in base =>
                      \/ Shown(s, Held(before, Topic[s]))
                      \/ Shown(s, Payload(flags, Topic[s]))
        /\ pc[Syncer] = "sending" => \A t \in base : Sent(Syncer, t)

Settled == \A t \in exact : ShownTo(t)

SInv == ListingOK /\ AloneOK /\ HandlerShows /\ SyncerShows /\ Settled

-------------------------------------------------------------------------------
(***************************************************************************)
(* A broadcaster that is active is the only one that can be alone, and     *)
(* while one is nothing is claimed to be up to date.                       *)
(***************************************************************************)
LEMMA ActiveAlone ==
    ASSUME AloneOK, NEW b \in Broadcasters, pc[b] # "idle"
    PROVE  /\ exact = {}
           /\ alone \in {b, None}
           /\ \A c \in Broadcasters \ {b} : alone = b => pc[c] = "idle"
<1>1. alone # None /\ alone # b => pc[b] = "idle"
  BY DEF AloneOK
<1>2. exact # {} => pc[b] = "idle"
  BY DEF AloneOK, NobodyActive
<1>3. \A c \in Broadcasters \ {b} : alone = b => pc[c] = "idle"
  BY FlagStreamAssumption DEF AloneOK
<1>. QED
  BY <1>1, <1>2, <1>3

(***************************************************************************)
(* Beginning and ending keep track of who is alone.                        *)
(***************************************************************************)
LEMMA BeginAlone ==
    ASSUME AloneOK, NEW b \in Broadcasters, Begin(b), pc[b] = "idle",
           NEW step, pc' = [pc EXCEPT ![b] = step], step # "idle",
           step \in IF b = Syncer THEN {"reading"} ELSE {"changed"}
    PROVE  /\ AloneOK'
           /\ exact' = {}
           /\ base' \subseteq exact
           /\ alone' \in {b, None}
<1>1. CASE NobodyActive
  <2>1. alone' = b /\ exact' = {} /\ base' = IF b = Syncer THEN exact ELSE {}
    BY <1>1 DEF Begin
  <2>2. pc'[b] = step /\ \A c \in Broadcasters \ {b} : pc'[c] = "idle"
    BY <1>1 DEF NobodyActive, AloneOK
  <2>. QED
    BY <2>1, <2>2, FlagStreamAssumption DEF AloneOK, Broadcasters
<1>2. CASE ~NobodyActive
  <2>1. alone' = None /\ exact' = {} /\ base' = {}
    BY <1>2 DEF Begin
  <2>2. pc'[b] = step /\ \A c \in Broadcasters \ {b} : pc'[c] = pc[c]
    BY DEF AloneOK
  <2>. QED
    BY <2>1, <2>2, FlagStreamAssumption DEF AloneOK, Broadcasters
<1>. QED
  BY <1>1, <1>2

LEMMA EndAlone ==
    ASSUME IInv, AloneOK, NEW b \in Broadcasters, End(b), pc[b] # "idle",
           pc' = [pc EXCEPT ![b] = "idle"]
    PROVE  /\ AloneOK'
           /\ alone' = None
           /\ alone # b => exact' = {}
           /\ alone = b => exact' = IF b = Syncer THEN base ELSE Present(flags) \ {"all"}
<1>1. Present(flags) \ {"all"} \subseteq Envs
  BY PresentAreTopics DEF IInv, MapsOK, Topics
<1>2. alone' = None /\ base' = {}
      /\ exact' = IF alone # b THEN {}
                  ELSE IF b = Syncer THEN base ELSE Present(flags) \ {"all"}
  BY DEF End
<1>3. pc'[b] = "idle" /\ \A c \in Broadcasters \ {b} : pc'[c] = pc[c]
  BY DEF AloneOK
<1>4. alone = b => NobodyActive'
  BY <1>3, FlagStreamAssumption DEF AloneOK, NobodyActive
<1>. QED
  BY <1>1, <1>2, <1>3, <1>4 DEF AloneOK, Broadcasters

(***************************************************************************)
(* What a step that leaves the connections alone leaves shown.             *)
(***************************************************************************)
LEMMA ShownStays ==
    ASSUME UNCHANGED connVars
    PROVE  /\ \A s, p : Shown(s, p)' <=> Shown(s, p)
           /\ flags' = flags => \A t : ShownTo(t)' <=> ShownTo(t)
BY DEF connVars, Shown, ShownTo

LEMMA InitSettled == Init => SInv
<1>. SUFFICES ASSUME Init
              PROVE  SInv
  OBVIOUS
<1>1. ListingOK
  BY DEF Init, ListingOK, Open
<1>2. AloneOK
  BY FlagStreamAssumption DEF Init, AloneOK, NobodyActive, Broadcasters
<1>3. HandlerShows /\ SyncerShows
  BY FlagStreamAssumption DEF Init, HandlerShows, SyncerShows, Broadcasters
<1>4. Settled
  BY DEF Init, Settled, ShownTo, Shown, Open
<1>. QED
  BY <1>1, <1>2, <1>3, <1>4 DEF SInv

LEMMA HandlerSettled ==
    ASSUME IInv, SInv, NEW h \in Handlers,
           \/ \E n \in Names, d \in Defs \cup {None} : Change(h, n, d)
           \/ Persist(h)
           \/ Compute(h)
    PROVE  SInv'
<1>1. UNCHANGED connVars
  BY DEF Change, Persist, Compute
<1>2. ListingOK'
  BY <1>1 DEF SInv, ListingOK, connVars
<1>3. h \in Broadcasters /\ h # Syncer /\ h # None /\ Syncer # None
  BY FlagStreamAssumption DEF Broadcasters
<1>4. ASSUME NEW n \in Names, NEW d \in Defs \cup {None}, Change(h, n, d)
      PROVE  SInv'
  <2>1. pc[h] = "idle" /\ pc' = [pc EXCEPT ![h] = "changed"] /\ Begin(h)
    BY <1>4 DEF Change
  <2>2. AloneOK' /\ exact' = {} /\ alone' \in {h, None}
    BY <1>3, <2>1, BeginAlone DEF SInv
  <2>3. pc'[h] = "changed"
    BY <1>3, <2>1 DEF SInv, AloneOK
  <2>4. HandlerShows' /\ SyncerShows'
    BY <1>3, <2>2, <2>3, FlagStreamAssumption DEF HandlerShows, SyncerShows, Broadcasters
  <2>. QED
    BY <1>2, <2>2, <2>4 DEF SInv, Settled
<1>5. ASSUME Persist(h) \/ Compute(h)
      PROVE  SInv'
  <2>1. pc[h] # "idle" /\ flags' = flags /\ UNCHANGED auxVars
    BY <1>5 DEF Persist, Compute
  <2>2. exact = {} /\ alone \in {h, None}
    BY <1>3, <2>1, ActiveAlone DEF SInv
  <2>3. /\ pc'[h] \in {"persisted", "sending"}
        /\ DOMAIN pc' = Broadcasters
        /\ \A c \in Broadcasters \ {h} : pc'[c] = pc[c]
    BY <1>3, <1>5 DEF Persist, Compute, SInv, AloneOK
  <2>4. AloneOK'
    BY <1>3, <2>1, <2>2, <2>3 DEF SInv, AloneOK, auxVars, Broadcasters
  <2>5. HandlerShows'
    <3>1. CASE Persist(h)
      <4>1. pc'[h] = "persisted"
        BY <1>3, <3>1 DEF Persist, SInv, AloneOK
      <4>. QED
        BY <2>1, <2>2, <4>1, FlagStreamAssumption DEF HandlerShows, auxVars, Broadcasters
    <3>2. CASE Compute(h)
      <4>1. out'[h] = flagPayloadsByEnv(flags)
        BY <1>3, <3>2 DEF Compute, IInv, PayloadsOK
      <4>2. \A t \in Present(flags) : Sent(h, t)'
        BY <2>1, <4>1 DEF flagPayloadsByEnv, Sent
      <4>3. alone' \in Handlers => alone' = h
        BY <2>1, <2>2, FlagStreamAssumption DEF auxVars, Broadcasters
      <4>. QED
        BY <2>1, <4>2, <4>3 DEF HandlerShows, Sent
    <3>. QED
      BY <1>5, <3>1, <3>2
  <2>6. SyncerShows' /\ Settled'
    BY <1>3, <2>1, <2>2 DEF SyncerShows, Settled, auxVars
  <2>. QED
    BY <1>2, <2>4, <2>5, <2>6 DEF SInv
<1>. QED
  BY <1>4, <1>5

(***************************************************************************)
(* The synchronisation sends what differs from what it started from, so    *)
(* what it does not send has not changed.                                  *)
(***************************************************************************)
LEMMA PayloadHeld ==
    ASSUME NEW f \in Flags, NEW t \in Envs
    PROVE  Held(flagPayloadsByEnv(f), t) = Payload(f, t)
<1>1. t # "all"
  BY FlagStreamAssumption
<1>2. ASSUME t \notin Present(f)
      PROVE  Payload(f, t) = {}
  BY <1>1, <1>2 DEF Present, Payload
<1>. QED
  BY <1>2 DEF Held, flagPayloadsByEnv

LEMMA ChangedHeld ==
    ASSUME NEW old, NEW f \in Flags, NEW t \in Envs
    PROVE  LET sent == Changed(old, flagPayloadsByEnv(f))
           IN  IF t \in DOMAIN sent THEN sent[t] = Payload(f, t)
               ELSE Held(old, t) = Payload(f, t)
<1>. DEFINE new == flagPayloadsByEnv(f)
<1>1. Held(new, t) = Payload(f, t)
  BY PayloadHeld
<1>2. IF t \in DOMAIN Changed(old, new) THEN Changed(old, new)[t] = Held(new, t)
      ELSE Held(old, t) = Held(new, t)
  <2>. HIDE DEF new
  <2>. QED
    BY DEF Changed, Held
<1>. QED
  BY <1>1, <1>2

LEMMA SynchronisationSettled ==
    ASSUME IInv, SInv,
           \/ \E n \in Names, d \in Defs \cup {None} : RemoteWrite(n, d)
           \/ SyncBefore \/ SyncRead \/ SyncAborts \/ SyncSwap \/ SyncCompute
    PROVE  SInv'
<1>1. UNCHANGED connVars
  BY DEF RemoteWrite, SyncBefore, SyncRead, SyncAborts, SyncSwap, SyncCompute
<1>2. ListingOK'
  BY <1>1 DEF SInv, ListingOK, connVars
<1>3. Syncer \in Broadcasters /\ Syncer \notin Handlers /\ Syncer # None
  BY FlagStreamAssumption DEF Broadcasters
<1>4. ASSUME NEW n \in Names, NEW d \in Defs \cup {None}, RemoteWrite(n, d)
      PROVE  SInv'
  BY <1>4 DEF RemoteWrite, connVars, auxVars, SInv, ListingOK, AloneOK, NobodyActive,
              HandlerShows, SyncerShows, Settled, ShownTo, Shown, Sent
<1>5. CASE SyncBefore
  <2>1. /\ pc[Syncer] = "idle" /\ pc' = [pc EXCEPT ![Syncer] = "reading"] /\ Begin(Syncer)
        /\ flags' = flags /\ before' = flagPayloadsByEnv(flags)
    BY <1>5 DEF SyncBefore
  <2>2. AloneOK' /\ exact' = {} /\ base' \subseteq exact /\ alone' \in {Syncer, None}
    BY <1>3, <2>1, BeginAlone DEF SInv
  <2>3. pc'[Syncer] = "reading"
    BY <1>3, <2>1 DEF SInv, AloneOK
  <2>4. \A t \in base' : ShownTo(t)'
    BY <1>1, <2>1, <2>2, ShownStays DEF SInv, Settled
  <2>5. before' = flagPayloadsByEnv(flags)'
    BY <2>1 DEF flagPayloadsByEnv, Present, Payload
  <2>6. SyncerShows'
    BY <2>3, <2>4, <2>5 DEF SyncerShows
  <2>7. HandlerShows'
    BY <1>3, <2>2, FlagStreamAssumption DEF HandlerShows, Broadcasters
  <2>. QED
    BY <1>2, <2>2, <2>6, <2>7 DEF SInv, Settled
<1>6. CASE SyncAborts
  <2>1. /\ pc[Syncer] \in {"reading", "read"} /\ pc' = [pc EXCEPT ![Syncer] = "idle"]
        /\ End(Syncer) /\ flags' = flags
    BY <1>6 DEF SyncAborts
  <2>2. /\ AloneOK' /\ alone' = None
        /\ alone # Syncer => exact' = {}
        /\ alone = Syncer => exact' = base
    BY <1>3, <2>1, EndAlone DEF SInv
  <2>3. \A t \in exact' : ShownTo(t)
    BY <2>1, <2>2 DEF SInv, SyncerShows
  <2>4. Settled'
    BY <1>1, <2>1, <2>3, ShownStays DEF Settled
  <2>. QED
    BY <1>2, <1>3, <2>2, <2>4, FlagStreamAssumption DEF SInv, HandlerShows, SyncerShows, Broadcasters
<1>7. CASE SyncRead \/ SyncSwap \/ SyncCompute
  <2>1. pc[Syncer] # "idle" /\ UNCHANGED auxVars
    BY <1>7 DEF SyncRead, SyncSwap, SyncCompute
  <2>2. exact = {} /\ alone \in {Syncer, None}
    BY <1>3, <2>1, ActiveAlone DEF SInv
  <2>3. /\ pc'[Syncer] \in {"read", "swapped", "sending"}
        /\ DOMAIN pc' = Broadcasters
        /\ \A c \in Broadcasters \ {Syncer} : pc'[c] = pc[c]
    BY <1>3, <1>7 DEF SyncRead, SyncSwap, SyncCompute, SInv, AloneOK
  <2>4. AloneOK'
    BY <1>3, <2>1, <2>2, <2>3 DEF SInv, AloneOK, auxVars, Broadcasters
  <2>5. HandlerShows' /\ Settled'
    BY <1>3, <2>1, <2>2, FlagStreamAssumption DEF HandlerShows, Settled, auxVars, Broadcasters
  <2>6. ASSUME alone = Syncer
        PROVE  SyncerShows'
    <3>1. CASE SyncRead
      <4>1. /\ pc[Syncer] = "reading" /\ pc'[Syncer] = "read"
            /\ before' = before /\ flags' = flags
        BY <1>3, <3>1 DEF SyncRead, SInv, AloneOK
      <4>2. before = flagPayloadsByEnv(flags) /\ \A t \in base : ShownTo(t)
        BY <2>6, <4>1 DEF SInv, SyncerShows
      <4>3. before' = flagPayloadsByEnv(flags)' /\ \A t \in base : ShownTo(t)'
        BY <1>1, <4>1, <4>2, ShownStays DEF flagPayloadsByEnv, Present, Payload
      <4>. QED
        BY <2>1, <4>1, <4>3 DEF SyncerShows, auxVars
    <3>2. CASE SyncSwap
      <4>1. pc[Syncer] = "read" /\ pc'[Syncer] = "swapped" /\ before' = before
        BY <1>3, <3>2 DEF SyncSwap, SInv, AloneOK
      <4>2. before = flagPayloadsByEnv(flags) /\ \A t \in base : ShownTo(t)
        BY <2>6, <4>1 DEF SInv, SyncerShows
      <4>3. ASSUME NEW s \in Subscribers, Topic[s] \in base
            PROVE  Shown(s, Held(before, Topic[s]))
        <5>1. Held(before, Topic[s]) = Payload(flags, Topic[s])
          BY <4>2, <4>3, PayloadHeld DEF SInv, AloneOK, IInv, MapsOK
        <5>. QED
          BY <4>2, <4>3, <5>1 DEF ShownTo
      <4>4. ASSUME NEW s \in Subscribers, Topic[s] \in base
            PROVE  Shown(s, Held(before, Topic[s]))'
        BY <1>1, <4>1, <4>3, <4>4 DEF Shown, Held, connVars
      <4>. QED
        BY <2>1, <4>1, <4>4 DEF SyncerShows, auxVars
    <3>3. CASE SyncCompute
      <4>1. pc[Syncer] = "swapped" /\ pc'[Syncer] = "sending" /\ flags' = flags
            /\ out'[Syncer] = Changed(before, flagPayloadsByEnv(flags))
        BY <1>3, <3>3 DEF SyncCompute, SInv, AloneOK, IInv, PayloadsOK
      <4>2. ASSUME NEW t \in base
            PROVE  Sent(Syncer, t)'
        <5>1. IF t \in DOMAIN out'[Syncer] THEN out'[Syncer][t] = Payload(flags, t)
              ELSE Held(before, t) = Payload(flags, t)
          BY <4>1, ChangedHeld DEF SInv, AloneOK, IInv, MapsOK
        <5>2. ASSUME t \notin DOMAIN out'[Syncer]
              PROVE  ShownTo(t)
          <6>1. ASSUME NEW s \in Subscribers, Topic[s] = t
                PROVE  Shown(s, Held(before, Topic[s])) \/ Shown(s, Payload(flags, Topic[s]))
            BY <2>6, <4>1, <6>1 DEF SInv, SyncerShows
          <6>. QED
            BY <5>1, <5>2, <6>1 DEF ShownTo
        <5>3. t \notin DOMAIN out'[Syncer] => ShownTo(t)'
          BY <1>1, <4>1, <5>2, ShownStays
        <5>4. t \in DOMAIN out'[Syncer] => out'[Syncer][t] = Payload(flags, t)'
          BY <4>1, <5>1 DEF Payload
        <5>. QED
          BY <5>3, <5>4 DEF Sent
      <4>. QED
        BY <2>1, <4>1, <4>2 DEF SyncerShows, auxVars
    <3>. QED
      BY <1>7, <3>1, <3>2, <3>3
  <2>7. SyncerShows'
    BY <1>3, <2>1, <2>2, <2>6 DEF SyncerShows, auxVars
  <2>. QED
    BY <1>2, <2>4, <2>5, <2>7 DEF SInv
<1>. QED
  BY <1>4, <1>5, <1>6, <1>7

(***************************************************************************)
(* A subscriber of the topic that is not dropped shows what was sent last, *)
(* and subscribers of other environments show what they did.               *)
(***************************************************************************)
LEMMA TakenShown ==
    ASSUME IInv, NEW s \in Subscribers, NEW t, NEW m, m \in Fits(t), t = Topic[s],
           t # "all", Len(chan[s]) # Capacity
    PROVE  Taken(s, t, m) = Append(chan[s], m)
<1>1. chan[s] \in Seq(Fits(t)) /\ Len(chan[s]) \in Nat /\ Len(chan[s]) < Capacity
  BY FlagStreamAssumption DEF IInv, ConnectionsOK
<1>2. Copies(s, t) = 1
  BY DEF Copies
<1>3. [i \in 1..1 |-> m] = <<m>>
  OBVIOUS
<1>4. Offered(s, t, m) = chan[s] \o <<m>>
  BY <1>2, <1>3 DEF Offered
<1>5. Offered(s, t, m) = Append(chan[s], m)
  BY <1>1, <1>4
<1>6. Append(chan[s], m) \in Seq(Fits(t)) /\ Len(Append(chan[s], m)) = Len(chan[s]) + 1
  BY <1>1
<1>7. Len(Append(chan[s], m)) <= Capacity
  BY <1>1, <1>6, FlagStreamAssumption
<1>8. \A q \in Seq(Fits(t)) : SubSeq(q, 1, Len(q)) = q
  OBVIOUS
<1>. QED
  BY <1>5, <1>6, <1>7, <1>8 DEF Taken

LEMMA SendShows ==
    ASSUME IInv, SInv, NEW b \in Broadcasters, NEW t \in DOMAIN out[b], Send(b, t),
           NEW s \in Subscribers, Topic[s] # "all"
    PROVE  /\ Topic[s] = t => \A p : p = out[b][t] => Shown(s, p)'
           /\ Topic[s] # t => \A p : Shown(s, p) => Shown(s, p)'
<1>1. t \in Topics /\ out[b][t] \in Fits(t)
  BY DEF IInv, PayloadsOK, PayloadsFit
<1>. DEFINE m == out[b][t]
            reached == {u \in listed : Copies(u, t) > 0}
            full == {u \in reached : Len(chan[u]) = Capacity}
<1>2. /\ conn' = conn /\ view' = view
      /\ chan'[s] = IF s \in reached THEN Taken(s, t, m) ELSE chan[s]
      /\ dropped' = (dropped \ reached) \cup full
  BY DEF Send, broadcastSSE
<1>3. ASSUME Topic[s] = t, conn[s] \in Open, s \notin dropped'
      PROVE  chan'[s] # <<>> /\ chan'[s][Len(chan'[s])] = m
  <2>1. s \in listed /\ Copies(s, t) > 0
    BY <1>3 DEF SInv, ListingOK, Copies
  <2>2. s \in reached /\ Len(chan[s]) # Capacity
    BY <1>2, <1>3, <2>1
  <2>3. chan'[s] = Append(chan[s], m)
    BY <1>1, <1>2, <1>3, <2>2, TakenShown
  <2>4. chan[s] \in Seq(Fits(t)) /\ m \in Fits(t)
    BY <1>1, <1>3 DEF IInv, ConnectionsOK
  <2>5. Append(chan[s], m) # <<>>
        /\ Append(chan[s], m)[Len(Append(chan[s], m))] = m
    BY <2>4, AppendProperties
  <2>. QED
    BY <2>3, <2>5
<1>4. ASSUME Topic[s] # t
      PROVE  chan'[s] = chan[s] /\ (s \in dropped' <=> s \in dropped)
  <2>1. Copies(s, t) = 0
    BY <1>4 DEF Copies
  <2>. QED
    BY <1>2, <2>1
<1>5. Topic[s] = t => \A p : p = out[b][t] => Shown(s, p)'
  BY <1>2, <1>3 DEF Shown
<1>6. Topic[s] # t => \A p : Shown(s, p) => Shown(s, p)'
  BY <1>2, <1>4 DEF Shown
<1>. QED
  BY <1>5, <1>6

LEMMA SendSettled ==
    ASSUME IInv, SInv, NEW b \in Broadcasters, NEW t \in DOMAIN out[b], Send(b, t)
    PROVE  SInv'
<1>1. /\ UNCHANGED <<flags, pc, conn, listed, before>> /\ UNCHANGED auxVars
      /\ pc[b] = "sending"
      /\ out'[b] = [u \in DOMAIN out[b] \ {t} |-> out[b][u]]
  BY DEF Send, IInv, PayloadsOK
<1>2. exact = {} /\ alone \in {b, None}
  BY <1>1, ActiveAlone DEF SInv
<1>3. ListingOK'
  <2>1. ASSUME NEW s \in Subscribers, conn[s] = "new"
        PROVE  chan'[s] = chan[s]
    <3>1. s \notin listed
      BY <2>1 DEF IInv, ConnectionsOK, Open
    <3>. QED
      BY <3>1 DEF Send, broadcastSSE
  <2>. QED
    BY <1>1, <2>1 DEF SInv, ListingOK
<1>4. AloneOK'
  BY <1>1 DEF SInv, AloneOK, NobodyActive, auxVars
<1>5. ASSUME NEW u \in Envs, Sent(b, u)
      PROVE  Sent(b, u)'
  <2>1. Payload(flags, u)' = Payload(flags, u)
    BY <1>1 DEF Payload
  <2>2. CASE u \in DOMAIN out[b] \ {t}
    BY <1>1, <1>5, <2>1, <2>2 DEF Sent
  <2>3. CASE u = t
    <3>1. out[b][t] = Payload(flags, u) /\ u # "all"
      BY <1>5, <2>3, FlagStreamAssumption DEF Sent
    <3>2. ASSUME NEW s \in Subscribers, Topic[s] = u
          PROVE  \A p : p = Payload(flags, u) => Shown(s, p)'
      BY <2>3, <3>1, <3>2, SendShows
    <3>3. ShownTo(u)'
      BY <2>1, <3>2 DEF ShownTo, Shown
    <3>. QED
      BY <1>1, <2>3, <3>3 DEF Sent
  <2>4. CASE u \notin DOMAIN out[b]
    <3>1. ShownTo(u) /\ u # t /\ u # "all"
      BY <1>5, <2>4, FlagStreamAssumption DEF Sent
    <3>2. ASSUME NEW s \in Subscribers, Topic[s] = u
          PROVE  \A p : p = Payload(flags, u) => Shown(s, p)'
      BY <3>1, <3>2, SendShows DEF ShownTo
    <3>3. ShownTo(u)'
      BY <2>1, <3>2 DEF ShownTo, Shown
    <3>. QED
      BY <1>1, <2>4, <3>3 DEF Sent
  <2>. QED
    BY <2>2, <2>3, <2>4
<1>6. HandlerShows'
  <2>. SUFFICES ASSUME alone' \in Handlers, NEW u \in (Present(flags) \ {"all"})'
                PROVE  Sent(alone, u)'
    BY DEF HandlerShows
  <2>1. alone' = alone /\ alone = b
    BY <1>1, <1>2, FlagStreamAssumption DEF auxVars, Broadcasters
  <2>2. u \in Present(flags) \ {"all"}
    BY <1>1 DEF Present
  <2>3. u \in Envs
    BY <2>2, PresentAreTopics DEF Topics, IInv, MapsOK
  <2>4. Sent(b, u)
    BY <1>1, <2>1, <2>2 DEF SInv, HandlerShows
  <2>. QED
    BY <1>5, <2>1, <2>3, <2>4 DEF Sent
<1>7. SyncerShows'
  <2>. SUFFICES ASSUME alone' = Syncer
                PROVE  SyncerShows'
    BY DEF SyncerShows
  <2>1. alone = b /\ b = Syncer /\ pc'[Syncer] = "sending" /\ base' = base
    BY <1>1, <1>2, FlagStreamAssumption DEF auxVars, Broadcasters
  <2>2. \A u \in base : u \in Envs /\ Sent(b, u)
    BY <1>1, <2>1 DEF SInv, SyncerShows, AloneOK
  <2>3. \A u \in base : Sent(b, u)'
    BY <1>5, <2>2
  <2>. QED
    BY <2>1, <2>3 DEF SyncerShows
<1>8. Settled'
  BY <1>1, <1>2 DEF Settled, auxVars
<1>. QED
  BY <1>3, <1>4, <1>6, <1>7, <1>8 DEF SInv

LEMMA DoneSettled ==
    ASSUME IInv, SInv, NEW b \in Broadcasters, Done(b)
    PROVE  SInv'
<1>1. /\ pc[b] = "sending" /\ DOMAIN out[b] = {} /\ pc' = [pc EXCEPT ![b] = "idle"]
      /\ End(b) /\ flags' = flags /\ UNCHANGED connVars
  BY DEF Done
<1>2. ListingOK'
  BY <1>1 DEF SInv, ListingOK, connVars
<1>3. /\ AloneOK' /\ alone' = None
      /\ alone # b => exact' = {}
      /\ alone = b => exact' = IF b = Syncer THEN base ELSE Present(flags) \ {"all"}
  BY <1>1, EndAlone DEF SInv
<1>4. ASSUME NEW t \in exact'
      PROVE  ShownTo(t)
  <2>1. alone = b
    BY <1>3
  <2>2. Sent(b, t)
    BY <1>1, <1>3, <2>1 DEF SInv, HandlerShows, SyncerShows, Broadcasters
  <2>. QED
    BY <1>1, <2>2 DEF Sent
<1>5. Settled'
  BY <1>1, <1>4, ShownStays DEF Settled
<1>. QED
  BY <1>2, <1>3, <1>5, FlagStreamAssumption DEF SInv, HandlerShows, SyncerShows, Broadcasters

(***************************************************************************)
(* What is received last from a channel is its last message.               *)
(***************************************************************************)
LEMMA LastOfTail ==
    ASSUME NEW S, NEW q \in Seq(S), q # <<>>
    PROVE  \/ Tail(q) = <<>> /\ Head(q) = q[Len(q)]
           \/ Tail(q) # <<>> /\ Tail(q)[Len(Tail(q))] = q[Len(q)]
<1>1. /\ Len(q) \in Nat \ {0} /\ Head(q) = q[1]
      /\ Tail(q) \in Seq(S) /\ Len(Tail(q)) = Len(q) - 1
      /\ \A i \in 1..Len(Tail(q)) : Tail(q)[i] = q[i + 1]
  BY HeadTailProperties
<1>2. CASE Len(q) = 1
  <2>1. Len(Tail(q)) = 0
    BY <1>1, <1>2
  <2>2. Tail(q) = <<>>
    BY <1>1, <2>1, EmptySeq
  <2>. QED
    BY <1>1, <1>2, <2>2
<1>3. CASE Len(q) # 1
  <2>1. Len(Tail(q)) \in 1..Len(Tail(q)) /\ Len(Tail(q)) + 1 = Len(q)
    BY <1>1, <1>3
  <2>2. Tail(q)[Len(Tail(q))] = q[Len(q)]
    BY <1>1, <2>1
  <2>3. Tail(q) # <<>>
    <3>1. Len(Tail(q)) # 0
      BY <1>1, <1>3
    <3>2. Tail(q) = <<>> => Len(Tail(q)) = 0
      BY Zenon, EmptySeq
    <3>. QED
      BY <3>1, <3>2
  <2>. QED
    BY <2>2, <2>3
<1>. QED
  BY <1>2, <1>3

(***************************************************************************)
(* A connection's own steps leave what it shows, or show it the map.       *)
(***************************************************************************)
LEMMA ConnectionShows ==
    ASSUME IInv, SInv, NEW s \in Subscribers,
           Register(s) \/ SendCurrent(s) \/ Receive(s) \/ Leave(s) \/ Close(s)
    PROVE  /\ ListingOK'
           /\ \A u \in Subscribers : \/ \A p : Shown(u, p) => Shown(u, p)'
                                     \/ \A p : p = Payload(flags, Topic[u]) => Shown(u, p)'
<1>. USE DEF IInv, ConnectionsOK, SInv, ListingOK, Shown, Open
<1>1. CASE Register(s)
  BY <1>1 DEF Register
<1>2. CASE SendCurrent(s)
  BY <1>2 DEF SendCurrent
<1>3. CASE Receive(s)
  <2>1. chan[s] \in Seq(Fits(Topic[s])) /\ chan[s] # <<>>
    BY <1>3 DEF Receive
  <2>2. \/ Tail(chan[s]) = <<>> /\ Head(chan[s]) = chan[s][Len(chan[s])]
        \/ Tail(chan[s]) # <<>> /\ Tail(chan[s])[Len(Tail(chan[s]))] = chan[s][Len(chan[s])]
    BY <2>1, LastOfTail
  <2>. QED
    BY <1>3, <2>2 DEF Receive
<1>4. CASE Leave(s)
  BY <1>4 DEF Leave
<1>5. CASE Close(s)
  BY <1>5 DEF Close
<1>. QED
  BY <1>1, <1>2, <1>3, <1>4, <1>5

LEMMA ConnectionSettled ==
    ASSUME IInv, SInv, NEW s \in Subscribers,
           Register(s) \/ SendCurrent(s) \/ Receive(s) \/ Leave(s) \/ Close(s)
    PROVE  SInv'
<1>1. UNCHANGED <<flags, pc, out, before>> /\ UNCHANGED auxVars
  BY DEF Register, SendCurrent, Receive, Leave, Close
<1>2. ListingOK'
  BY ConnectionShows
<1>3. \A t : Payload(flags, t)' = Payload(flags, t)
  BY <1>1 DEF Payload
<1>4. ASSUME NEW u \in Subscribers, NEW p, Shown(u, p)
      PROVE  \/ Shown(u, p)'
             \/ Shown(u, Payload(flags, Topic[u]))'
  <2>1. \/ \A q : Shown(u, q) => Shown(u, q)'
        \/ \A q : q = Payload(flags, Topic[u]) => Shown(u, q)'
    BY ConnectionShows
  <2>. QED
    BY <1>3, <1>4, <2>1 DEF Shown
<1>5. \A t : ShownTo(t) => ShownTo(t)'
  <2>1. ASSUME NEW u \in Subscribers, NEW t, t = Topic[u], Shown(u, Payload(flags, t))
        PROVE  Shown(u, Payload(flags, t))'
    <3>1. \/ \A q : Shown(u, q) => Shown(u, q)'
          \/ \A q : q = Payload(flags, t) => Shown(u, q)'
      BY <2>1, ConnectionShows
    <3>. QED
      BY <1>3, <2>1, <3>1 DEF Shown
  <2>. QED
    BY <2>1 DEF ShownTo
<1>6. \A b, t : Sent(b, t) => Sent(b, t)'
  BY <1>1, <1>3, <1>5 DEF Sent
<1>7. AloneOK'
  BY <1>1 DEF SInv, AloneOK, NobodyActive, auxVars
<1>8. HandlerShows'
  <2>1. Present(flags)' = Present(flags)
    BY <1>1 DEF Present
  <2>. QED
    BY <1>1, <1>6, <2>1 DEF SInv, HandlerShows, Sent, auxVars
<1>9. SyncerShows'
  <2>1. before = flagPayloadsByEnv(flags) => before' = flagPayloadsByEnv(flags)'
    BY <1>1 DEF flagPayloadsByEnv, Present, Payload
  <2>2. ASSUME NEW u \in Subscribers,
               Shown(u, Held(before, Topic[u])) \/ Shown(u, Payload(flags, Topic[u]))
        PROVE  Shown(u, Held(before, Topic[u]))' \/ Shown(u, Payload(flags, Topic[u]))'
    <3>1. \/ \A q : Shown(u, q) => Shown(u, q)'
          \/ \A q : q = Payload(flags, Topic[u]) => Shown(u, q)'
      BY ConnectionShows
    <3>2. Held(before, Topic[u])' = Held(before, Topic[u])
      BY <1>1 DEF Held
    <3>. QED
      BY <1>3, <2>2, <3>1, <3>2 DEF Shown
  <2>. QED
    BY <1>1, <1>5, <1>6, <2>1, <2>2 DEF SInv, SyncerShows, auxVars
<1>10. Settled'
  BY <1>1, <1>5 DEF SInv, Settled, auxVars
<1>. QED
  BY <1>2, <1>7, <1>8, <1>9, <1>10 DEF SInv

LEMMA StepSettled == IInv /\ SInv /\ [Next]_vars => SInv'
<1>1. CASE UNCHANGED vars
  BY <1>1 DEF vars, connVars, auxVars, SInv, ListingOK, AloneOK, NobodyActive, HandlerShows,
              SyncerShows, Settled, ShownTo, Shown, Sent
<1>. QED
  BY <1>1, HandlerSettled, SynchronisationSettled, SendSettled, DoneSettled,
     ConnectionSettled DEF Next

(***************************************************************************)
(* A broadcast that met no other leaves the connections to environments    *)
(* with flags current, and a lone synchronisation keeps them so.           *)
(***************************************************************************)
THEOREM SettledCurrent == Spec => []SettledStreamIsCurrent
<1>1. IInv /\ SInv => SettledStreamIsCurrent
  BY DEF SInv, Settled, ShownTo, Shown, Open, SettledStreamIsCurrent, Following, Current, Latest
<1>. QED
  BY <1>1, InductiveInvariant, InitSettled, StepSettled, PTL DEF Spec
===============================================================================
