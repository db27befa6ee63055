----------------------------- MODULE FlagStream -----------------------------
(***************************************************************************)
(* The flag stream of one control-plane replica (control-plane/main.go):   *)
(* flagsSSEHandler, broadcastSSE and the two kinds of broadcaster, write   *)
(* handlers and the store synchronisation.                                 *)
(*                                                                         *)
(* A write handler changes the map, stores the change, computes the        *)
(* payload of every environment that has flags, and sends each.  The       *)
(* synchronisation computes the payloads before it reads the store and     *)
(* after it replaced the map, and sends those that differ.  No lock is     *)
(* held between these steps, so broadcasters overtake one another.         *)
(*                                                                         *)
(* The handler streams only to a response writer that can flush.  The one  *)
(* metricsMiddleware wraps around the server's (statusRecorder) cannot, so *)
(* the handler refuses every client of the program as main wires it, and   *)
(* streams where it is called without that wrapper.                        *)
(*                                                                         *)
(* A payload is a set of flags.  alone, base, exact and dropped are        *)
(* auxiliary.  A definition marked "faulty" is a plausible bug in the one  *)
(* after it and is not used.                                               *)
(***************************************************************************)
EXTENDS Integers, Sequences

CONSTANTS
    Names,        \* flag names
    Defs,         \* flag definitions: records with an env and a rev
    Envs,         \* environments flags belong to
    None,         \* marks an absent flag, and nobody
    Handlers,     \* write requests that may be in progress at once
    Syncer,       \* the synchronisation goroutine
    Subscribers,  \* connections to the stream
    Topic,        \* the environment each connection asks for, or "all"
    Wrapped,      \* whether requests pass through metricsMiddleware
    Capacity,     \* messages a connection's channel holds (16 in the code)
    MaxWrites     \* bound on writes, the replica's own and other replicas'

Flags == [Names -> Defs \cup {None}]
Topics == Envs \cup {"all"}
Broadcasters == Handlers \cup {Syncer}

ASSUME FlagStreamAssumption ==
    /\ \A d \in Defs : d.env \in Envs
    /\ "all" \notin Envs
    /\ None \notin Defs \cup Broadcasters
    /\ Syncer \notin Handlers
    /\ Topic \in [Subscribers -> Topics]
    /\ Wrapped \in BOOLEAN
    /\ Capacity \in Nat \ {0}
    /\ MaxWrites \in Nat

VARIABLES
    flags,      \* the replica's map
    store,      \* what the shared store holds
    pc,         \* the step each broadcaster is at
    req,        \* the flag and definition each handler writes
    out,        \* the payloads each broadcaster has yet to send, by topic
    before,     \* the payloads the synchronisation started from
    got,        \* the map it read
    conn,       \* each connection: new, refused, registered, streaming,
                \* leaving or closed
    listed,     \* connections whose channel is in sseClients
    chan,       \* its channel
    view,       \* the last payload its client was sent
    writes,     \* writes so far
    alone,      \* the broadcaster that has met no other since it began
    exact,      \* environments a lone broadcaster has brought up to date
    base,       \* those the synchronisation found so
    dropped     \* connections whose last message was dropped

connVars == <<conn, listed, chan, view, dropped>>
auxVars == <<alone, exact, base>>
vars == <<flags, store, pc, req, out, before, got, conn, listed, chan, view,
          writes, alone, exact, base, dropped>>

NoFlags == [n \in Names |-> None]

NoRequest == [name |-> None, def |-> None]

Payload(f, t) ==
    {<<n, f[n]>> : n \in {m \in Names : f[m] # None /\ (t = "all" \/ f[m].env = t)}}

(***************************************************************************)
(* flagPayloadsByEnv: "all", and every environment that has a flag.        *)
(***************************************************************************)
Present(f) == {"all"} \cup {f[n].env : n \in {m \in Names : f[m] # None}}

flagPayloadsByEnv(f) == [t \in Present(f) |-> Payload(f, t)]

(***************************************************************************)
(* broadcastChangedFlagPayloads: what differs, and the empty list for an   *)
(* environment whose flags are all gone.                                   *)
(***************************************************************************)
ChangedPresentOnly(old, new) ==  \* faulty
    [t \in {u \in DOMAIN new : u \notin DOMAIN old \/ old[u] # new[u]} |-> new[t]]

Changed(old, new) ==
    LET differs == {t \in DOMAIN new : t \notin DOMAIN old \/ old[t] # new[t]}
        gone    == DOMAIN old \ DOMAIN new
    IN  [t \in differs \cup gone |-> IF t \in gone THEN {} ELSE new[t]]

Init ==
    /\ flags = NoFlags
    /\ store = NoFlags
    /\ pc = [b \in Broadcasters |-> "idle"]
    /\ req = [h \in Handlers |-> NoRequest]
    /\ out = [b \in Broadcasters |-> << >>]
    /\ before = << >>
    /\ got = NoFlags
    /\ conn = [s \in Subscribers |-> "new"]
    /\ listed = {}
    /\ chan = [s \in Subscribers |-> << >>]
    /\ view = [s \in Subscribers |-> {}]
    /\ writes = 0
    /\ alone = None
    /\ exact = Envs
    /\ base = {}
    /\ dropped = {}

-------------------------------------------------------------------------------
(***************************************************************************)
(* Auxiliary: broadcaster b begins, and ends.                              *)
(***************************************************************************)
NobodyActive == \A b \in Broadcasters : pc[b] = "idle"

Begin(b) ==
    /\ alone' = IF NobodyActive THEN b ELSE None
    /\ base' = IF b = Syncer /\ NobodyActive THEN exact ELSE {}
    /\ exact' = {}

\* A handler sends every payload there is; the synchronisation only sends
\* what differs, so it keeps up to date what it found up to date.
End(b) ==
    /\ exact' = IF alone # b THEN {}
                ELSE IF b = Syncer THEN base ELSE Present(flags) \ {"all"}
    /\ alone' = None
    /\ base' = {}

(***************************************************************************)
(* A create or update request, or a delete when d is None: the map changes *)
(* under flagsMu, then the store, then the payloads are computed.          *)
(***************************************************************************)
Change(h, n, d) ==
    /\ pc[h] = "idle"
    /\ writes < MaxWrites
    /\ writes' = writes + 1
    /\ flags' = [flags EXCEPT ![n] = d]
    /\ req' = [req EXCEPT ![h] = [name |-> n, def |-> d]]
    /\ pc' = [pc EXCEPT ![h] = "changed"]
    /\ Begin(h)
    /\ UNCHANGED <<store, out, before, got, connVars>>

\* A command that fails is logged and the handler goes on.
Persist(h) ==
    /\ pc[h] = "changed"
    /\ store' \in {store, [store EXCEPT ![req[h].name] = req[h].def]}
    /\ pc' = [pc EXCEPT ![h] = "persisted"]
    /\ UNCHANGED <<flags, req, out, before, got, connVars, writes, auxVars>>

ComputeAgain(h) ==  \* faulty
    /\ pc[h] = "persisted"
    /\ out' = [out EXCEPT ![h] = Changed(flagPayloadsByEnv(store), flagPayloadsByEnv(flags))]
    /\ pc' = [pc EXCEPT ![h] = "sending"]
    /\ req' = [req EXCEPT ![h] = NoRequest]
    /\ UNCHANGED <<flags, store, before, got, connVars, writes, auxVars>>

Compute(h) ==
    /\ pc[h] = "persisted"
    /\ out' = [out EXCEPT ![h] = flagPayloadsByEnv(flags)]
    /\ pc' = [pc EXCEPT ![h] = "sending"]
    /\ req' = [req EXCEPT ![h] = NoRequest]
    /\ UNCHANGED <<flags, store, before, got, connVars, writes, auxVars>>

-------------------------------------------------------------------------------
(***************************************************************************)
(* Another replica writes to the shared store.                             *)
(***************************************************************************)
RemoteWrite(n, d) ==
    /\ writes < MaxWrites
    /\ writes' = writes + 1
    /\ store' = [store EXCEPT ![n] = d]
    /\ UNCHANGED <<flags, pc, req, out, before, got, connVars, auxVars>>

(***************************************************************************)
(* loadFromStore: payloads before, read, replace, payloads after.          *)
(***************************************************************************)
SyncBefore ==
    /\ pc[Syncer] = "idle"
    /\ before' = flagPayloadsByEnv(flags)
    /\ pc' = [pc EXCEPT ![Syncer] = "reading"]
    /\ Begin(Syncer)
    /\ UNCHANGED <<flags, store, req, out, got, connVars, writes>>

\* A flag whose GET fails is left out.
SyncRead ==
    /\ pc[Syncer] = "reading"
    /\ \E failed \in SUBSET Names :
          got' = [n \in Names |-> IF n \in failed THEN None ELSE store[n]]
    /\ pc' = [pc EXCEPT ![Syncer] = "read"]
    /\ UNCHANGED <<flags, store, req, out, before, connVars, writes, auxVars>>

\* Some prefix cannot be read: the round ends without an effect.
SyncAborts ==
    /\ pc[Syncer] \in {"reading", "read"}
    /\ pc' = [pc EXCEPT ![Syncer] = "idle"]
    /\ before' = << >>
    /\ got' = NoFlags
    /\ End(Syncer)
    /\ UNCHANGED <<flags, store, req, out, connVars, writes>>

SyncSwap ==
    /\ pc[Syncer] = "read"
    /\ flags' = got
    /\ got' = NoFlags
    /\ pc' = [pc EXCEPT ![Syncer] = "swapped"]
    /\ UNCHANGED <<store, req, out, before, connVars, writes, auxVars>>

SyncCompute ==
    /\ pc[Syncer] = "swapped"
    /\ out' = [out EXCEPT ![Syncer] = Changed(before, flagPayloadsByEnv(flags))]
    /\ before' = << >>
    /\ pc' = [pc EXCEPT ![Syncer] = "sending"]
    /\ UNCHANGED <<flags, store, req, got, connVars, writes, auxVars>>

-------------------------------------------------------------------------------
(***************************************************************************)
(* broadcastSSE(t, m): to the subscribers of t and, once more, to those of *)
(* "all".  A send that would block is skipped.                             *)
(***************************************************************************)
Copies(s, t) == (IF Topic[s] = t THEN 1 ELSE 0) + (IF Topic[s] = "all" THEN 1 ELSE 0)

Offered(s, t, m) == chan[s] \o [i \in 1..Copies(s, t) |-> m]

TakenAll(s, t, m) == Offered(s, t, m)  \* faulty

Taken(s, t, m) ==
    SubSeq(Offered(s, t, m), 1,
           IF Len(Offered(s, t, m)) <= Capacity THEN Len(Offered(s, t, m)) ELSE Capacity)

broadcastBlindly(t, m) ==  \* faulty
    /\ chan' = [s \in Subscribers |-> IF s \in listed THEN Append(chan[s], m) ELSE chan[s]]
    /\ dropped' = dropped

broadcastSSE(t, m) ==
    LET reached == {s \in listed : Copies(s, t) > 0}
        full    == {s \in reached : Len(chan[s]) = Capacity}
    IN  /\ chan' = [s \in Subscribers |-> IF s \in reached THEN Taken(s, t, m) ELSE chan[s]]
        /\ dropped' = (dropped \ reached) \cup full

Send(b, t) ==
    /\ pc[b] = "sending"
    /\ t \in DOMAIN out[b]
    /\ broadcastSSE(t, out[b][t])
    /\ out' = [out EXCEPT ![b] = [u \in DOMAIN out[b] \ {t} |-> out[b][u]]]
    /\ UNCHANGED <<flags, store, pc, req, before, got, conn, listed, view, writes, auxVars>>

Done(b) ==
    /\ pc[b] = "sending"
    /\ DOMAIN out[b] = {}
    /\ pc' = [pc EXCEPT ![b] = "idle"]
    /\ out' = [out EXCEPT ![b] = << >>]
    /\ End(b)
    /\ UNCHANGED <<flags, store, req, before, got, connVars, writes>>

-------------------------------------------------------------------------------
(***************************************************************************)
(* flagsSSEHandler: the channel enters the list, the current payload is    *)
(* written, then the channel's messages, until the client goes away.  The  *)
(* deferred function takes the channel off the list, then closes it.       *)
(***************************************************************************)
Register(s) ==
    /\ conn[s] = "new"
    /\ conn' = [conn EXCEPT ![s] = IF Wrapped THEN "refused" ELSE "registered"]
    /\ listed' = IF Wrapped THEN listed ELSE listed \cup {s}
    /\ UNCHANGED <<flags, store, pc, req, out, before, got, chan, view, dropped,
                   writes, auxVars>>

SendCurrent(s) ==
    /\ conn[s] = "registered"
    /\ conn' = [conn EXCEPT ![s] = "streaming"]
    /\ view' = [view EXCEPT ![s] = Payload(flags, Topic[s])]
    /\ UNCHANGED <<flags, store, pc, req, out, before, got, listed, chan, dropped,
                   writes, auxVars>>

Receive(s) ==
    /\ conn[s] = "streaming"
    /\ chan[s] # << >>
    /\ view' = [view EXCEPT ![s] = Head(chan[s])]
    /\ chan' = [chan EXCEPT ![s] = Tail(@)]
    /\ UNCHANGED <<flags, store, pc, req, out, before, got, conn, listed, dropped,
                   writes, auxVars>>

LeaveListed(s) ==  \* faulty
    /\ conn[s] = "streaming"
    /\ conn' = [conn EXCEPT ![s] = "leaving"]
    /\ UNCHANGED <<flags, store, pc, req, out, before, got, listed, chan, view,
                   dropped, writes, auxVars>>

Leave(s) ==
    /\ conn[s] = "streaming"
    /\ conn' = [conn EXCEPT ![s] = "leaving"]
    /\ listed' = listed \ {s}
    /\ UNCHANGED <<flags, store, pc, req, out, before, got, chan, view, dropped,
                   writes, auxVars>>

Close(s) ==
    /\ conn[s] = "leaving"
    /\ conn' = [conn EXCEPT ![s] = "closed"]
    /\ chan' = [chan EXCEPT ![s] = << >>]
    /\ view' = [view EXCEPT ![s] = {}]
    /\ dropped' = dropped \ {s}
    /\ UNCHANGED <<flags, store, pc, req, out, before, got, listed, writes, auxVars>>

-------------------------------------------------------------------------------
Next ==
    \/ \E h \in Handlers :
          \/ \E n \in Names, d \in Defs \cup {None} : Change(h, n, d)
          \/ Persist(h)
          \/ Compute(h)
    \/ \E n \in Names, d \in Defs \cup {None} : RemoteWrite(n, d)
    \/ SyncBefore
    \/ SyncRead
    \/ SyncAborts
    \/ SyncSwap
    \/ SyncCompute
    \/ \E b \in Broadcasters : Done(b) \/ \E t \in DOMAIN out[b] : Send(b, t)
    \/ \E s \in Subscribers :
          \/ Register(s)
          \/ SendCurrent(s)
          \/ Receive(s)
          \/ Leave(s)
          \/ Close(s)

Spec == Init /\ [][Next]_vars

-------------------------------------------------------------------------------
(***************************************************************************)
(* The type invariant: no channel ever holds more than its capacity.       *)
(***************************************************************************)
PayloadType == SUBSET (Names \X Defs)

TypeOK ==
    /\ flags \in Flags
    /\ store \in Flags
    /\ got \in Flags
    /\ \A s \in Subscribers :
          /\ view[s] \in PayloadType
          /\ \A i \in DOMAIN chan[s] : chan[s][i] \in PayloadType
          /\ Len(chan[s]) <= Capacity
    /\ conn \in [Subscribers -> {"new", "refused", "registered", "streaming", "leaving", "closed"}]
    /\ listed \subseteq Subscribers
    /\ dropped \subseteq Subscribers
    /\ writes \in 0..MaxWrites

(***************************************************************************)
(* A channel broadcasters can reach is open: however disconnections meet   *)
(* broadcasts, no message is sent on a closed channel, which would panic.  *)
(***************************************************************************)
ListedAreOpen == \A s \in listed : conn[s] # "closed"

(***************************************************************************)
(* A connection to one environment is only ever sent flags of it, whatever *)
(* environments flags move between while payloads are computed and sent.   *)
(***************************************************************************)
EnvIsolation ==
    \A s \in Subscribers :
        Topic[s] # "all" =>
            /\ \A f \in view[s] : f[2].env = Topic[s]
            /\ \A i \in DOMAIN chan[s] : \A f \in chan[s][i] : f[2].env = Topic[s]

(***************************************************************************)
(* The state a client ends in when it has drained its channel.             *)
(***************************************************************************)
Latest(s) == IF chan[s] = << >> THEN view[s] ELSE chan[s][Len(chan[s])]

Current(s) == Latest(s) = Payload(flags, Topic[s])

Following(s) == conn[s] = "streaming" /\ s \notin dropped

(***************************************************************************)
(* What the stream does guarantee: a handler's broadcast that met no other *)
(* leaves every connection to an environment that still has flags with the *)
(* current payload, and a lone synchronisation keeps it so, also when it   *)
(* takes away the environment's last flag; only connections whose channel  *)
(* was full are excepted.  Registration at any moment, earlier overtaken   *)
(* payloads and reverts by the synchronisation do not matter.              *)
(***************************************************************************)
SettledStreamIsCurrent ==
    \A s \in Subscribers : Following(s) /\ Topic[s] \in exact => Current(s)

(***************************************************************************)
(* The endpoint "streams real-time flag change notifications": no client   *)
(* that asks for the stream is refused.                                    *)
(***************************************************************************)
NobodyRefused == \A s \in Subscribers : conn[s] # "refused"
===============================================================================
