----------------------------- MODULE FlagClient -----------------------------
(***************************************************************************)
(* The Go SDK's copy of an environment's flag list (SDKClient in           *)
(* sdk/sdk.go), and the control-plane replicas it is fetched from.         *)
(*                                                                         *)
(* StartPolling and StartSSE each run a goroutine, and an application may  *)
(* start either or both.  Both end in fetchFlags: GET /flags/all, then,    *)
(* under the client's mutex, compare the body's text with the text last    *)
(* seen and replace the list if they differ; the application's callback    *)
(* runs after the mutex is released.  The stream's events serve only as a  *)
(* signal: their text is remembered as if it were a body, and the list is  *)
(* fetched again.                                                          *)
(*                                                                         *)
(* Replicas stand behind one address: the stream stays with the replica    *)
(* that accepted it, and each fetch is answered by any of them.  What a    *)
(* stream is sent is FlagStream's subject, and how replicas synchronise    *)
(* FlagReplicas'; here a replica's list changes, by a handler or a round   *)
(* of loadFromStore, and is announced later, or not at all.                *)
(*                                                                         *)
(* missed is auxiliary.  A definition marked "faulty" is a plausible bug   *)
(* in the one after it and is not used.                                    *)
(***************************************************************************)
EXTENDS Integers

CONSTANTS
    Replicas,
    Lists,       \* flag lists of the environment
    NoFlags,     \* the empty one
    Orders,      \* orders a list may be written in
    None,        \* no replica
    NoText,      \* the text of a client that has seen nothing
    ErrorText,   \* a body that is not a flag list
    EventText,   \* the text of an event, see Signal
    Capacity,    \* events a stream holds for a slow reader
    Setups,      \* replicas that run, goroutines started, and a bound on writes
    MaxFaults    \* bound on failed fetches, broken streams and wrong readings

Goroutines == {"poll", "sse"}

(***************************************************************************)
(* getAllFlagsHandler ranges over a Go map: the same list is written in    *)
(* any order.                                                              *)
(***************************************************************************)
Bodies == [list : Lists \ {NoFlags}, order : Orders] \cup [list : {NoFlags}, order : {1}]

Texts == Bodies \cup {NoText, ErrorText, EventText}

ASSUME FlagClientAssumption ==
    /\ NoFlags \in Lists
    /\ 1 \in Orders
    /\ None \notin Replicas
    /\ {NoText, ErrorText, EventText} \cap Bodies = {}
    /\ EventText # NoText /\ EventText # ErrorText /\ ErrorText # NoText
    /\ Capacity \in Nat \ {0}
    /\ Setups \subseteq [up : SUBSET Replicas, started : SUBSET Goroutines, writes : Nat]
    /\ MaxFaults \in Nat

VARIABLES
    up,          \* the replicas that run, which do not change
    started,     \* the goroutines the application started
    served,      \* each replica's list
    writing,     \* its handlers that changed the list and did not announce it yet
    round,       \* its round of loadFromStore, and the list it began with
    stored,      \* the list in the shared store
    commands,    \* commands sent to the store that may still arrive
    left,        \* writes that may still come
    stream,      \* the replica that holds the stream, or None
    queued,      \* events on it that the client has not read
    lastConfig,  \* the text the client saw last
    flags,       \* its list
    app,         \* the list the callback brought last
    pc,          \* each goroutine: idle, asking, answered or calling
    body,        \* the answer it has
    update,      \* the list it will call the callback with
    missed,      \* no signal led or will lead to the list the stream's replica has
    faults       \* faults so far

deployVars == <<up, started>>
replicaVars == <<served, writing, round>>
storeVars == <<stored, commands, left>>
serverVars == <<replicaVars, storeVars>>
streamVars == <<stream, queued>>
clientVars == <<lastConfig, flags, app>>
fetchVars == <<pc, body, update>>
vars == <<up, started, served, writing, round, stored, commands, left, stream, queued,
          lastConfig, flags, app, pc, body, update, missed, faults>>

Rounds == [phase : {"none", "begun", "swapped"}, before : Lists]

NoRound == [phase |-> "none", before |-> NoFlags]

Init ==
    /\ \E s \in Setups : up = s.up /\ started = s.started /\ left = s.writes
    /\ served = [r \in Replicas |-> NoFlags]
    /\ writing = [r \in Replicas |-> 0]
    /\ round = [r \in Replicas |-> NoRound]
    /\ stored = NoFlags
    /\ commands = 0
    /\ stream = None
    /\ queued = 0
    /\ lastConfig = NoText
    /\ flags = NoFlags
    /\ app = NoFlags
    /\ pc = [g \in Goroutines |-> "idle"]
    /\ body = [g \in Goroutines |-> NoText]
    /\ update = [g \in Goroutines |-> NoFlags]
    /\ missed = FALSE
    /\ faults = 0

Fault ==
    /\ faults < MaxFaults
    /\ faults' = faults + 1

(***************************************************************************)
(* Something of which the stream will not tell has happened.  A client     *)
(* that polls does not depend on it.                                       *)
(***************************************************************************)
Miss(happened) == missed' = (missed \/ (happened /\ "poll" \notin started))

-------------------------------------------------------------------------------
(***************************************************************************)
(* broadcastSSE: an event for which the stream has no room is dropped.     *)
(***************************************************************************)
AnnounceBlindly(r) ==  \* faulty
    queued' = IF stream = r THEN queued + 1 ELSE queued

Announce(r) ==
    queued' = IF stream = r /\ queued < Capacity THEN queued + 1 ELSE queued

(***************************************************************************)
(* A write handler of replica r changes the list and sends its command.    *)
(***************************************************************************)
Change(r, l) ==
    /\ r \in up
    /\ left > 0
    /\ left' = left - 1
    /\ commands' = commands + 1
    /\ served' = [served EXCEPT ![r] = l]
    /\ writing' = [writing EXCEPT ![r] = @ + 1]
    /\ UNCHANGED <<deployVars, round, stored, streamVars, clientVars, fetchVars, missed,
                   faults>>

(***************************************************************************)
(* It announces what the environment holds by then; an environment that is *)
(* empty it may not announce.                                              *)
(***************************************************************************)
Finish(r) ==
    /\ writing[r] > 0
    /\ writing' = [writing EXCEPT ![r] = @ - 1]
    /\ \/ Announce(r) /\ UNCHANGED missed
       \/ /\ served[r] = NoFlags
          /\ Miss(stream = r)
          /\ UNCHANGED queued
    /\ UNCHANGED <<deployVars, served, round, storeVars, stream, clientVars, fetchVars,
                   faults>>

\* POST /config writes the store and no replica's map.
Configure ==
    /\ left > 0
    /\ left' = left - 1
    /\ commands' = commands + 1
    /\ UNCHANGED <<deployVars, replicaVars, stored, streamVars, clientVars, fetchVars,
                   missed, faults>>

(***************************************************************************)
(* The store executes a command when it arrives, which may be after its    *)
(* handler has finished, or never.  It writes one flag among others', so   *)
(* the list it leaves need not be the one the handler's replica served.    *)
(***************************************************************************)
Execute(l) ==
    /\ commands > 0
    /\ commands' = commands - 1
    /\ stored' = l
    /\ UNCHANGED <<deployVars, replicaVars, left, streamVars, clientVars, fetchVars,
                   missed, faults>>

-------------------------------------------------------------------------------
(***************************************************************************)
(* loadFromStore, which a replica runs one round after the other: it takes *)
(* the list it has, reads the store, replaces its list, and announces it   *)
(* if by then it is not the one from the beginning.                        *)
(***************************************************************************)
InRound(r, phase) == r \in up /\ round[r].phase = phase

SyncBegin(r) ==
    /\ InRound(r, "none")
    /\ round' = [round EXCEPT ![r] = [phase |-> "begun", before |-> served[r]]]
    /\ UNCHANGED <<deployVars, served, writing, storeVars, streamVars, clientVars,
                   fetchVars, missed, faults>>

(***************************************************************************)
(* The list is replaced by what the round has read.  That is not the       *)
(* store's when a GET failed or a command arrived during the round.  A     *)
(* handler may have changed the list since the round began: when the round *)
(* puts the old one back, nothing will be announced.                       *)
(***************************************************************************)
Replace(r, l) ==
    /\ served' = [served EXCEPT ![r] = l]
    /\ round' = [round EXCEPT ![r].phase = "swapped"]
    /\ Miss(stream = r /\ l # served[r] /\ l = round[r].before)

SyncSwap(r) ==
    /\ InRound(r, "begun")
    /\ \/ Replace(r, stored) /\ UNCHANGED faults
       \/ Fault /\ \E l \in Lists : Replace(r, l)
    /\ UNCHANGED <<deployVars, writing, storeVars, streamVars, clientVars, fetchVars>>

\* SCAN fails, or a later prefix cannot be read.
SyncAborts(r) ==
    /\ Fault
    /\ InRound(r, "begun")
    /\ round' = [round EXCEPT ![r] = NoRound]
    /\ UNCHANGED <<deployVars, served, writing, storeVars, streamVars, clientVars,
                   fetchVars, missed>>

AnnouncesFlags(r) == round[r].before # served[r] /\ served[r] # NoFlags  \* faulty

Announces(r) == round[r].before # served[r]

SyncAnnounce(r) ==
    /\ InRound(r, "swapped")
    /\ IF Announces(r) THEN Announce(r) ELSE UNCHANGED queued
    /\ round' = [round EXCEPT ![r] = NoRound]
    /\ UNCHANGED <<deployVars, served, writing, storeVars, stream, clientVars, fetchVars,
                   missed, faults>>

-------------------------------------------------------------------------------
(***************************************************************************)
(* connectSSE.  The replica sends the current list first.                  *)
(***************************************************************************)
ConnectSilently(r) ==  \* faulty
    /\ "sse" \in started
    /\ r \in up
    /\ stream = None
    /\ pc["sse"] = "idle"
    /\ stream' = r
    /\ queued' = 0
    /\ UNCHANGED <<deployVars, serverVars, clientVars, fetchVars, missed, faults>>

Connect(r) ==
    /\ "sse" \in started
    /\ r \in up
    /\ stream = None
    /\ pc["sse"] = "idle"
    /\ stream' = r
    /\ queued' = 1
    /\ UNCHANGED <<deployVars, serverVars, clientVars, fetchVars, missed, faults>>

\* The connection ends; StartSSE connects again.
Disconnect ==
    /\ Fault
    /\ stream # None
    /\ stream' = None
    /\ queued' = 0
    /\ UNCHANGED <<deployVars, serverVars, clientVars, fetchVars, missed>>

(***************************************************************************)
(* The text an event leaves in lastConfig: its data without line end.  A   *)
(* body of GET /flags/all ends in a line feed and never equals one.        *)
(***************************************************************************)
SignalLikeBody(r) == [list |-> served[r], order |-> 1]  \* faulty

Signal(r) == EventText

Receive ==
    /\ queued > 0
    /\ pc["sse"] = "idle"
    /\ queued' = queued - 1
    /\ lastConfig' = Signal(stream)
    /\ pc' = [pc EXCEPT !["sse"] = "asking"]
    /\ UNCHANGED <<deployVars, serverVars, stream, flags, app, body, update, missed, faults>>

-------------------------------------------------------------------------------
(***************************************************************************)
(* fetchFlags begins: at every round of polling, or after an event.        *)
(***************************************************************************)
Fetching(g) ==
    /\ g \in started
    /\ pc[g] = IF g = "poll" THEN "idle" ELSE "asking"

(***************************************************************************)
(* Replica r writes its list and the client reads it.                      *)
(***************************************************************************)
Answer(g, r) ==
    /\ Fetching(g)
    /\ r \in up
    /\ \E t \in Bodies :
          /\ t.list = served[r]
          /\ body' = [body EXCEPT ![g] = t]
    /\ pc' = [pc EXCEPT ![g] = "answered"]
    /\ missed' = (/\ "poll" \notin started
                  /\ stream # None
                  /\ served[r] # served[stream])
    /\ UNCHANGED <<deployVars, serverVars, streamVars, clientVars, update, faults>>

(***************************************************************************)
(* The answer is an error page, whose status is not looked at, or there is *)
(* none.                                                                   *)
(***************************************************************************)
AnswerFails(g) ==
    /\ Fault
    /\ Fetching(g)
    /\ \/ /\ body' = [body EXCEPT ![g] = ErrorText]
          /\ pc' = [pc EXCEPT ![g] = "answered"]
       \/ /\ pc' = [pc EXCEPT ![g] = "idle"]
          /\ UNCHANGED body
    /\ Miss(TRUE)
    /\ UNCHANGED <<deployVars, serverVars, streamVars, clientVars, update>>

(***************************************************************************)
(* The critical section of fetchFlags.  A text that is no list leaves the  *)
(* list as it was.                                                         *)
(***************************************************************************)
Parsed(g) == IF body[g] \in Bodies THEN body[g].list ELSE flags

ApplyEarlyUpdate(g) ==  \* faulty
    /\ pc[g] = "answered"
    /\ IF body[g] # lastConfig
         THEN /\ lastConfig' = body[g]
              /\ flags' = Parsed(g)
              /\ update' = [update EXCEPT ![g] = flags]
              /\ pc' = [pc EXCEPT ![g] = "calling"]
         ELSE /\ pc' = [pc EXCEPT ![g] = "idle"]
              /\ UNCHANGED <<lastConfig, flags, update>>
    /\ body' = [body EXCEPT ![g] = NoText]
    /\ UNCHANGED <<deployVars, serverVars, streamVars, app, missed, faults>>

Apply(g) ==
    /\ pc[g] = "answered"
    /\ IF body[g] # lastConfig
         THEN /\ lastConfig' = body[g]
              /\ flags' = Parsed(g)
              /\ update' = [update EXCEPT ![g] = flags']
              /\ pc' = [pc EXCEPT ![g] = "calling"]
         ELSE /\ pc' = [pc EXCEPT ![g] = "idle"]
              /\ UNCHANGED <<lastConfig, flags, update>>
    /\ body' = [body EXCEPT ![g] = NoText]
    /\ UNCHANGED <<deployVars, serverVars, streamVars, app, missed, faults>>

\* The callback, outside the mutex.
Call(g) ==
    /\ pc[g] = "calling"
    /\ app' = update[g]
    /\ pc' = [pc EXCEPT ![g] = "idle"]
    /\ update' = [update EXCEPT ![g] = NoFlags]
    /\ UNCHANGED <<deployVars, serverVars, streamVars, lastConfig, flags, body, missed, faults>>

-------------------------------------------------------------------------------
Sync(r) ==
    \/ SyncBegin(r)
    \/ SyncSwap(r)
    \/ SyncAborts(r)
    \/ SyncAnnounce(r)

Fetch(g) ==
    \/ \E r \in Replicas : Answer(g, r)
    \/ Apply(g)
    \/ Call(g)

Next ==
    \/ \E r \in Replicas :
          \/ \E l \in Lists : Change(r, l)
          \/ Finish(r)
          \/ Sync(r)
          \/ Connect(r)
    \/ Configure
    \/ \E l \in Lists : Execute(l)
    \/ Disconnect
    \/ Receive
    \/ \E g \in Goroutines : Fetch(g) \/ AnswerFails(g)

Spec == Init /\ [][Next]_vars

(***************************************************************************)
(* Polls follow each other, StartSSE connects again and again and reads    *)
(* what it is sent, fetches are answered, handlers finish, and the tickers *)
(* of the replicas run.  Nothing says that a command ever arrives.         *)
(***************************************************************************)
FairSpec ==
    /\ Spec
    /\ \A r \in Replicas : WF_vars(Finish(r)) /\ WF_vars(Sync(r))
    /\ WF_vars(\E r \in Replicas : Connect(r))
    /\ WF_vars(Receive)
    /\ \A g \in Goroutines : WF_vars(Fetch(g))

-------------------------------------------------------------------------------
(***************************************************************************)
(* The type invariant.  Texts that are no flag lists never become the      *)
(* client's list.                                                          *)
(***************************************************************************)
TypeOK ==
    /\ up \subseteq Replicas
    /\ started \subseteq Goroutines
    /\ served \in [Replicas -> Lists]
    /\ writing \in [Replicas -> Nat]
    /\ round \in [Replicas -> Rounds]
    /\ stored \in Lists
    /\ commands \in Nat
    /\ left \in Nat
    /\ stream \in up \cup {None}
    /\ queued \in 0..Capacity
    /\ stream = None => queued = 0
    /\ lastConfig \in Texts
    /\ flags \in Lists
    /\ app \in Lists
    /\ pc \in [Goroutines -> {"idle", "asking", "answered", "calling"}]
    /\ body \in [Goroutines -> Texts]
    /\ update \in [Goroutines -> Lists]
    /\ missed \in BOOLEAN
    /\ faults \in 0..MaxFaults

(***************************************************************************)
(* fetchFlags skips a body that equals lastConfig, so a body remembered    *)
(* there must be the list the client has: an event's text must never pass  *)
(* for one, whichever goroutine wrote last.                                *)
(***************************************************************************)
SkippedIsKnown == lastConfig \in Bodies => flags = lastConfig.list

(***************************************************************************)
(* An application that started one goroutine is told of every list the     *)
(* client takes: no list stays in the client without a callback having     *)
(* brought it or being about to.  With both, a callback that runs outside  *)
(* the mutex can overtake another's, and the application keeps the older   *)
(* list for as long as the text does not change.                           *)
(***************************************************************************)
AppFollows ==
    \A g \in Goroutines :
        started = {g} =>
            IF pc[g] = "calling" THEN update[g] = flags ELSE app = flags

(***************************************************************************)
(* When its stream's replica is at rest (every event read, every handler   *)
(* and every round that changed the list past its announcement), a client  *)
(* that started the stream alone has that replica's list, also when events *)
(* were dropped, lists were written in between or the store brought an     *)
(* older list back.  It is behind only if                                  *)
(*   - its last fetch failed, or another replica with another list         *)
(*     answered it;                                                        *)
(*   - a handler emptied the environment and announced nothing; or         *)
(*   - a round put back, over a handler's change, the list it had begun    *)
(*     with: the change was announced, its end is not.                     *)
(***************************************************************************)
AtRest(r) ==
    /\ stream = r
    /\ queued = 0
    /\ pc["sse"] \in {"idle", "calling"}
    /\ writing[r] = 0
    /\ round[r].phase = "swapped" => round[r].before = served[r]

QuietIsCurrent ==
    \A r \in Replicas : started = {"sse"} /\ AtRest(r) /\ ~missed => flags = served[r]

(***************************************************************************)
(* The client ends up with the list that all replicas serve, and keeps it. *)
(* Polling repairs everything; an application that started the stream      *)
(* alone may stay behind for the reasons above, until the next event.      *)
(***************************************************************************)
Current == \A r \in up : flags = served[r]

Converges == <>[](Current \/ ("poll" \notin started /\ missed))
===============================================================================
