# A verification development for the feature-flag control plane

This directory models the Go control plane (`control-plane/`) and the two kinds of program
at the other end of its protocols, a service (`microservice-demo/`) and the Go SDK
(`sdk/`), in TLA+. TLC checks the models on
small instances; TLAPS proves the properties that matter most for every value of the
constants. `PROJECT.json` lists components, runs, mutants, the source lines each
definition stands for, findings, hazards and theorems.

## 1. The system

One control-plane process holds everything it decides with in memory, in package
variables guarded by one mutex per map (`main.go:20-37`). HTTP handlers run
concurrently, one goroutine per request. What operators configure is also written to a
key-value store (`configstore.go`): a JSON file, or Redis when `REDIS_ADDR` is set and
answers at start-up. Every two seconds a background goroutine reads the whole store and
replaces the maps (`loadFromStore`), which is how several replicas (`deploy/k8s.yaml`
runs two) hear of each other's changes. No lock is held across "change memory", "write
the store", "tell subscribers"; each is a separate step that others can come between.

| component | state | operations | interacts through |
|---|---|---|---|
| circuit breaker (`ratelimit.go`) | `State`, thresholds, window counters, `probeInFlight`, time of last transition | `Check`, `Observe` → `RecordSuccess`/`RecordFailure`, `SetState`, `GetState`, thresholds | check/report/set endpoints; a service checks, works, reports |
| configuration store (`configstore.go`) | `data` map and file, or Redis | `Set`, `Delete`, `Get`, `GetAllByPrefix`, load, save | called by every write handler and the synchronisation |
| flags, experiments, limits (`main.go`) | four maps | create/update/delete handlers, `persistJSON`, `loadFromStore` | store; stream; SDKs |
| flag stream (`main.go`) | `sseClients`: channels by environment | register, first payload, broadcast, leave | write handlers and the synchronisation send into channels |
| rate limiter (`ratelimit.go`) | token buckets by scope, configured limits | `Allow`, `resolveRateLimit` | limit endpoints; demo action |
| decisions (`featureflag.go`, `experiment.go`) | none of their own | `IsFlagEnabled`, `AssignVariant`, convert | evaluate, variant and convert endpoints; counted by the metrics |
| metrics (`metrics.go`) | counters and histograms by label values | `WithLabelValues`, `Inc`, `Observe`, `ServeMetrics` | handlers and `metricsMiddleware` count, `/metrics` reads |
| demo service (`microservice-demo/`) | bounded capture ring, pending captures | action, capture, replay | calls breaker and limiter endpoints, fails open |
| Go SDK (`sdk/sdk.go`) | list of flags, text last seen, callback | fetch, `StartPolling`, `StartSSE` | list endpoint and stream of any replica |
| tracing, authentication, pages | none | — | middlewares |

### Hard behaviours, and what correctness means

- **Circuit breaker.** A report can come from a caller admitted in an earlier state; it
  takes the mutex twice; the operator and the clock act in between; an admitted probe may
  never report. Correct: an open breaker is left by expiry or the operator only; a claimed
  probe never outlives the half-open state; the window never holds a failure ratio that
  should have tripped; no state refuses for ever while callers report.
- **File store.** Saves marshal under a lock but write without one, truncate before they
  write, and are cut off at any time. Correct: a restart finds a map that memory once held,
  or nothing, never a mixture; a save nobody overlapped is durable.
- **Replicas.** Memory changes before the store; a round of synchronisation is a SCAN and
  many GETs with writes in between; single commands fail; `POST /config` stores any text under any key.
  Correct: a round installs only flags that texts of the store defined during the round, and drops
  only what no text defined; replicas converge to what their store decodes to after the last fault.
- **Replicated breakers.** A breaker is replaced as an object while requests hold pointers
  to the old one; the unstored counters and probe flag restart; records are marshalled
  without the mutex. Correct: when nobody interferes the store and the replicas agree, and
  no stale, torn or lost record leaves a breaker that refuses for ever.
- **Rate limiter.** A check resolves its limit under one lock and applies it under another, so
  overlapping checks give a bucket an old and a new limit in turn; a bucket learns of the time
  passed and of a new limit only when a check arrives. Correct: the bucket behaves as one that fills steadily at
  the limit it follows; it never holds more than a second's worth; frequent checks lose no refill.
- **Capture and replay.** Requests are numbered before they enter the bounded list and overtake each
  other; a replay competes with new traffic for the service that records it. Correct: what
  the list drops is old; replays send the latest requests in the order of their arrival, and end.
- **Stream.** Payloads are computed and sent without a lock, dropped when a channel is
  full, and channels are closed while broadcasts run. Correct: no send on a closed channel;
  nobody is sent another environment's flags; a broadcast that met no other leaves every
  subscriber with the current flags.
- **SDK.** A polling and a streaming goroutine fetch the same list from replicas that are ahead of
  each other and may return to an older list, compare it as text, and call back outside the mutex.
  Correct: a text taken for known stands for the list the client has; a client that only streams has
  its replica's list when the replica is at rest, or the cause is one of the known ones; the client, and the
  application behind the callback, end up with the list that is served.
- **Decisions and their metrics.** Requests overlap between finding a counter's entry and counting in
  it; the page is written while they count. Correct: no count is lost; a page never shows a request
  without its outcome; a flag that is rolled out further is taken from nobody.

## 2. Modules

Each specification has one action per critical section or store command. A definition marked
`faulty` is a plausible bug in the definition after it, kept only so that the
properties can be seen to fail; no specification uses it. Variables called auxiliary
record history for a property and guard nothing.

| module | models | extends / instantiates |
|---|---|---|
| `Breaker` | the methods of `CircuitBreaker` as operators on a record | Integers |
| `CircuitBreaker` | one breaker object, callers, clock, operator | `Breaker` |
| `BreakerReplicas` | breaker objects of one route on several replicas, marshal, store, synchronisation, restart | `Breaker` |
| `ConfigStore` | the file mode of the store, save by save | — |
| `DurableMap` | what the file mode promises: a map, and the map a restart would bring back | — |
| `FlagReplicas` | write handlers and `loadFromStore` on replicas over a shared store or their own files | Integers |
| `RateLimiter` | the token buckets and configured limits of one route, check by check | Integers |
| `SteadyBucket` | what a bucket promises: it fills steadily, without timestamps, locks or pending checks | Integers |
| `DemoService` | capture, replay and `actionHandler` of the demo service | `CircuitBreaker`, SequencesExt |
| `FlagStream` | subscribers, handlers and the synchronisation of one replica | Sequences |
| `FlagClient` | the Go SDK's list of flags, its two goroutines, the replicas they ask | Integers |
| `FlagEvaluation` | `IsFlagEnabled` and `AssignVariant` as operators | Integers, Sequences |
| `Metrics` | entries of a `sync.Map`, counters and histograms as operators | Integers, Sequences |
| `Serving` | the decision and settings endpoints of one process behind its middlewares, and `/metrics` | `FlagEvaluation`, `Metrics`, FiniteSetsExt, Functions |
| `DemoServiceProofs` (with the theorems about `CircuitBreaker`), `ConfigStoreProofs`, `FlagReplicasProofs`, `RateLimiterProofs`, `FlagStreamProofs`, `BreakerReplicasProofs`, `FlagClientProofs`, `ServingProofs` | theorems | the module named, and TLAPS |
| `MC*` | constants for TLC | the module named |

### How state and actions correspond to the code

**`Breaker` / `CircuitBreaker`.** The record has the fields of the Go struct. The
percentage `ErrorThreshold` replaces the float, so `failures/total >= threshold` becomes
`failures * 100 >= threshold * total`. The time of the last transition is kept as its age,
which stops growing at `OpenDuration`, the only value the code compares it with.
`CheckHandler` is the check endpoint; `Observe` is the first critical section of
`Observe` (the verdict against the latency limit) and `ReportSuccess`/`ReportFailure` the
second; `Abandon` is a caller whom the rate limiter refused or whose report was lost
(`microservice-demo/main.go:557`); `CheckFailsOpen` is a caller whose check had no answer
(`microservice-demo/main.go:650-673`) and goes ahead. `ForceState` and `SetThresholds` are
the two critical sections of `setCircuitBreakerHandler`. `ForcedStates` is any set of
strings: the endpoint accepts every label.

**`ConfigStore` / `DurableMap`.** `Store` is the locked part of `Set` and `Delete`;
`Marshal`, `Truncate`, `WriteOut` are the three parts of `saveToFile`; `SaveFails` is an
error of `os.WriteFile` before or after truncation; `Restart` stops the process anywhere,
an orderly shutdown included, since `main` does not wait for handlers. The refinement
maps the durable map to what loading the file would give and the pending snapshots to
those of the writers past `Marshal`.

**`FlagReplicas`.** `Change` (under `flagsMu`), `Persist`/`PersistFails` (`persistJSON` or
`store.Delete`, whose error is logged), `Respond`. `SyncScan`, `SyncGet`, `SyncGetFails`
(the `continue` in `GetAllByPrefix`), `SyncAborts` (the early returns of `loadFromStore`) and
`SyncSwap` are one round. `backing` is the store chosen by `NewConfigStore`. A failed command
was executed, was lost, or is still on its way (`late`): `ExecuteLate` executes it at any later time, after other
commands of the same key. A store holds texts by key: `Flag(n, v)`, the JSON a handler stores under `n`, or `Garbage`,
which `json.Unmarshal` rejects. `Configure` is `POST /config`, which writes any text in `Posted` under any flag's key and
changes no map. `Decoded` is the loop of `main.go:188-193`: the maps that a set of texts may become, without what
does not decode, and with the names in the texts, not the keys; where two texts name one flag, the order of a Go map
chooses. Experiments go the same way as flags and are represented by them; rate limits, whose names are their keys,
are `RateLimiter`'s. `window` (auxiliary) collects the texts each key had during a round.

**`BreakerReplicas`.** `objs` holds breaker objects: one per replica's map, and orphans that
requests still point to after the synchronisation replaced them (an orphan is
given the name of a request; there are never more orphans than requests). A
request arrives (`ensureCircuitBreaker`), updates its object under the mutex, marshals it
in two reads without the mutex (`MarshalState`, `Marshal`: label and time may each come from either moment, and
a label that changes under the read may come out as neither, `"torn"`), and stores it. `SyncRead`…`SyncSwap` is the
round; `Restored` is `restoreRuntimeState`, which keeps label and transition time only.

**`FlagStream`.** A handler's `Change`, `Persist`, `Compute` (`flagPayloadsByEnv`), one
`Send` per topic in any order (Go map iteration), `Done`. The synchronisation is
`SyncBefore`, `SyncRead`, `SyncSwap`, `SyncCompute`, the same `Send`s. A connection is
`Register`, `SendCurrent`, `Receive`, `Leave` (off the list) and `Close` (the channel).
`RemoteWrite` is another replica's write to the shared store. `Wrapped` says whether the
response writer went through `metricsMiddleware`.

**`RateLimiter` / `SteadyBucket`.** A check is `Resolve` (under `rlMu`), `Find` (under `bucketsMu`)
and `Take` (under the bucket's mutex). `SetLimit` is the operator's endpoint, `Synchronise` a
round of `loadFromStore`, which may bring any limits: other replicas store some, failed GETs leave some out. A token is
`PerSecond` units, so that a tick adds `limit` units and floating point becomes exact;
`lastRefill` is kept as an age, which stops counting at one second because that fills any
bucket. `Scopes` are the (user, tenant) pairs limits are configured for, `("", "")` the route's. The refinement
maps a bucket to the tokens it would have if it were refilled now.

**`DemoService`.** A request gets its number (`Arrive`), enters the list (`Capture`) and runs
`actionHandler` (`ServeAction`), whose steps are the actions of `CircuitBreaker`: the module extends that one,
and the breaker's `Callers` are the handlers. When the caller's part there is over, so is the handler. `StartReplay` selects, `Send` and
`SendWithoutEffect` go through the selection, `Timeout` gives up waiting without stopping the handler.

**`FlagClient`.** `Fetching` is the moment a goroutine calls `fetchFlags`: a round of `StartPolling`, or an event
(`Receive`, whose text `Signal` leaves in `lastConfig`). `Answer` is a replica's body, in any order of the list since
`getAllFlagsHandler` ranges over a map; `AnswerFails` an error page or none. `Apply` is the critical section of
`fetchFlags`, `Call` the callback after it. `Connect` and `Disconnect` are the loop of `StartSSE`. On the
other side a handler's `Change` alters a replica's list and sends a command, `Finish` announces what the replica has
by then; `Execute` is the command's arrival at the store, at any time or never; `Configure` sends a command and changes
no list. A round of `loadFromStore` is `SyncBegin` (which takes the list of `main.go:164`), `SyncSwap` and `SyncAnnounce`,
which compares and is silent if the list is the one from the beginning; `SyncAborts` leaves early. `missed` (auxiliary)
says that something happened of which the stream will not tell; `QuietIsCurrent` lists the cases.

**`FlagEvaluation` / `Metrics` / `Serving`.** `hashString` appears through what depends on it: a user's `Bucket` and
`VariantHash`, any functions. A `Request` is what a handler does under the one lock it takes (`Evaluate`,
`GetVariant`, `RecordConversion`, `CreateFlag`, …) together with the list of series it will count, those of
`metricsMiddleware` last. Each count is `WithLabelValues` and then `Count`. `ReadMetric` writes one metric
of the page, `ServePage` ends it. `Refuse` is every early return with an error: undecodable bodies, missing parameters, missing
tokens. `late` (auxiliary) counts the failed requests whose error was not on the books when the page was begun.

## 3. Runs

| run | instance | states | shows |
|---|---|---|---|
| `breaker_safety` | 3 callers, open period 2, window 5, 4 forced labels, second thresholds | 26 244 (symmetry) | probe flag, failure ratio, account of probes, open state |
| `breaker_two_probes` | 4 callers, default thresholds | violation | a second probe is let in |
| `store_safety` | 2 writers, 2 keys, failures and restarts | 13 613 | what a restart can find; refinement of `DurableMap` |
| `store_overlap` | 2 writers, no failure | violation | an acknowledged write missing from the file |
| `replicas_sync` | 2 replicas, 2 handlers, 2 flags, 2 writes, 2 faults, late commands, `/config` with garbage and a misnamed flag, fallback allowed | 419 005 | window of a round; one quiet round repairs; a repaired system stays so; convergence |
| `stream_safety` | 2 handlers, 1 subscriber, 2 environments, channel of 2, 2 writes | 2.5 million | closed channels, isolation, current views |
| `stream_wired` | handler behind `metricsMiddleware` | violation | every client refused |
| `client` | 1 or 2 replicas, polling, streaming or both, channel of 2, up to 2 writes, 1 fault | 384 031 | known texts, callbacks, the list of a client that only streams; the client becomes current |
| `limiter` | 1 client, 2 overlapping checks, limits 0, 1 and 2 for 2 scopes, 3 ticks a second | 15 192 | a type invariant with the cap; refinement of `SteadyBucket`; admission goes on |
| `demo_service` | 2 handlers, 1 replay, a list of 2, 3 captures, 1 fault | 136 694 | what the list loses, what replays send, that they end; liveness of the breaker under its callers |
| `breaker_replicas` | 2 replicas and a caller who may also be the operator, or 1 replica, a caller and an operator, 1 fault each; or 1 replica, a caller and 2 faults | 453 285 | agreement; well-formed objects; every replica keeps admitting |
| `serving` | 2 clients, 2 requests, 2 users, 2 flags, 1 experiment | 2.4 million (symmetry) | no lost count; pages that add up; cumulative histograms; rollouts |

### Bounds, and why they are enough

- *Callers.* Three callers are the fewest with a stray reporter, a probe and a second
  admitted caller at once; the two-probe violation needs a fourth to fail the trip with.
- *`MaxWindow`* bounds counted outcomes. Five leaves room for ratios on both sides of the
  default threshold 50 and the operator's 60. In `BreakerReplicas` it is 0: successes in a closed window are not counted, so one failure always trips. That is
  the case with the most transitions; the counting itself is `CircuitBreaker`'s subject.
- *`OpenDuration`* 2 distinguishes "open", "open and getting older" and "over"; 1 suffices
  where only open or over matter (`BreakerReplicas`).
- *`MaxFaults`, `MaxWrites`* bound failed commands, restarts, failed work, overrides and
  writes. Liveness is about what happens after the last of them. Two writes
  from two handlers are what it takes to overtake; the second fault in `replicas_sync` lets a late command
  meet another failure, such as the round that would have read it. In `breaker_replicas` the failed work that trips
  a breaker and the probe that is abandoned are a fault each, which the third deployment allows both.
- *Capacity* 2 in place of 16: an empty, a partly filled and a full channel all occur.
- *Keys, names, environments*: two, so that a save, a round or a payload can be
  right about one and wrong about the other. `stream_safety` has one flag, which changes in place,
  moves between environments and is deleted, and one subscriber per connection kind;
  subscribers do not influence one another.
- *Limits* 0, 1 and 2 with `PerSecond` 3: a limit that admits nothing, raises and cuts, and checks
  more frequent than tokens. Clients share no bucket, so one is enough; of its two scopes one is its own and one its route's.
- *A list of 2 and `MaxSeq` 3*: two requests overtake each other and one is dropped. `MaxLoad` bounds
  the outcomes a closed breaker counts; requests stop while it is reached and resume after a trip.
- *Texts.* `/config` posts garbage, and a flag named `n1` with the definition that no handler sends, under either key: a key
  whose text does not decode, a flag under another's key, and two definitions of one name.
- *SDK.* Two lists, the empty one and another; since a command may leave the store with either, one write suffices for the
  replicas' lists to go back and forth. Two writes, the events of rounds and the first payload fill a channel of two
  and drop an event. `Setups` gives fewer writes to the deployments with more processes. Two list orders are
  one more than a client that compares text expects; one failed fetch, broken stream, wrong reading
  or abandoned round is what the rest has to make good.
- *Serving.* Two requests are the fewest that overlap in one entry; users in the first and the last bucket and
  rollouts of 1 and 100 are the edges of the comparison; a duration between two bounds tells the buckets apart.
- Symmetry (callers, handlers, clients) is used in runs without liveness properties only.
- Deadlock is checked in every run but `client`, where a client that only streams rests when it has read everything.

### Fairness

`DemoService!FairSpec` assumes that time passes, that actions keep arriving and that handlers run to
their end: `actionHandler` reports on both of its remaining paths once the limiter let it
through. (Its calls use `http.DefaultClient`, which has no timeout, so a control plane that never answers is
outside this assumption.) A replay's next request finds a free handler in the end, and its client gives
up after five seconds. Lost answers and refused actions are bounded by `MaxFaults`, and
`ProbeEventuallyReleased` excepts them. `RateLimiter!FairSpec` assumes that time passes, that the client
keeps asking and that checks run to their end. `FlagReplicas!FairSpec` assumes that handlers run to their end and that the
ticker of `startStoreSync` keeps starting rounds whose commands all return within their
deadlines. `BreakerReplicas!FairSpec` assumes the same, and strong fairness of
`ArriveCheck` per replica: a replica that is asked again and again although the one
caller of the instance is sometimes busy elsewhere. `FlagClient!FairSpec` assumes that polls follow each other, that `StartSSE`
reconnects and reads, that fetches are answered (again by a client without a timeout), that handlers finish and that the
replicas' rounds go on; not that any command arrives at the store.
Nothing assumes that a command or a fetch succeeds; the number of failures is bounded instead.

## 4. Properties that hold, and where the code stops short

Each violated run checks a sentence of the documentation against the code.

- `SingleProbe` (`docs/api.md:290`). A failure or success reported by a caller admitted
  before the trip clears `probeInFlight` for somebody else's probe. What holds instead is
  `ProbesAccounted`: the probes in flight never outnumber the flag plus those reports.
- `IdleMeansSaved` (`configstore.go:20-22`). Overlapping saves can write the older snapshot
  last. What holds is `FileHoldsPastMap` and `LoneSaveIsCurrent`. A stop between truncation and write
  leaves an unreadable file, and the next start begins empty: `DurableMap!Open` is in the
  abstract specification because of that.
- `NobodyRefused` (`docs/api.md:148`). `statusRecorder` embeds `http.ResponseWriter` and
  does not implement `http.Flusher`, and every request passes through it, so
  `flagsSSEHandler` answers 500. The other stream properties are about the handler called with
  a writer that can flush, as its authors intended.

Observations met on the way that no run states:

- *Store and replicas.* A store error is logged and the write answered with 200 (`docs/api.md:6` has 500 for internal
  errors), and the next round undoes it in memory. A replica that fell back to its file agrees with nobody until it is
  restarted (`Converges` is relative to each replica's own store). `POST /config` accepts for a flag's key a text that is
  no flag, and answers 200: the next round takes the flag away. It also accepts a flag of another name: the key's own flag
  disappears, and when both keys then name one flag, every round of every replica takes either definition, for ever. Demo data seeded at start-up overwrite settings of the same
  name.
- *Breakers.* A round between a trip and its store restores the closed breaker on that replica, so that requests pass an
  open circuit (`docs/api.md:344`); the trip comes back with the next round only if no check of any replica stored its
  closed breaker in between. Rounds reset window counters and the probe flag every two seconds even when nothing changed,
  which also heals a probe that never reported. `KeepsLettingThrough` says that callers are let through again and again,
  not that every breaker becomes closed again and again, which fails when rounds keep falling between an update and its store.
- *Stream.* A subscriber to `all` is sent each environment's list as well as the full one, in any order. An environment
  emptied by a handler is announced by nobody until the next change. Two overlapping broadcasts can leave subscribers with
  the older list. `/flags/all?env=all` answers with the empty list, where the stream's `all` is everything.
- *Limits.* Buckets are neither stored nor shared, so N replicas admit N times the limit, and a limit configured for a route
  holds for each client of it separately.
- *Demo service.* `GET /demo/traffic/captured` returns the list in its own order, not that of the numbers.
- *SDK.* A poll interval of 0, said to disable polling (`sdk/sdk.go:33-36`), makes `StartPolling` fetch without a pause. The
  order of a Go map reaches the text that is compared, so callbacks fire for lists that have not changed. With both
  goroutines a callback can overtake another's and leave the application with the older list until the text changes
  (`AppFollows` is about one). A client that only streams stays as it is when its fetch fails or is answered by a replica
  that is behind, until the next event; and as the program is wired its stream is always refused. Even one goroutine in
  front of one replica can go back to an older list: a round that read the store before a write's command, or whose write's
  command failed, puts it back, and the client follows. If the write fell into that round the list ends as it began,
  nothing is announced, and a client that only streams keeps the list that was undone.
  `GetCircuitBreakerState` decodes numbers into strings and always answers `closed`; error bodies decode into a check that
  is not allowed, against the helpers' intent to fail open.
- *Decisions.* Removing a flag's last rule turns it on for everybody. An assignment of variants is stable only as long as
  the list of variants is. A conversion is counted for whichever variant the client names, and a page can show more
  conversions than exposures, which are read first. Metrics are labelled with raw paths, one entry for each path ever asked
  for. Where `int` has 32 bits a hash may be negative and with it the index of a variant.

## 5. Proofs

All theorems are for arbitrary constants that satisfy the named assumptions
(`BreakerAssumption`, `CircuitBreakerAssumption`, `BreakerReplicasAssumption`, `ConfigStoreAssumption`,
`FlagReplicasAssumption`, `FlagStreamAssumption`, `FlagClientAssumption`, `RateLimiterAssumption`,
`FlagEvaluationAssumption`, `MetricsAssumption`, `ServingAssumption`, `DemoServiceAssumption`), which TLC evaluates in the runs.

**`DemoServiceProofs`, the breaker.** `TypeCorrect` first. The inductive invariant `IInv` adds to the three
safety invariants what they lean on: a probe in flight exists in a half-open period only, and
strays are counted in such a period only. `ProbesAccounted` is not
inductive alone, because a step out of the half-open state must empty both sides of its inequality.
The ratio invariant is carried by two arithmetic lemmas (a success added to a bounded window, and
a failure that does not trip), and the threshold in force may change afterwards, hence the
existential in `FailureRatioBounded`. `OpenHolds` follows from type correctness, step by step.

**`DemoServiceProofs`, the demo service.** `GuardedByBreaker` shows that a behaviour of the demo service is one of
`CircuitBreaker` in the breaker it consults, so that the theorems above hold there, with replays and lost answers.
`LostSafe` needs an invariant that follows numbers through the gap between the counter and the list. `Overtook(n, i)` is
what the request with number `n` at position `i` left behind: the smaller numbers that are still on their way, or entered the
list after it. `FewBehind` says that there are never more of them than other handlers, for every request in the list and,
with a full list, for every lost one. `Capture` keeps these sets as they are (the captured number was on its way and is
now in the list), the new request's are numbers other handlers hold, and the dropped head's become those of a lost number;
a new number is above all others. A full list then holds all but so many numbers above a lost one. `NumberedOnce` (a number is in the list or on its
way, once) makes the counting right. `ReplaysSafe` rests on lemmas about the selection: a finite set of requests with
different numbers has an increasing sequence (`InOrderExists`, by the rank of each request), it holds all of them
(`InOrderIs`), and its end holds the latest (`LatestIs`).

**`ConfigStoreProofs`.** `PastInv` says that the file *and* every snapshot still to be written are
maps memory held in this process. `LoneInv` says that the lone writer's snapshot is the
current map as long as it is alone. `Refinement` shows that every step of the file store is a
step of `DurableMap` or a stutter; the mapping takes `pending` to a set, so two writers
with equal snapshots are the case that needs care.

**`FlagReplicasProofs`.** `IInv` says of every round under way: the text read under a key is in the key's
window, a key still to be read is absent from what has been read, and the
store's present text is in the window. `Execute` keeps it because it adds the written text to the window of every
round over that store. It also needs that a request past its first step has a replica
and a key, and that a replica uses the shared store or its own file, never another's. `DecodedFlags` says what decoding
makes of texts: a flag in the map is in some text, and a flag left out is in none. From these follow
`SyncReadsWindow`, `QuietRoundRepairs` (windows that kept one text have the store's present one, so what was read is
what the store holds) and `SettledStays` (in a settled system the only possible steps are those of quiet rounds, which
install some decoding of the same texts). The last two are the safety half of
`Converges`; that quiet rounds do happen is its other half and stays with TLC.

**`RateLimiterProofs`.** `TypeCorrect` includes that no bucket holds more than its capacity, from
`RefilledBounds`. `Refinement` rests on three lemmas: a tick raises the level by the limit, also when the age has stopped counting
(`LevelAged`, where the cap of `TypeCorrect` is needed); refilling late at the bucket's own limit is
the same as refilling eagerly, whichever limit the check brings (`RefilledIsAdopted`); a fresh bucket's
level is its tokens. `Find` maps to `Fill` or a stutter, `Take` to `Spend`, everything but `Tick` to a stutter.

**`BreakerReplicasProofs`.** Type correctness needs to know who points where (`PointersOK`): a request
that is served has an object up to its marshal, requests that share one are served by the same replica, and a pointer to a
replica's object is its server's. That an orphan always finds a free name is a pigeonhole argument (`SpareExists`), which
is why requests must be finitely many. `ReplicasAgree` adds two parts: while a round is clean or a
replica in step, nobody is served (`QuietOK`), so that only time changes store and objects, both alike; and what a lone
request has marshalled is its replica's object (`LoneOK`), which no round replaces because a round that starts ends the
loneliness.

**`FlagStreamProofs`.** `IInv` says of every payload, wherever it is on its way (unsent, queued, received), that it
fits the topic it was computed for, and that listed connections are registered or streaming; isolation and open channels
follow. `SettledStreamIsCurrent` needs `SInv`, which follows a broadcaster for as long as it is alone: nobody else is
active (`AloneOK`); what it has sent is the last thing its subscribers will show (`Shown`, which looks at the end of the
channel, or at the view when it is empty) and what it has yet to send is what the map holds (`Sent`); and the
synchronisation, between the swap and its payloads, finds its subscribers at the old payload or already at the new one.
What it does not send has not changed (`ChangedHeld`). Registrations, receptions and departures in between do
not disturb this (`ConnectionShows`); a full channel marks its connection as dropped (`SendShows`).

**`FlagClientProofs`.** `SkippedKnown` needs only that texts of lists enter `lastConfig` together with their list.
`AppTold` needs that the goroutine which was not started stays idle. `QuietCurrent` rests on `StreamInv`: for a client that
streams alone and missed nothing, either something that will make it fetch is still to come (an event in the stream, a
fetch that has not been answered, a handler that will announce, a round that left another list than it began with), or the answer it holds, or else
its list, is what the stream's replica serves. A step of the replica that changes the list keeps it because it
leaves one of those behind or is one of the cases `missed` records (`ServerStepStream`); an event dropped
from a full stream because the stream then holds others; a fetch because it reads the list, from the stream's replica or missed.

**`ServingProofs`.** Type correctness is that a loaded entry stays in the registry, of the kind of its series. `HistogramsSafe`
follows from two facts: an observation keeps a histogram cumulative (whatever the bounds, which are ordered), and a
page copies entries. `RolloutsSafe` is a statement about `IsFlagEnabled` alone: rules that cover match whoever
they covered matched.

`BooksSafe` and `PageSafe` are about sums over a registry of any size, `SumFunctionOnSet` of a library. The proof begins
with an induction over the subsets of a finite set, stated for a set of subsets instead of a predicate (`SubsetInduction`),
from which the sum's equations follow: nothing for the empty set, one summand more for one element more, and so on to what one
increment does to a sum. The invariant `Books` weighs the registry against the requests in progress, which the shapes of
their lists `todo` tell apart: requests served are those counted and those still to be counted (`Entering`), requests counted have
a duration or one to come (`Timing`), and what came of a judged request is counted before it (`Ahead`) or, a failure, after it
(`Behind`). With no request in progress that is `BooksBalance`. `PageCovered` says the same of a page under way: it shows the
metrics written so far, and what came of the requests on it is on the page too or, not written yet, in the registry, whose counts
only grow.

What is left to TLC: all liveness (there are no rules for fairness and `ENABLED` here). Every invariant and every action
property of the passing runs, and both refinements, are proved.

## 6. Abstractions and what is not modelled

- Flag definitions, keys and payloads are model values or small records; of JSON only whether a text decodes and which
  flag it names is modelled, in `FlagReplicas`, and RESP is not. SCAN is one step: a key set during its iteration counts
  as set before or after it. An environment is one of a set; a flag with an empty environment or one named
  "all" is left out.
- In `BreakerReplicas` thresholds keep their defaults and `Observe`'s verdict is the report's own;
  the load at start-up is one step; a restart aborts the requests of its replica; a command that timed out is executed
  at once or never (`FlagReplicas` has late ones).
- In `FlagReplicas` a fallen-back replica's file is its last map or nothing; `ConfigStore`
  has the older snapshots too.
- In `FlagStream` a round reads all flags in one step (`FlagReplicas` reads them one
  by one) and one connection uses a subscriber once.
- In `RateLimiter` limits are not negative, the rounding of floating point is left out, and one route is modelled: routes share nothing.
- In `DemoService` the limiter's refusal is a choice, requests other than actions have no effect, and bodies, headers and counts are left out.
- In `FlagClient` a replica's list is one of a set, what a stream is sent is a number of waiting events
  (`FlagStream` has their contents), a round reads the store and replaces the list in one step (what it may read that the
  store no longer holds, `SyncReadsWindow`'s subject, is a fault there), and compares and sends in one step, so that
  broadcasts do not overlap; replicas do not restart. The helpers that send one request each
  keep no state; the Python and JavaScript clients, which take the event's data as the list, are left out.
- In `Serving` paths are grouped by what they ask for, one flag and one experiment are modelled, bodies are decoded or not, a
  histogram's sums are integers, and neither the counter of throttled requests nor the gauge of breaker states is
  counted. Which methods and paths need the token (`requestRequiresAuth`) is a table; that a request may be refused is not.
- Tracing, landing pages, health endpoints, deployment manifests: pure input and output.

## 7. Plan

1. *Done*: `Breaker`, `CircuitBreaker`, `ConfigStore`/`DurableMap`, `FlagReplicas` with late commands and `/config`,
   `FlagStream`, `BreakerReplicas`, `RateLimiter`/`SteadyBucket`, `DemoService`, `FlagClient`, `FlagEvaluation`, `Metrics`,
   `Serving`; the proofs above, which leave no safety property of a passing run unproved.
2. Texts that do not decode, and names other than their keys, for breakers.
3. `FlagClient` composed with `FlagStream`, so that the events a client is woken by are the payloads a replica sent.
4. Late commands for breakers, whose records are stored by checks as well as by operators.
5. Authentication as a table of methods and paths; the gauge of breaker states, which is current only as of the last round.
