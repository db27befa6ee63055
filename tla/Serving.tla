------------------------------ MODULE Serving ------------------------------
(***************************************************************************)
(* One control-plane process that serves decisions and counts them: the    *)
(* flag and experiment endpoints behind metricsMiddleware and              *)
(* authMiddleware, and GET /metrics.                                       *)
(*                                                                         *)
(* Handlers read or replace a map's entry under its lock and count what    *)
(* they did afterwards; the middleware then counts the request, its        *)
(* duration and its failure, in this order.  Each count takes two steps:   *)
(* WithLabelValues finds or creates the entry, Inc or Observe changes it.  *)
(* The page of /metrics is written one metric after another while requests *)
(* go on.  One flag and one experiment are modelled.  Storing and          *)
(* announcing changes are the subject of FlagReplicas and FlagStream; here *)
(* the synchronisation may put any flag and experiment in place.           *)
(*                                                                         *)
(* served and late are auxiliary.  A definition marked "faulty" is a       *)
(* plausible bug in the one after it and is not used.                      *)
(***************************************************************************)
EXTENDS FlagEvaluation, Metrics, FiniteSetsExt, Functions

CONSTANTS
    Clients,
    None,              \* no flag, no experiment
    OfferedFlags,      \* flags that are written
    OfferedContexts,   \* contexts flags are evaluated in
    Experiments,       \* lists of variants
    Durations,         \* of requests
    MaxRequests        \* bound on requests

ASSUME ServingAssumption ==
    /\ IsFiniteSet(Clients)
    /\ OfferedFlags \subseteq Flags /\ None \notin OfferedFlags
    /\ OfferedContexts \subseteq Contexts
    /\ Experiments \subseteq Seq(Variants) /\ None \notin Experiments
    /\ Durations \subseteq Nat
    /\ MaxRequests \in Nat

(***************************************************************************)
(* Requests are labelled with their path: here by what they ask for, which *)
(* for all that create, read, change or delete is "settings".              *)
(***************************************************************************)
Routes == {"evaluate", "variant", "convert", "settings"}

(* routes whose every request has an outcome or fails                      *)
Judged == {"evaluate", "convert"}

(***************************************************************************)
(* The series that are counted, a metric and its label, and the order in   *)
(* which the metrics registered themselves and are written.                *)
(***************************************************************************)
Counters == ({"requests", "errors"} \X Routes)
       \cup ({"exposures", "conversions"} \X Variants)
       \cup ({"evaluations"} \X {"on", "off", "created"})

Timers == {"latency"} \X Routes

Series == Counters \cup Timers

allMetrics == <<"requests", "errors", "latency", "exposures", "conversions",
                "evaluations">>

VARIABLES
    flag,        \* the flag f, or None
    experiment,  \* the variants of the experiment e, or None
    todo,        \* what each client's request has still to count
    loaded,      \* whether it holds the entry of the first of them
    registry,    \* the entries
    reading,     \* how many metrics the page shows
    page,        \* its entries
    late,        \* failures not counted when the page's requests were read
    served       \* requests so far

vars == <<flag, experiment, todo, loaded, registry, reading, page, late, served>>

Init ==
    /\ flag \in OfferedFlags \cup {None}
    /\ experiment \in Experiments \cup {None}
    /\ todo = [c \in Clients |-> <<>>]
    /\ loaded = [c \in Clients |-> FALSE]
    /\ registry = [s \in {} |-> 0]
    /\ reading = 0
    /\ page = [s \in {} |-> 0]
    /\ late = [r \in Judged |-> 0]
    /\ served = 0

-------------------------------------------------------------------------------
RequestFirst(c, route, counts, failed) ==  \* faulty
    /\ todo[c] = <<>> /\ served < MaxRequests
    /\ served' = served + 1
    /\ todo' = [todo EXCEPT ![c] =
                   <<<<"requests", route>>>> \o counts \o <<<<"latency", route>>>>
                   \o (IF failed THEN <<<<"errors", route>>>> ELSE <<>>)]
    /\ UNCHANGED <<loaded, registry, reading, page, late>>

(***************************************************************************)
(* A request of client c: what the handler did, in one step with the only  *)
(* lock it takes, is still to be counted, and then the request itself.     *)
(***************************************************************************)
Request(c, route, counts, failed) ==
    /\ todo[c] = <<>> /\ served < MaxRequests
    /\ served' = served + 1
    /\ todo' = [todo EXCEPT ![c] =
                   counts \o <<<<"requests", route>>, <<"latency", route>>>>
                   \o (IF failed THEN <<<<"errors", route>>>> ELSE <<>>)]
    /\ UNCHANGED <<loaded, registry, reading, page, late>>

Maps == <<flag, experiment>>

Evaluate(c, ctx) ==
    /\ LET result == IF IsFlagEnabled(flag, ctx) THEN "on" ELSE "off"
       IN IF flag = None
          THEN Request(c, "evaluate", <<>>, TRUE)
          ELSE Request(c, "evaluate", <<<<"evaluations", result>>>>, FALSE)
    /\ UNCHANGED Maps

(* an experiment without variants answers with an empty name               *)
GetVariant(c, user) ==
    /\ IF user = Anonymous \/ experiment = None
       THEN Request(c, "variant", <<>>, TRUE)
       ELSE Request(c, "variant",
                IF experiment = <<>> THEN <<>>
                ELSE <<<<"exposures", AssignVariant(experiment, user)>>>>, FALSE)
    /\ UNCHANGED Maps

(* the variant is the client's word, whether the experiment has it or not  *)
RecordConversion(c, variant) ==
    /\ IF experiment = None
       THEN Request(c, "convert", <<>>, TRUE)
       ELSE Request(c, "convert", <<<<"conversions", variant>>>>, FALSE)
    /\ UNCHANGED Maps

CreateFlag(c, f) ==
    /\ flag' = f
    /\ Request(c, "settings", <<<<"evaluations", "created">>>>, FALSE)
    /\ UNCHANGED experiment

UpdateFlag(c, f) ==
    /\ flag' = f
    /\ Request(c, "settings", <<>>, FALSE)
    /\ UNCHANGED experiment

(* a flag that is not there is deleted all the same                        *)
DeleteFlag(c) ==
    /\ flag' = None
    /\ Request(c, "settings", <<>>, FALSE)
    /\ UNCHANGED experiment

GetFlag(c) ==
    /\ Request(c, "settings", <<>>, flag = None)
    /\ UNCHANGED Maps

CreateExperiment(c, e) ==
    /\ experiment' = e
    /\ Request(c, "settings", <<>>, FALSE)
    /\ UNCHANGED flag

(***************************************************************************)
(* A body that cannot be decoded, a missing parameter, or a request that   *)
(* lacks the token a route requires.                                       *)
(***************************************************************************)
Refuse(c, route) ==
    /\ Request(c, route, <<>>, TRUE)
    /\ UNCHANGED Maps

-------------------------------------------------------------------------------
(***************************************************************************)
(* WithLabelValues: the request has the entry, which it may have created.  *)
(***************************************************************************)
WithLabelValues(c) ==
    /\ todo[c] # <<>> /\ ~ loaded[c]
    /\ loaded' = [loaded EXCEPT ![c] = TRUE]
    /\ registry' = LoadOrStore(registry, Head(todo[c]),
                       IF Head(todo[c]) \in Timers THEN NewHistogram ELSE 0)
    /\ UNCHANGED <<flag, experiment, todo, reading, page, late, served>>

(***************************************************************************)
(* labelCounter.Inc or labelHistogram.Observe.                             *)
(***************************************************************************)
Count(c) ==
    /\ loaded[c]
    /\ loaded' = [loaded EXCEPT ![c] = FALSE]
    /\ todo' = [todo EXCEPT ![c] = Tail(@)]
    /\ IF Head(todo[c]) \in Timers
       THEN \E duration \in Durations :
                registry' = [registry EXCEPT ![Head(todo[c])] = Observe(@, duration)]
       ELSE registry' = [registry EXCEPT ![Head(todo[c])] = @ + 1]
    /\ UNCHANGED <<flag, experiment, reading, page, late, served>>

(***************************************************************************)
(* loadFromStore replaces the flags and then the experiments.              *)
(***************************************************************************)
SynchroniseFlags(f) ==
    /\ flag' = f
    /\ UNCHANGED <<experiment, todo, loaded, registry, reading, page, late, served>>

SynchroniseExperiments(e) ==
    /\ experiment' = e
    /\ UNCHANGED <<flag, todo, loaded, registry, reading, page, late, served>>

(***************************************************************************)
(* ServeMetrics writes one metric after another, each under no lock but    *)
(* its entries'.                                                           *)
(***************************************************************************)
Failing(c, route) == \E i \in 1 .. Len(todo[c]) : todo[c][i] = <<"errors", route>>

ReadMetric ==
    /\ reading < Len(allMetrics)
    /\ reading' = reading + 1
    /\ page' = [s \in DOMAIN page \cup
                      {t \in DOMAIN registry : t[1] = allMetrics[reading + 1]} |->
                   IF s \in DOMAIN page THEN page[s] ELSE registry[s]]
    /\ IF reading = 0
       THEN late' = [r \in Judged |-> Cardinality({c \in Clients : Failing(c, r)})]
       ELSE UNCHANGED late
    /\ UNCHANGED <<flag, experiment, todo, loaded, registry, served>>

ServePage ==
    /\ reading = Len(allMetrics)
    /\ reading' = 0
    /\ page' = [s \in {} |-> 0]
    /\ late' = [r \in Judged |-> 0]
    /\ UNCHANGED <<flag, experiment, todo, loaded, registry, served>>

Handle(c) ==
    \/ \E ctx \in OfferedContexts : Evaluate(c, ctx)
    \/ \E user \in Users \cup {Anonymous} : GetVariant(c, user)
    \/ \E variant \in Variants : RecordConversion(c, variant)
    \/ \E f \in OfferedFlags : CreateFlag(c, f)
    \/ \E f \in OfferedFlags : UpdateFlag(c, f)
    \/ DeleteFlag(c)
    \/ GetFlag(c)
    \/ \E e \in Experiments : CreateExperiment(c, e)
    \/ \E route \in Routes : Refuse(c, route)

Next ==
    \/ \E c \in Clients : Handle(c) \/ WithLabelValues(c) \/ Count(c)
    \/ \E f \in (OfferedFlags \cup {None}) \ {flag} : SynchroniseFlags(f)
    \/ \E e \in (Experiments \cup {None}) \ {experiment} : SynchroniseExperiments(e)
    \/ ReadMetric
    \/ ServePage

Spec == Init /\ [][Next]_vars

-------------------------------------------------------------------------------
(***************************************************************************)
(* Types.  A request that has loaded an entry finds it in the registry,    *)
(* counters are numbers, timers histograms.                                *)
(***************************************************************************)
Entries(entries) ==
    /\ DOMAIN entries \subseteq Series
    /\ \A s \in DOMAIN entries : IF s \in Timers THEN entries[s] \in Histograms
                                 ELSE entries[s] \in Nat

TypeOK ==
    /\ flag \in OfferedFlags \cup {None}
    /\ experiment \in Experiments \cup {None}
    /\ todo \in [Clients -> Seq(Series)]
    /\ loaded \in [Clients -> BOOLEAN]
    /\ Entries(registry)
    /\ \A c \in Clients : loaded[c] =>
          todo[c] # <<>> /\ Head(todo[c]) \in DOMAIN registry
    /\ reading \in 0 .. Len(allMetrics)
    /\ Entries(page)
    /\ late \in [Judged -> Nat]
    /\ served \in 0 .. MaxRequests

CountOf(entries, s) == IF s \in DOMAIN entries THEN entries[s] ELSE 0

SumOf(entries, series) == SumFunctionOnSet(entries, series \cap DOMAIN entries)

Outcomes(entries, route) ==
    IF route = "evaluate"
    THEN CountOf(entries, <<"evaluations", "on">>) + CountOf(entries, <<"evaluations", "off">>)
    ELSE SumOf(entries, {"conversions"} \X Variants)

Accounted(entries, route) == Outcomes(entries, route) + CountOf(entries, <<"errors", route>>)

(***************************************************************************)
(* However requests overlap between finding a series' entry and counting   *)
(* in it, no count is lost: when nothing is being served, every request is *)
(* on the books of its route, its duration was observed, and it was        *)
(* counted with an outcome or as an error.                                 *)
(***************************************************************************)
Timed(route) ==
    LET s == <<"latency", route>> IN IF s \in DOMAIN registry THEN registry[s].total ELSE 0

BooksBalance ==
    (\A c \in Clients : todo[c] = <<>>) =>
        /\ served = SumOf(registry, {"requests"} \X Routes)
        /\ \A r \in Routes : CountOf(registry, <<"requests", r>>) = Timed(r)
        /\ \A r \in Judged : CountOf(registry, <<"requests", r>>) = Accounted(registry, r)

(***************************************************************************)
(* The page is no snapshot, but it never shows a request without what came *)
(* of it, failures apart that were not counted when it was begun: requests *)
(* are counted after their outcome and written before it.                  *)
(***************************************************************************)
PageAccounts ==
    reading = Len(allMetrics) =>
        \A r \in Judged : CountOf(page, <<"requests", r>>) <= Accounted(page, r) + late[r]

(***************************************************************************)
(* A histogram's buckets are cumulative, in the registry and on a page:    *)
(* one with a higher bound never holds less, and the last one holds all    *)
(* that were observed.                                                     *)
(***************************************************************************)
HistogramsCumulative ==
    \A entries \in {registry, page} :
        \A s \in Timers \cap DOMAIN entries : Cumulative(entries[s])

(***************************************************************************)
(* A write that raises rollouts, or adds rules to a flag that has some,    *)
(* never takes the flag away from anybody: buckets do not depend on the    *)
(* percentage, and 100 per cent are everyone who has a name.               *)
(***************************************************************************)
Keeps(f, g) == \A ctx \in OfferedContexts : IsFlagEnabled(f, ctx) => IsFlagEnabled(g, ctx)

RolloutKeepsUsers ==
    [][flag # None /\ flag' # None /\ Extends(flag, flag') => Keeps(flag, flag')]_flag
===============================================================================
