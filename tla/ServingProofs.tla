--------------------------- MODULE ServingProofs ---------------------------
(***************************************************************************)
(* Proofs about Serving, for every number of clients and requests, every   *)
(* list of buckets and all flags, contexts and experiments.                *)
(***************************************************************************)
EXTENDS Serving, SequenceTheorems, FiniteSetTheorems, WellFoundedInduction, TLAPS

LEMMA BucketsFacts ==
    /\ Len(Bounds) \in Nat
    /\ Len(Bounds) + 1 \in Buckets
    /\ Buckets \subseteq Nat \ {0}
    /\ \A i \in Buckets : i # Len(Bounds) + 1 => i \in 1 .. Len(Bounds)
    /\ \A i \in 1 .. Len(Bounds) : Bounds[i] \in Nat
BY MetricsAssumption DEF Buckets

LEMMA NewHistogramTyped == NewHistogram \in Histograms
BY DEF NewHistogram, Histograms

LEMMA NewHistogramCumulative == Cumulative(NewHistogram)
BY BucketsFacts DEF NewHistogram, Cumulative

LEMMA ObserveTyped ==
    ASSUME NEW h \in Histograms, NEW v \in Nat
    PROVE  Observe(h, v) \in Histograms
<1>1. [i \in Buckets |-> IF Holds(i, v) THEN h.counts[i] + 1 ELSE h.counts[i]]
         \in [Buckets -> Nat]
  BY DEF Histograms
<1>. QED
  BY <1>1 DEF Observe, Histograms

(***************************************************************************)
(* A value a bucket holds is held by those with a higher bound.            *)
(***************************************************************************)
LEMMA HoldsUpwards ==
    ASSUME NEW i \in Buckets, NEW j \in Buckets, i <= j, NEW v \in Nat, Holds(i, v)
    PROVE  Holds(j, v)
<1>1. CASE j = Len(Bounds) + 1
  BY <1>1 DEF Holds
<1>2. CASE j # Len(Bounds) + 1
  <2>1. j \in 1 .. Len(Bounds) /\ i \in 1 .. Len(Bounds)
    BY <1>2, BucketsFacts DEF Buckets
  <2>2. v <= Bounds[i] /\ Bounds[i] <= Bounds[j]
    BY <2>1, MetricsAssumption, BucketsFacts DEF Holds
  <2>. QED
    BY <2>1, <2>2, BucketsFacts DEF Holds
<1>. QED
  BY <1>1, <1>2

LEMMA ObserveCumulative ==
    ASSUME NEW h \in Histograms, Cumulative(h), NEW v \in Nat
    PROVE  Cumulative(Observe(h, v))
<1>. DEFINE new == Observe(h, v)
<1>1. \A i \in Buckets :
         new.counts[i] = IF Holds(i, v) THEN h.counts[i] + 1 ELSE h.counts[i]
  BY DEF Observe
<1>2. ASSUME NEW i \in Buckets, NEW j \in Buckets, i <= j
      PROVE  new.counts[i] <= new.counts[j]
  <2>1. h.counts[i] \in Nat /\ h.counts[j] \in Nat /\ h.counts[i] <= h.counts[j]
    BY <1>2 DEF Histograms, Cumulative
  <2>2. Holds(i, v) => Holds(j, v)
    BY <1>2, HoldsUpwards
  <2>. QED
    BY <1>1, <2>1, <2>2
<1>3. new.counts[Len(Bounds) + 1] = new.total
  BY <1>1, BucketsFacts DEF Observe, Holds, Cumulative
<1>. QED
  BY <1>2, <1>3 DEF Cumulative

-------------------------------------------------------------------------------
(***************************************************************************)
(* What a request counts are series.                                       *)
(***************************************************************************)
LEMMA RouteSeries ==
    ASSUME NEW r \in Routes
    PROVE  <<"requests", r>> \in Series /\ <<"latency", r>> \in Series
           /\ <<"errors", r>> \in Series
BY DEF Series, Counters, Timers

LEMMA RequestTyped ==
    ASSUME TypeOK, NEW c \in Clients, NEW route \in Routes, NEW counts \in Seq(Series),
           NEW failed \in BOOLEAN, Request(c, route, counts, failed)
    PROVE  /\ todo' \in [Clients -> Seq(Series)]
           /\ served' \in 0 .. MaxRequests
           /\ \A d \in Clients : loaded[d] => todo'[d] = todo[d]
<1>. DEFINE own == <<<<"requests", route>>, <<"latency", route>>>>
            failure == IF failed THEN <<<<"errors", route>>>> ELSE <<>>
<1>1. own \in Seq(Series) /\ failure \in Seq(Series)
  BY RouteSeries
<1>2. counts \o own \o failure \in Seq(Series)
  <2>1. counts \o own \in Seq(Series)
    BY <1>1, ConcatProperties
  <2>. QED
    BY <1>1, <2>1, ConcatProperties
<1>3. todo' = [todo EXCEPT ![c] = counts \o own \o failure]
  BY DEF Request
<1>4. served' \in 0 .. MaxRequests
  BY ServingAssumption DEF Request, TypeOK
<1>5. \A d \in Clients : loaded[d] => d # c
  BY DEF Request, TypeOK
<1>. QED
  BY <1>2, <1>3, <1>4, <1>5 DEF TypeOK

LEMMA RequestKeepsTypes ==
    ASSUME TypeOK, NEW c \in Clients, NEW route \in Routes, NEW counts \in Seq(Series),
           NEW failed \in BOOLEAN, Request(c, route, counts, failed),
           flag' \in OfferedFlags \cup {None}, experiment' \in Experiments \cup {None}
    PROVE  TypeOK'
<1>1. UNCHANGED <<loaded, registry, reading, page, late>>
  BY DEF Request
<1>. QED
  BY <1>1, RequestTyped DEF TypeOK, Entries

LEMMA AssignedIsVariant ==
    ASSUME NEW e \in Experiments, e # <<>>, NEW u \in Users
    PROVE  AssignVariant(e, u) \in Variants
<1>1. e \in Seq(Variants) /\ Len(e) \in Nat \ {0}
  BY ServingAssumption, EmptySeq
<1>2. (VariantHash[u] % Len(e)) + 1 \in 1 .. Len(e)
  BY <1>1, FlagEvaluationAssumption
<1>. QED
  BY <1>1, <1>2 DEF AssignVariant

LEMMA HandleTyped ==
    ASSUME TypeOK, NEW c \in Clients, Handle(c)
    PROVE  TypeOK'
<1>1. ASSUME NEW ctx \in OfferedContexts, Evaluate(c, ctx)
      PROVE  TypeOK'
  <2>1. "evaluate" \in Routes /\ <<>> \in Seq(Series)
        /\ <<"evaluations", "on">> \in Series /\ <<"evaluations", "off">> \in Series
    BY DEF Routes, Series, Counters
  <2>2. /\ <<<<"evaluations", "on">>>> \in Seq(Series)
        /\ <<<<"evaluations", "off">>>> \in Seq(Series)
    BY <2>1
  <2>3. flag' = flag /\ experiment' = experiment
    BY <1>1 DEF Evaluate, Maps
  <2>4. PICK counts \in Seq(Series), failed \in BOOLEAN : Request(c, "evaluate", counts, failed)
    BY <1>1, <2>1, <2>2 DEF Evaluate
  <2>. QED
    BY <2>1, <2>3, <2>4, RequestKeepsTypes DEF TypeOK
<1>2. ASSUME NEW user \in Users \cup {Anonymous}, GetVariant(c, user)
      PROVE  TypeOK'
  <2>1. "variant" \in Routes /\ <<>> \in Seq(Series)
    BY DEF Routes
  <2>2. flag' = flag /\ experiment' = experiment
    BY <1>2 DEF GetVariant, Maps
  <2>3. PICK counts \in Seq(Series), failed \in BOOLEAN : Request(c, "variant", counts, failed)
    <3>1. CASE user = Anonymous \/ experiment = None
      BY <1>2, <2>1, <3>1 DEF GetVariant
    <3>2. CASE ~ (user = Anonymous \/ experiment = None) /\ experiment = <<>>
      BY <1>2, <2>1, <3>2 DEF GetVariant
    <3>3. CASE ~ (user = Anonymous \/ experiment = None) /\ experiment # <<>>
      <4>1. AssignVariant(experiment, user) \in Variants
        BY <3>3, AssignedIsVariant DEF TypeOK
      <4>2. <<"exposures", AssignVariant(experiment, user)>> \in Series
        BY <4>1 DEF Series, Counters
      <4>3. <<<<"exposures", AssignVariant(experiment, user)>>>> \in Seq(Series)
        BY <4>2
      <4>. QED
        BY <1>2, <3>3, <4>3 DEF GetVariant
    <3>. QED
      BY <3>1, <3>2, <3>3
  <2>. QED
    BY <2>1, <2>2, <2>3, RequestKeepsTypes DEF TypeOK
<1>3. ASSUME NEW variant \in Variants, RecordConversion(c, variant)
      PROVE  TypeOK'
  <2>1. "convert" \in Routes /\ <<>> \in Seq(Series) /\ <<"conversions", variant>> \in Series
    BY DEF Routes, Series, Counters
  <2>2. <<<<"conversions", variant>>>> \in Seq(Series)
    BY <2>1
  <2>3. flag' = flag /\ experiment' = experiment
    BY <1>3 DEF RecordConversion, Maps
  <2>4. PICK counts \in Seq(Series), failed \in BOOLEAN : Request(c, "convert", counts, failed)
    BY <1>3, <2>1, <2>2 DEF RecordConversion
  <2>. QED
    BY <2>1, <2>3, <2>4, RequestKeepsTypes DEF TypeOK
<1>4. /\ "settings" \in Routes
      /\ <<>> \in Seq(Series)
      /\ <<<<"evaluations", "created">>>> \in Seq(Series)
  BY DEF Routes, Series, Counters
<1>5. ASSUME NEW f \in OfferedFlags, CreateFlag(c, f)
      PROVE  TypeOK'
  BY <1>4, <1>5, RequestKeepsTypes DEF CreateFlag, TypeOK
<1>6. ASSUME NEW f \in OfferedFlags, UpdateFlag(c, f)
      PROVE  TypeOK'
  BY <1>4, <1>6, RequestKeepsTypes DEF UpdateFlag, TypeOK
<1>7. ASSUME DeleteFlag(c)
      PROVE  TypeOK'
  BY <1>4, <1>7, RequestKeepsTypes DEF DeleteFlag, TypeOK
<1>8. ASSUME GetFlag(c)
      PROVE  TypeOK'
  <2>1. (flag = None) \in BOOLEAN
    OBVIOUS
  <2>2. flag' = flag /\ experiment' = experiment
    BY <1>8 DEF GetFlag, Maps
  <2>. QED
    BY <1>4, <1>8, <2>1, <2>2, RequestKeepsTypes DEF GetFlag, TypeOK
<1>9. ASSUME NEW e \in Experiments, CreateExperiment(c, e)
      PROVE  TypeOK'
  BY <1>4, <1>9, RequestKeepsTypes DEF CreateExperiment, TypeOK
<1>10. ASSUME NEW route \in Routes, Refuse(c, route)
       PROVE  TypeOK'
  <2>1. flag' = flag /\ experiment' = experiment
    BY <1>10 DEF Refuse, Maps
  <2>. QED
    BY <1>4, <1>10, <2>1, RequestKeepsTypes DEF Refuse, TypeOK
<1>. QED
  BY <1>1, <1>2, <1>3, <1>5, <1>6, <1>7, <1>8, <1>9, <1>10 DEF Handle

(***************************************************************************)
(* A step that changes the entries changes one of them, to a value it      *)
(* observed.                                                               *)
(***************************************************************************)
LEMMA WithLabelValuesTyped ==
    ASSUME TypeOK, NEW c \in Clients, WithLabelValues(c)
    PROVE  TypeOK'
<1>. DEFINE s == Head(todo[c])
            new == IF s \in Timers THEN NewHistogram ELSE 0
<1>1. todo[c] \in Seq(Series) /\ todo[c] # <<>> /\ s \in Series
  BY DEF WithLabelValues, TypeOK
<1>2. registry' = [t \in DOMAIN registry \cup {s} |->
                      IF t \in DOMAIN registry THEN registry[t] ELSE new]
  BY DEF WithLabelValues, LoadOrStore
<1>3. DOMAIN registry' = DOMAIN registry \cup {s}
  BY <1>2
<1>4. Entries(registry')
  BY <1>1, <1>2, NewHistogramTyped DEF Entries, TypeOK
<1>5. loaded' = [loaded EXCEPT ![c] = TRUE]
      /\ UNCHANGED <<flag, experiment, todo, reading, page, late, served>>
  BY DEF WithLabelValues
<1>6. loaded' \in [Clients -> BOOLEAN]
  BY <1>5 DEF TypeOK
<1>7. ASSUME NEW d \in Clients, loaded'[d]
      PROVE  todo'[d] # <<>> /\ Head(todo'[d]) \in DOMAIN registry'
  BY <1>1, <1>3, <1>5, <1>7 DEF TypeOK
<1>. QED
  BY <1>4, <1>5, <1>6, <1>7 DEF TypeOK, Entries

LEMMA CountTyped ==
    ASSUME TypeOK, NEW c \in Clients, Count(c)
    PROVE  TypeOK'
<1>. DEFINE s == Head(todo[c])
<1>1. todo[c] \in Seq(Series) /\ todo[c] # <<>> /\ s \in DOMAIN registry
  BY DEF Count, TypeOK
<1>2. /\ todo' = [todo EXCEPT ![c] = Tail(@)]
      /\ loaded' = [loaded EXCEPT ![c] = FALSE]
      /\ UNCHANGED <<flag, experiment, reading, page, late, served>>
  BY DEF Count
<1>3. todo' \in [Clients -> Seq(Series)] /\ loaded' \in [Clients -> BOOLEAN]
  <2>1. Tail(todo[c]) \in Seq(Series)
    BY <1>1
  <2>. QED
    BY <1>2, <2>1 DEF TypeOK
<1>4. DOMAIN registry' = DOMAIN registry /\ Entries(registry')
  <2>1. CASE s \in Timers
    <3>1. PICK duration \in Durations :
             registry' = [registry EXCEPT ![s] = Observe(@, duration)]
      BY <2>1 DEF Count
    <3>2. Observe(registry[s], duration) \in Histograms
      BY <1>1, <2>1, ObserveTyped, ServingAssumption DEF TypeOK, Entries
    <3>. QED
      BY <2>1, <3>1, <3>2 DEF TypeOK, Entries
  <2>2. CASE s \notin Timers
    <3>1. registry' = [registry EXCEPT ![s] = @ + 1] /\ registry[s] \in Nat
      BY <1>1, <2>2 DEF Count, TypeOK, Entries
    <3>. QED
      BY <2>2, <3>1 DEF TypeOK, Entries
  <2>. QED
    BY <2>1, <2>2
<1>5. ASSUME NEW d \in Clients, loaded'[d]
      PROVE  todo'[d] # <<>> /\ Head(todo'[d]) \in DOMAIN registry'
  <2>1. d # c
    BY <1>2, <1>5 DEF TypeOK
  <2>. QED
    BY <1>2, <1>4, <1>5, <2>1 DEF TypeOK
<1>. QED
  BY <1>2, <1>3, <1>4, <1>5 DEF TypeOK, Entries

LEMMA ReadMetricTyped ==
    ASSUME TypeOK, ReadMetric
    PROVE  TypeOK'
<1>. DEFINE shown == {t \in DOMAIN registry : t[1] = allMetrics[reading + 1]}
<1>1. page' = [s \in DOMAIN page \cup shown |->
                  IF s \in DOMAIN page THEN page[s] ELSE registry[s]]
  BY DEF ReadMetric
<1>2. shown \subseteq DOMAIN registry
  OBVIOUS
<1>3. Entries(page')
  <2>1. DOMAIN page' = DOMAIN page \cup shown
    BY <1>1
  <2>2. DOMAIN page' \subseteq Series
    BY <1>2, <2>1 DEF TypeOK, Entries
  <2>3. ASSUME NEW s \in DOMAIN page'
        PROVE  IF s \in Timers THEN page'[s] \in Histograms ELSE page'[s] \in Nat
    BY <1>1, <1>2, <2>1, <2>3 DEF TypeOK, Entries
  <2>. QED
    BY <2>2, <2>3 DEF Entries
<1>4. late' \in [Judged -> Nat]
  <2>1. ASSUME NEW r \in Judged
        PROVE  Cardinality({c \in Clients : Failing(c, r)}) \in Nat
    <3>1. IsFiniteSet({c \in Clients : Failing(c, r)})
      BY ServingAssumption, FS_Subset
    <3>. QED
      BY <3>1, FS_CardinalityType
  <2>. QED
    BY <2>1 DEF ReadMetric, TypeOK
<1>5. /\ reading' \in 0 .. Len(allMetrics)
      /\ UNCHANGED <<flag, experiment, todo, loaded, registry, served>>
  BY DEF ReadMetric, TypeOK, allMetrics
<1>. QED
  BY <1>3, <1>4, <1>5 DEF TypeOK, Entries

-------------------------------------------------------------------------------
LEMMA InitTyped == Init => TypeOK
<1>. SUFFICES ASSUME Init
              PROVE  TypeOK
  OBVIOUS
<1>1. Entries(registry) /\ Entries(page)
  BY DEF Init, Entries
<1>2. reading \in 0 .. Len(allMetrics) /\ served \in 0 .. MaxRequests
  BY ServingAssumption DEF Init, allMetrics
<1>3. todo \in [Clients -> Seq(Series)] /\ late \in [Judged -> Nat]
  BY DEF Init
<1>4. loaded \in [Clients -> BOOLEAN] /\ \A c \in Clients : ~ loaded[c]
  BY DEF Init
<1>. QED
  BY <1>1, <1>2, <1>3, <1>4 DEF Init, TypeOK

LEMMA StepTyped == TypeOK /\ [Next]_vars => TypeOK'
<1>. SUFFICES ASSUME TypeOK, [Next]_vars
              PROVE  TypeOK'
  OBVIOUS
<1>1. ASSUME NEW c \in Clients, Handle(c)
      PROVE  TypeOK'
  BY <1>1, HandleTyped
<1>2. ASSUME NEW c \in Clients, WithLabelValues(c)
      PROVE  TypeOK'
  BY <1>2, WithLabelValuesTyped
<1>3. ASSUME NEW c \in Clients, Count(c)
      PROVE  TypeOK'
  BY <1>3, CountTyped
<1>4. ASSUME NEW f \in OfferedFlags \cup {None}, SynchroniseFlags(f)
      PROVE  TypeOK'
  BY <1>4 DEF SynchroniseFlags, TypeOK, Entries
<1>5. ASSUME NEW e \in Experiments \cup {None}, SynchroniseExperiments(e)
      PROVE  TypeOK'
  BY <1>5 DEF SynchroniseExperiments, TypeOK, Entries
<1>6. ASSUME ReadMetric
      PROVE  TypeOK'
  BY <1>6, ReadMetricTyped
<1>7. ASSUME ServePage
      PROVE  TypeOK'
  <2>1. Entries(page') /\ late' \in [Judged -> Nat] /\ reading' \in 0 .. Len(allMetrics)
    BY <1>7 DEF ServePage, Entries, allMetrics
  <2>. QED
    BY <1>7, <2>1 DEF ServePage, TypeOK, Entries
<1>8. CASE UNCHANGED vars
  BY <1>8 DEF vars, TypeOK, Entries
<1>. QED
  BY <1>1, <1>2, <1>3, <1>4, <1>5, <1>6, <1>7, <1>8 DEF Next

(***************************************************************************)
(* Entries stay numbers and histograms, and a request finds the entry it   *)
(* has loaded, however requests overlap.                                   *)
(***************************************************************************)
THEOREM TypeCorrect == Spec => []TypeOK
BY InitTyped, StepTyped, PTL DEF Spec

(***************************************************************************)
(* Buckets stay cumulative: an observation raises all from the first that  *)
(* holds it on, and a page shows entries as they were at one moment.       *)
(***************************************************************************)
LEMMA StepCumulative ==
    TypeOK /\ HistogramsCumulative /\ [Next]_vars => HistogramsCumulative'
<1>. SUFFICES ASSUME TypeOK, HistogramsCumulative, [Next]_vars
              PROVE  HistogramsCumulative'
  OBVIOUS
<1>1. /\ \A s \in Timers \cap DOMAIN registry : Cumulative(registry[s])
      /\ \A s \in Timers \cap DOMAIN page : Cumulative(page[s])
  BY DEF HistogramsCumulative
<1>2. SUFFICES /\ \A s \in Timers \cap DOMAIN registry' : Cumulative(registry'[s])
               /\ \A s \in Timers \cap DOMAIN page' : Cumulative(page'[s])
  BY DEF HistogramsCumulative, Cumulative
<1>3. ASSUME NEW c \in Clients, WithLabelValues(c)
      PROVE  /\ \A s \in Timers \cap DOMAIN registry' : Cumulative(registry'[s])
             /\ page' = page
  BY <1>1, <1>3, NewHistogramCumulative DEF WithLabelValues, LoadOrStore
<1>4. ASSUME NEW c \in Clients, Count(c)
      PROVE  /\ \A s \in Timers \cap DOMAIN registry' : Cumulative(registry'[s])
             /\ page' = page
  <2>. DEFINE t == Head(todo[c])
  <2>1. t \in DOMAIN registry
    BY <1>4 DEF Count, TypeOK
  <2>2. CASE t \in Timers
    <3>1. PICK duration \in Durations :
             registry' = [registry EXCEPT ![t] = Observe(@, duration)]
      BY <1>4, <2>2 DEF Count
    <3>2. registry[t] \in Histograms /\ Cumulative(registry[t]) /\ duration \in Nat
      BY <1>1, <2>1, <2>2, ServingAssumption DEF TypeOK, Entries
    <3>3. Cumulative(Observe(registry[t], duration))
      BY <3>2, ObserveCumulative
    <3>. QED
      BY <1>1, <1>4, <3>1, <3>3 DEF Count
  <2>3. CASE t \notin Timers
    BY <1>1, <1>4, <2>3 DEF Count
  <2>. QED
    BY <2>2, <2>3
<1>5. ASSUME ReadMetric
      PROVE  /\ \A s \in Timers \cap DOMAIN page' : Cumulative(page'[s])
             /\ registry' = registry
  BY <1>1, <1>5 DEF ReadMetric
<1>6. ASSUME ServePage
      PROVE  DOMAIN page' = {} /\ registry' = registry
  BY <1>6 DEF ServePage
<1>7. ASSUME \/ \E c \in Clients : Handle(c)
             \/ \E f \in OfferedFlags \cup {None} : SynchroniseFlags(f)
             \/ \E e \in Experiments \cup {None} : SynchroniseExperiments(e)
             \/ UNCHANGED vars
      PROVE  registry' = registry /\ page' = page
  BY <1>7 DEF Handle, Evaluate, GetVariant, RecordConversion, CreateFlag, UpdateFlag,
              DeleteFlag, GetFlag, CreateExperiment, Refuse, Request,
              SynchroniseFlags, SynchroniseExperiments, vars
<1>. QED
  BY <1>1, <1>3, <1>4, <1>5, <1>6, <1>7 DEF Next

(***************************************************************************)
(* Scrapers may read any histogram as cumulative, whenever they read it.   *)
(***************************************************************************)
THEOREM HistogramsSafe == Spec => []HistogramsCumulative
<1>1. Init => HistogramsCumulative
  BY DEF Init, HistogramsCumulative
<1>. QED
  BY <1>1, TypeCorrect, StepCumulative, PTL DEF Spec

-------------------------------------------------------------------------------
(***************************************************************************)
(* A rule that covers another matches wherever the other does.             *)
(***************************************************************************)
LEMMA CoversMatches ==
    ASSUME NEW old \in Rules, NEW new \in Rules, Covers(new, old),
           NEW ctx \in Contexts, Matches(old, ctx)
    PROVE  Matches(new, ctx)
<1>1. CASE old.type = "percentage"
  <2>1. /\ new.type = "percentage" /\ new.rollout >= old.rollout
        /\ ctx.user # Anonymous /\ old.rollout > 0 /\ Bucket[ctx.user] < old.rollout
    BY <1>1 DEF Covers, Matches
  <2>2. old.rollout \in Int /\ new.rollout \in Int
    BY <1>1, <2>1 DEF Rules
  <2>3. Bucket[ctx.user] \in Int
    BY <2>1, FlagEvaluationAssumption DEF Contexts
  <2>. QED
    BY <2>1, <2>2, <2>3 DEF Matches
<1>2. CASE old.type # "percentage"
  BY <1>2 DEF Covers
<1>. QED
  BY <1>1, <1>2

LEMMA ExtendsKeeps ==
    ASSUME NEW f \in Flags, NEW g \in Flags, Extends(f, g),
           NEW ctx \in Contexts, IsFlagEnabled(f, ctx)
    PROVE  IsFlagEnabled(g, ctx)
<1>1. PICK old \in f.rules : Matches(old, ctx)
  BY DEF Extends, IsFlagEnabled
<1>2. PICK new \in g.rules : Covers(new, old)
  BY <1>1 DEF Extends
<1>3. old \in Rules /\ new \in Rules
  BY <1>1, <1>2 DEF Flags
<1>4. Matches(new, ctx)
  BY <1>1, <1>2, <1>3, CoversMatches
<1>. QED
  BY <1>2, <1>4 DEF Extends, IsFlagEnabled

(***************************************************************************)
(* Raising a rollout keeps every user it had reached, for every assignment *)
(* of users to buckets.                                                    *)
(***************************************************************************)
THEOREM RolloutsSafe == Spec => RolloutKeepsUsers
<1>1. TypeOK /\ TypeOK' =>
         [flag # None /\ flag' # None /\ Extends(flag, flag') => Keeps(flag, flag')]_flag
  <2>. SUFFICES ASSUME TypeOK, TypeOK', flag # None, flag' # None, Extends(flag, flag')
                PROVE  Keeps(flag, flag')
    OBVIOUS
  <2>1. flag \in Flags /\ flag' \in Flags /\ OfferedContexts \subseteq Contexts
    BY ServingAssumption DEF TypeOK
  <2>. QED
    BY <2>1, ExtendsKeeps DEF Keeps
<1>. QED
  BY <1>1, TypeCorrect, PTL DEF RolloutKeepsUsers

-------------------------------------------------------------------------------
(***************************************************************************)
(* Sums over finite sets.  SumFunctionOnSet is a fold that takes one       *)
(* element after another, so its facts are proved by induction on the      *)
(* subsets of a finite set: a family of subsets that contains each whose   *)
(* strict subsets it contains contains them all, because the smallest      *)
(* subset outside of it would be in it.                                    *)
(***************************************************************************)
LEMMA SubsetInduction ==
    ASSUME NEW S, IsFiniteSet(S), NEW P,
           \A T \in SUBSET S : (\A U \in SUBSET T : U # T => U \in P) => T \in P
    PROVE  \A T \in SUBSET S : T \in P
<1>. DEFINE Others == (SUBSET S) \ P
            R == StrictSubsetOrdering(S)
<1>1. SUFFICES ASSUME Others # {}
               PROVE  FALSE
  OBVIOUS
<1>2. IsWellFoundedOn(R, SUBSET S)
  BY FS_StrictSubsetOrderingWellFounded, FS_FiniteSubsetsOfFinite
<1>3. PICK T \in Others : \A U \in Others : <<U, T>> \notin R
  <2>1. Others \subseteq SUBSET S
    OBVIOUS
  <2>. HIDE DEF Others, R
  <2>. QED
    BY <1>1, <1>2, <2>1, WFMin
<1>4. ASSUME NEW U \in SUBSET T, U # T
      PROVE  U \in P
  <2>1. <<U, T>> \in R
    BY <1>4 DEF StrictSubsetOrdering
  <2>. QED
    BY <1>3, <2>1
<1>. QED
  BY <1>4

(***************************************************************************)
(* The fold's local function on the subsets of S: there is one, only one,  *)
(* and it is the same for a subset of S.                                   *)
(***************************************************************************)
AnyOf(s) == CHOOSE x \in s : TRUE

Adds(f, S, g) ==
    g = [s \in SUBSET S |-> IF s = {} THEN 0 ELSE f[AnyOf(s)] + g[s \ {AnyOf(s)}]]

LEMMA SumIs ==
    ASSUME NEW f, NEW S
    PROVE  SumFunctionOnSet(f, S) = (CHOOSE g : Adds(f, S, g))[S]
BY Zenon DEF SumFunctionOnSet, FoldFunctionOnSet, MapThenFoldSet, Adds, AnyOf

LEMMA AddsUnique ==
    ASSUME NEW f, NEW S, IsFiniteSet(S), NEW U \in SUBSET S,
           NEW g, Adds(f, S, g), NEW h, Adds(f, U, h)
    PROVE  g[U] = h[U]
<1>. DEFINE P == {s \in SUBSET U : g[s] = h[s]}
<1>1. ASSUME NEW T \in SUBSET U, \A V \in SUBSET T : V # T => V \in P
      PROVE  T \in P
  <2>1. g[T] = IF T = {} THEN 0 ELSE f[AnyOf(T)] + g[T \ {AnyOf(T)}]
    BY DEF Adds
  <2>2. h[T] = IF T = {} THEN 0 ELSE f[AnyOf(T)] + h[T \ {AnyOf(T)}]
    BY DEF Adds
  <2>3. T # {} => g[T \ {AnyOf(T)}] = h[T \ {AnyOf(T)}]
    <3>1. T # {} => AnyOf(T) \in T
      BY DEF AnyOf
    <3>. QED
      BY <1>1, <3>1
  <2>. QED
    BY <2>1, <2>2, <2>3
<1>2. IsFiniteSet(U)
  BY FS_Subset
<1>. HIDE DEF P
<1>3. U \in P
  BY <1>1, <1>2, SubsetInduction
<1>. QED
  BY <1>3 DEF P

LEMMA AddsExtended ==
    ASSUME NEW f, NEW S, IsFiniteSet(S),
           \A U \in SUBSET S : U # S => \E g : Adds(f, U, g)
    PROVE  \E g : Adds(f, S, g)
<1>. DEFINE Of(U) == CHOOSE g : Adds(f, U, g)
            h == [s \in SUBSET S |-> IF s = {} THEN 0
                     ELSE LET t == s \ {AnyOf(s)} IN f[AnyOf(s)] + Of(t)[t]]
<1>1. ASSUME NEW U \in SUBSET S, U # S
      PROVE  Of(U)[U] = h[U]
  <2>1. Adds(f, U, Of(U))
    BY <1>1
  <2>2. CASE U = {}
    BY <2>1, <2>2 DEF Adds
  <2>3. CASE U # {}
    <3>. DEFINE V == U \ {AnyOf(U)}
    <3>1. AnyOf(U) \in U
      BY <2>3 DEF AnyOf
    <3>2. V \in SUBSET S /\ V # S /\ V \in SUBSET U /\ IsFiniteSet(U)
      BY <1>1, <3>1, FS_Subset
    <3>3. Adds(f, V, Of(V))
      BY <1>1, <3>2
    <3>4. Of(U)[V] = Of(V)[V]
      <4>. HIDE DEF V, Of
      <4>. QED
        BY <2>1, <3>2, <3>3, AddsUnique
    <3>5. Of(U)[U] = f[AnyOf(U)] + Of(U)[V]
      BY <2>1, <2>3 DEF Adds
    <3>. QED
      BY <2>3, <3>4, <3>5
  <2>. QED
    BY <2>2, <2>3
<1>2. ASSUME NEW s \in SUBSET S, s # {}
      PROVE  Of(s \ {AnyOf(s)})[s \ {AnyOf(s)}] = h[s \ {AnyOf(s)}]
  <2>1. AnyOf(s) \in s
    BY <1>2 DEF AnyOf
  <2>. HIDE DEF h, Of
  <2>. QED
    BY <1>1, <2>1
<1>3. h = [s \in SUBSET S |-> IF s = {} THEN 0 ELSE f[AnyOf(s)] + h[s \ {AnyOf(s)}]]
  <2>. HIDE DEF Of
  <2>. QED
    BY <1>2
<1>. QED
  BY <1>3 DEF Adds

LEMMA AddsExists ==
    ASSUME NEW f, NEW S, IsFiniteSet(S)
    PROVE  \E g : Adds(f, S, g)
<1>. DEFINE P == {s \in SUBSET S : \E g : Adds(f, s, g)}
<1>1. ASSUME NEW T \in SUBSET S, \A U \in SUBSET T : U # T => U \in P
      PROVE  T \in P
  <2>1. IsFiniteSet(T)
    BY FS_Subset
  <2>2. \A U \in SUBSET T : U # T => \E g : Adds(f, U, g)
    BY <1>1
  <2>. QED
    BY <2>1, <2>2, AddsExtended
<1>. HIDE DEF P
<1>2. S \in P
  BY <1>1, SubsetInduction
<1>. QED
  BY <1>2 DEF P

(***************************************************************************)
(* What remains of a sum without one element, whichever the fold takes     *)
(* first, and how it follows the values.                                   *)
(***************************************************************************)
LEMMA SumEmpty ==
    ASSUME NEW f
    PROVE  SumFunctionOnSet(f, {}) = 0
<1>1. Adds(f, {}, CHOOSE g : Adds(f, {}, g))
  BY AddsExists, FS_EmptySet
<1>. QED
  BY <1>1, SumIs DEF Adds

LEMMA SumUnfolds ==
    ASSUME NEW f, NEW S, IsFiniteSet(S), S # {}
    PROVE  /\ AnyOf(S) \in S
           /\ SumFunctionOnSet(f, S) = f[AnyOf(S)] + SumFunctionOnSet(f, S \ {AnyOf(S)})
<1>. DEFINE V == S \ {AnyOf(S)}
            g == CHOOSE g : Adds(f, S, g)
            h == CHOOSE h : Adds(f, V, h)
<1>1. AnyOf(S) \in S
  BY DEF AnyOf
<1>2. IsFiniteSet(V) /\ V \in SUBSET S
  BY FS_Subset
<1>3. Adds(f, S, g) /\ Adds(f, V, h)
  <2>. HIDE DEF V
  <2>. QED
    BY <1>2, AddsExists
<1>4. g[V] = h[V]
  <2>. HIDE DEF g, h, V
  <2>. QED
    BY <1>2, <1>3, AddsUnique
<1>5. g[S] = f[AnyOf(S)] + g[V]
  <2>. HIDE DEF g
  <2>. QED
    BY <1>3 DEF Adds
<1>6. SumFunctionOnSet(f, S) = g[S] /\ SumFunctionOnSet(f, V) = h[V]
  BY SumIs
<1>. QED
  BY <1>1, <1>4, <1>5, <1>6

LEMMA SumNat ==
    ASSUME NEW f, NEW S, IsFiniteSet(S), \A s \in S : f[s] \in Nat
    PROVE  SumFunctionOnSet(f, S) \in Nat
<1>. DEFINE P == {s \in SUBSET S : SumFunctionOnSet(f, s) \in Nat}
<1>1. ASSUME NEW T \in SUBSET S, \A U \in SUBSET T : U # T => U \in P
      PROVE  T \in P
  <2>1. CASE T = {}
    BY <2>1, SumEmpty
  <2>2. CASE T # {}
    <3>1. IsFiniteSet(T)
      BY FS_Subset
    <3>2. /\ AnyOf(T) \in T
          /\ SumFunctionOnSet(f, T) = f[AnyOf(T)] + SumFunctionOnSet(f, T \ {AnyOf(T)})
      BY <2>2, <3>1, SumUnfolds
    <3>3. SumFunctionOnSet(f, T \ {AnyOf(T)}) \in Nat
      BY <1>1, <3>2
    <3>. QED
      BY <3>2, <3>3
  <2>. QED
    BY <2>1, <2>2
<1>. HIDE DEF P
<1>2. S \in P
  BY <1>1, SubsetInduction
<1>. QED
  BY <1>2 DEF P

LEMMA SumAgrees ==
    ASSUME NEW f, NEW g, NEW S, IsFiniteSet(S), \A s \in S : f[s] = g[s]
    PROVE  SumFunctionOnSet(f, S) = SumFunctionOnSet(g, S)
<1>. DEFINE P == {s \in SUBSET S : SumFunctionOnSet(f, s) = SumFunctionOnSet(g, s)}
<1>1. ASSUME NEW T \in SUBSET S, \A U \in SUBSET T : U # T => U \in P
      PROVE  T \in P
  <2>1. CASE T = {}
    BY <2>1, SumEmpty
  <2>2. CASE T # {}
    <3>1. IsFiniteSet(T)
      BY FS_Subset
    <3>2. /\ AnyOf(T) \in T
          /\ SumFunctionOnSet(f, T) = f[AnyOf(T)] + SumFunctionOnSet(f, T \ {AnyOf(T)})
          /\ SumFunctionOnSet(g, T) = g[AnyOf(T)] + SumFunctionOnSet(g, T \ {AnyOf(T)})
      BY <2>2, <3>1, SumUnfolds
    <3>3. SumFunctionOnSet(f, T \ {AnyOf(T)}) = SumFunctionOnSet(g, T \ {AnyOf(T)})
      BY <1>1, <3>2
    <3>. QED
      BY <3>2, <3>3
  <2>. QED
    BY <2>1, <2>2
<1>. HIDE DEF P
<1>2. S \in P
  BY <1>1, SubsetInduction
<1>. QED
  BY <1>2 DEF P

LEMMA SumRemove ==
    ASSUME NEW f, NEW S, IsFiniteSet(S), \A s \in S : f[s] \in Nat, NEW x \in S
    PROVE  SumFunctionOnSet(f, S) = f[x] + SumFunctionOnSet(f, S \ {x})
<1>. DEFINE Sum(s) == SumFunctionOnSet(f, s)
            P == {s \in SUBSET S : \A y \in s : Sum(s) = f[y] + Sum(s \ {y})}
<1>1. ASSUME NEW T \in SUBSET S, \A U \in SUBSET T : U # T => U \in P, NEW y \in T
      PROVE  Sum(T) = f[y] + Sum(T \ {y})
  <2>. DEFINE z == AnyOf(T)
              V == T \ {y}
              W == T \ {z}
  <2>1. IsFiniteSet(T) /\ IsFiniteSet(V \ {z})
    BY FS_Subset
  <2>2. z \in T /\ Sum(T) = f[z] + Sum(W)
    BY <1>1, <2>1, SumUnfolds
  <2>3. CASE y = z
    BY <2>2, <2>3
  <2>4. CASE y # z
    <3>1. V \in P /\ W \in P /\ z \in V /\ y \in W
      BY <1>1, <2>2, <2>4
    <3>2. Sum(W) = f[y] + Sum(W \ {y}) /\ Sum(V) = f[z] + Sum(V \ {z})
      BY <3>1
    <3>3. W \ {y} = V \ {z}
      OBVIOUS
    <3>4. f[y] \in Nat /\ f[z] \in Nat /\ Sum(V \ {z}) \in Nat
      BY <2>1, <2>2, SumNat
    <3>. HIDE DEF Sum, V, W, z
    <3>5. Sum(T) = f[z] + (f[y] + Sum(V \ {z}))
      BY <2>2, <3>2, <3>3
    <3>6. Sum(T) = f[y] + Sum(V)
      BY <3>2, <3>4, <3>5
    <3>. QED
      BY <3>6 DEF V
  <2>. QED
    BY <2>3, <2>4
<1>2. \A T \in SUBSET S : (\A U \in SUBSET T : U # T => U \in P) => T \in P
  BY <1>1
<1>. HIDE DEF P
<1>3. S \in P
  BY <1>2, SubsetInduction
<1>. QED
  BY <1>3 DEF P

LEMMA SumIncremented ==
    ASSUME NEW S, IsFiniteSet(S), NEW f, NEW g, \A s \in S : f[s] \in Nat /\ g[s] \in Nat,
           NEW x \in S, g[x] = f[x] + 1, \A s \in S \ {x} : g[s] = f[s]
    PROVE  SumFunctionOnSet(g, S) = SumFunctionOnSet(f, S) + 1
<1>1. IsFiniteSet(S \ {x})
  BY FS_Subset
<1>2. SumFunctionOnSet(g, S \ {x}) = SumFunctionOnSet(f, S \ {x})
  BY <1>1, SumAgrees
<1>3. SumFunctionOnSet(f, S \ {x}) \in Nat
  BY <1>1, SumNat
<1>4. /\ SumFunctionOnSet(f, S) = f[x] + SumFunctionOnSet(f, S \ {x})
      /\ SumFunctionOnSet(g, S) = g[x] + SumFunctionOnSet(g, S \ {x})
  BY SumRemove
<1>. QED
  BY <1>2, <1>3, <1>4

LEMMA SumMonotone ==
    ASSUME NEW S, IsFiniteSet(S), NEW f, NEW g,
           \A s \in S : f[s] \in Nat /\ g[s] \in Nat /\ f[s] <= g[s]
    PROVE  SumFunctionOnSet(f, S) <= SumFunctionOnSet(g, S)
<1>. DEFINE P == {s \in SUBSET S : SumFunctionOnSet(f, s) <= SumFunctionOnSet(g, s)}
<1>1. ASSUME NEW T \in SUBSET S, \A U \in SUBSET T : U # T => U \in P
      PROVE  T \in P
  <2>1. CASE T = {}
    BY <2>1, SumEmpty
  <2>2. CASE T # {}
    <3>1. IsFiniteSet(T) /\ IsFiniteSet(T \ {AnyOf(T)})
      BY FS_Subset
    <3>2. /\ AnyOf(T) \in T
          /\ SumFunctionOnSet(f, T) = f[AnyOf(T)] + SumFunctionOnSet(f, T \ {AnyOf(T)})
          /\ SumFunctionOnSet(g, T) = g[AnyOf(T)] + SumFunctionOnSet(g, T \ {AnyOf(T)})
      BY <2>2, <3>1, SumUnfolds
    <3>3. SumFunctionOnSet(f, T \ {AnyOf(T)}) <= SumFunctionOnSet(g, T \ {AnyOf(T)})
      BY <1>1, <3>2
    <3>4. /\ SumFunctionOnSet(f, T \ {AnyOf(T)}) \in Nat
          /\ SumFunctionOnSet(g, T \ {AnyOf(T)}) \in Nat
      BY <3>1, SumNat
    <3>. QED
      BY <3>2, <3>3, <3>4
  <2>. QED
    BY <2>1, <2>2
<1>. HIDE DEF P
<1>2. S \in P
  BY <1>1, SubsetInduction
<1>. QED
  BY <1>2 DEF P
LEMMA SumZeros ==
    ASSUME NEW f, NEW S, IsFiniteSet(S), \A s \in S : f[s] \in Nat,
           NEW T \in SUBSET S, \A s \in S \ T : f[s] = 0
    PROVE  SumFunctionOnSet(f, S) = SumFunctionOnSet(f, T)
<1>. DEFINE R == S \ T
            P == {U \in SUBSET R : SumFunctionOnSet(f, T \cup U) = SumFunctionOnSet(f, T)}
<1>1. ASSUME NEW U \in SUBSET R, \A V \in SUBSET U : V # U => V \in P
      PROVE  SumFunctionOnSet(f, T \cup U) = SumFunctionOnSet(f, T)
  <2>1. CASE U = {}
    <3>1. T \cup U = T
      BY <2>1
    <3>. QED
      BY <3>1
  <2>2. CASE U # {}
    <3>1. PICK x \in U : TRUE
      BY <2>2
    <3>2. /\ IsFiniteSet(T \cup U) /\ IsFiniteSet(T)
          /\ x \in T \cup U
          /\ (T \cup U) \ {x} = T \cup (U \ {x})
          /\ f[x] = 0
      <4>1. T \cup U \in SUBSET S
        OBVIOUS
      <4>. QED
        BY <4>1, FS_Subset
    <3>3. SumFunctionOnSet(f, T \cup (U \ {x})) = SumFunctionOnSet(f, T)
      BY <1>1
    <3>4. SumFunctionOnSet(f, T) \in Nat
      BY <3>2, SumNat
    <3>5. SumFunctionOnSet(f, T \cup U) = f[x] + SumFunctionOnSet(f, (T \cup U) \ {x})
      BY <3>2, SumRemove
    <3>6. SumFunctionOnSet(f, T \cup U) = f[x] + SumFunctionOnSet(f, T)
      BY <3>2, <3>3, <3>5
    <3>. QED
      BY <3>2, <3>4, <3>6
  <2>. QED
    BY <2>1, <2>2
<1>2. IsFiniteSet(R)
  BY FS_Subset
<1>3. \A U \in SUBSET R : (\A V \in SUBSET U : V # U => V \in P) => U \in P
  BY <1>1
<1>4. T \cup R = S
  OBVIOUS
<1>. HIDE DEF P, R
<1>5. R \in P
  BY <1>2, <1>3, SubsetInduction
<1>. QED
  BY <1>4, <1>5 DEF P

(***************************************************************************)
(* Finitely many entries, with their types.                                *)
(***************************************************************************)
Kept(e) == Entries(e) /\ IsFiniteSet(DOMAIN e)

LEMMA CountNat ==
    ASSUME NEW e, Entries(e), NEW s \in Counters
    PROVE  CountOf(e, s) \in Nat
BY DEF Entries, CountOf, Counters, Timers

LEMMA SumOver ==
    ASSUME NEW e, Kept(e), NEW X \in SUBSET Counters, NEW D, IsFiniteSet(D), DOMAIN e \subseteq D
    PROVE  SumOf(e, X) = SumFunctionOnSet([s \in X \cap D |-> CountOf(e, s)], X \cap D)
<1>. DEFINE S == X \cap D
            T == X \cap DOMAIN e
            f == [s \in S |-> CountOf(e, s)]
<1>1. IsFiniteSet(S) /\ IsFiniteSet(T) /\ T \in SUBSET S
  BY FS_Subset, FS_Intersection DEF Kept
<1>2. \A s \in S : f[s] \in Nat
  BY CountNat DEF Kept
<1>3. \A s \in S \ T : f[s] = 0
  BY DEF CountOf
<1>4. \A s \in T : e[s] = f[s]
  BY DEF CountOf
<1>. HIDE DEF f, S, T
<1>5. SumFunctionOnSet(f, S) = SumFunctionOnSet(f, T)
  BY <1>1, <1>2, <1>3, SumZeros
<1>6. SumFunctionOnSet(e, T) = SumFunctionOnSet(f, T)
  BY <1>1, <1>4, SumAgrees
<1>. QED
  BY <1>5, <1>6 DEF SumOf, S, T, f

(***************************************************************************)
(* How the sum follows the counts of its series.                           *)
(***************************************************************************)
LEMMA SumOfNat ==
    ASSUME NEW e, Kept(e), NEW X \in SUBSET Counters
    PROVE  SumOf(e, X) \in Nat
<1>1. IsFiniteSet(X \cap DOMAIN e)
  BY FS_Subset DEF Kept
<1>2. \A s \in X \cap DOMAIN e : e[s] \in Nat
  BY CountNat DEF Kept, CountOf
<1>. QED
  BY <1>1, <1>2, SumNat DEF SumOf

LEMMA SumOfAgrees ==
    ASSUME NEW e, Kept(e), NEW g, Kept(g), NEW X \in SUBSET Counters,
           \A s \in X : CountOf(g, s) = CountOf(e, s)
    PROVE  SumOf(g, X) = SumOf(e, X)
<1>. DEFINE D == DOMAIN e \cup DOMAIN g
<1>1. IsFiniteSet(D) /\ DOMAIN e \subseteq D /\ DOMAIN g \subseteq D
  BY FS_Union DEF Kept
<1>2. [s \in X \cap D |-> CountOf(g, s)] = [s \in X \cap D |-> CountOf(e, s)]
  OBVIOUS
<1>. HIDE DEF D
<1>3. /\ SumOf(e, X) = SumFunctionOnSet([s \in X \cap D |-> CountOf(e, s)], X \cap D)
      /\ SumOf(g, X) = SumFunctionOnSet([s \in X \cap D |-> CountOf(g, s)], X \cap D)
  BY <1>1, SumOver
<1>. QED
  BY <1>2, <1>3

LEMMA SumOfMonotone ==
    ASSUME NEW e, Kept(e), NEW g, Kept(g), NEW X \in SUBSET Counters,
           \A s \in X : CountOf(e, s) <= CountOf(g, s)
    PROVE  SumOf(e, X) <= SumOf(g, X)
<1>. DEFINE D == DOMAIN e \cup DOMAIN g
            old == [s \in X \cap D |-> CountOf(e, s)]
            new == [s \in X \cap D |-> CountOf(g, s)]
<1>1. IsFiniteSet(D) /\ DOMAIN e \subseteq D /\ DOMAIN g \subseteq D
  BY FS_Union DEF Kept
<1>2. IsFiniteSet(X \cap D)
  BY <1>1, FS_Subset
<1>3. \A s \in X \cap D : old[s] \in Nat /\ new[s] \in Nat /\ old[s] <= new[s]
  BY CountNat DEF Kept
<1>4. SumOf(e, X) = SumFunctionOnSet(old, X \cap D) /\ SumOf(g, X) = SumFunctionOnSet(new, X \cap D)
  <2>. HIDE DEF D
  <2>1. SumOf(e, X) = SumFunctionOnSet(old, X \cap D)
    BY <1>1, SumOver
  <2>2. SumOf(g, X) = SumFunctionOnSet(new, X \cap D)
    BY <1>1, SumOver
  <2>. QED
    BY <2>1, <2>2
<1>. HIDE DEF D, old, new
<1>. QED
  BY <1>2, <1>3, <1>4, SumMonotone

LEMMA SumOfIncremented ==
    ASSUME NEW e, Kept(e), NEW g, Kept(g), NEW X \in SUBSET Counters,
           NEW t \in X, t \in DOMAIN e,
           \A s \in X : CountOf(g, s) = IF s = t THEN CountOf(e, s) + 1 ELSE CountOf(e, s)
    PROVE  SumOf(g, X) = SumOf(e, X) + 1
<1>. DEFINE D == DOMAIN e \cup DOMAIN g
            old == [s \in X \cap D |-> CountOf(e, s)]
            new == [s \in X \cap D |-> CountOf(g, s)]
<1>1. IsFiniteSet(D) /\ DOMAIN e \subseteq D /\ DOMAIN g \subseteq D /\ t \in D
  BY FS_Union DEF Kept
<1>2. IsFiniteSet(X \cap D)
  BY <1>1, FS_Subset
<1>3. \A s \in X \cap D : old[s] \in Nat /\ new[s] \in Nat
  BY CountNat DEF Kept
<1>4. t \in X \cap D /\ new[t] = old[t] + 1 /\ \A s \in (X \cap D) \ {t} : new[s] = old[s]
  BY <1>1
<1>5. SumOf(e, X) = SumFunctionOnSet(old, X \cap D) /\ SumOf(g, X) = SumFunctionOnSet(new, X \cap D)
  <2>. HIDE DEF D
  <2>1. SumOf(e, X) = SumFunctionOnSet(old, X \cap D)
    BY <1>1, SumOver
  <2>2. SumOf(g, X) = SumFunctionOnSet(new, X \cap D)
    BY <1>1, SumOver
  <2>. QED
    BY <2>1, <2>2
<1>. HIDE DEF D, old, new
<1>. QED
  BY <1>2, <1>3, <1>4, <1>5, SumIncremented

-------------------------------------------------------------------------------
(***************************************************************************)
(* What a request may still have to count.  It begins with its result, if  *)
(* it has one, or with itself and fails at the end; a request of a route   *)
(* that is not judged may do neither.                                      *)
(***************************************************************************)
Results(r) ==
    CASE r = "evaluate" -> {"evaluations"} \X {"on", "off"}
      [] r = "convert"  -> {"conversions"} \X Variants
      [] OTHER          -> ({"exposures"} \X Variants) \cup {<<"evaluations", "created">>}

Itself(r)    == <<<<"requests", r>>, <<"latency", r>>>>
Unsuccessful(r)  == <<<<"requests", r>>, <<"latency", r>>, <<"errors", r>>>>

Starts(r) == {<<o, <<"requests", r>>, <<"latency", r>>>> : o \in Results(r)}
             \cup {Unsuccessful(r)} \cup (IF r \in Judged THEN {} ELSE {Itself(r)})

Rests(r) == {Itself(r), <<<<"latency", r>>>>, <<<<"latency", r>>, <<"errors", r>>>>,
             <<<<"errors", r>>>>}

Shapes == {<<>>} \cup UNION {Starts(r) \cup Rests(r) : r \in Routes}

(* the request itself is not counted yet                                   *)
Entering == UNION {Starts(r) \cup {Itself(r)} : r \in Routes}
(* it is, and its duration is not                                          *)
Timing(r) == {<<<<"latency", r>>>>, <<<<"latency", r>>, <<"errors", r>>>>}
(* its result is counted, the request is not                               *)
Ahead(r)  == {Itself(r)}
(* the request is counted, its failure is not                              *)
Behind(r) == {<<<<"latency", r>>, <<"errors", r>>>>, <<<<"errors", r>>>>}

(* how many clients are there                                              *)
In(rests, X) == Cardinality({c \in Clients : rests[c] \in X})

Requests(entries) == SumOf(entries, {"requests"} \X Routes)

(***************************************************************************)
(* The inductive invariant behind BooksBalance: the counts agree up to     *)
(* the clients that have counted one thing and not the other yet.          *)
(***************************************************************************)
Books ==
    /\ IsFiniteSet(DOMAIN registry)
    /\ \A c \in Clients : todo[c] \in Shapes
    /\ served = Requests(registry) + In(todo, Entering)
    /\ \A r \in Routes :
          CountOf(registry, <<"requests", r>>) = Timed(r) + In(todo, Timing(r))
    /\ \A r \in Judged :
          CountOf(registry, <<"requests", r>>) + In(todo, Ahead(r))
             = Accounted(registry, r) + In(todo, Behind(r))

(***************************************************************************)
(* What counting the first series of a shape does to the books.            *)
(***************************************************************************)
Has(X, q) == IF q \in X THEN 1 ELSE 0

Balances(s, q, p) ==
    /\ p \in Shapes
    /\ Has({"requests"} \X Routes, s) + Has(Entering, p) = Has(Entering, q)
    /\ \A r \in Routes : Has({<<"requests", r>>}, s) + Has(Timing(r), q)
                            = Has({<<"latency", r>>}, s) + Has(Timing(r), p)
    /\ \A r \in Judged : Has({<<"requests", r>>}, s) + Has(Ahead(r), p) + Has(Behind(r), q)
                            = Has(Results(r), s) + Has({<<"errors", r>>}, s)
                              + Has(Ahead(r), q) + Has(Behind(r), p)

LEMMA ShapeCases ==
    ASSUME NEW q \in Shapes
    PROVE  \/ q = <<>>
           \/ \E r \in Routes : q \in Starts(r) \cup Rests(r)
BY DEF Shapes

LEMMA EnteringIs ==
    ASSUME NEW q
    PROVE  q \in Entering <=> \E r \in Routes : q \in Starts(r) \/ q = Itself(r)
BY DEF Entering

LEMMA RestsShapes ==
    ASSUME NEW r \in Routes, NEW q \in Rests(r)
    PROVE  q \in Shapes
BY DEF Shapes

LEMMA StartBalances ==
    ASSUME NEW r \in Routes, NEW o \in Results(r)
    PROVE  Balances(o, <<o, <<"requests", r>>, <<"latency", r>>>>, Itself(r))
<1>. DEFINE q == <<o, <<"requests", r>>, <<"latency", r>>>>
<1>1. q \in Starts(r) /\ q \in Entering /\ Itself(r) \in Entering /\ Itself(r) \in Shapes
  BY EnteringIs, RestsShapes DEF Starts, Rests
<1>2. \A t \in Routes : q \notin Timing(t) /\ Itself(r) \notin Timing(t) /\ q \notin Ahead(t)
                        /\ q \notin Behind(t) /\ Itself(r) \notin Behind(t)
  BY DEF Timing, Ahead, Behind, Itself
<1>3. \A t \in Routes : Itself(r) \in Ahead(t) <=> t = r
  BY DEF Ahead, Itself
<1>4. o \notin {"requests"} \X Routes
      /\ \A t \in Routes : o # <<"requests", t>> /\ o # <<"latency", t>> /\ o # <<"errors", t>>
  BY DEF Results
<1>5. \A t \in Judged : o \in Results(t) <=> t = r
  BY DEF Results, Judged
<1>. QED
  BY <1>1, <1>2, <1>3, <1>4, <1>5 DEF Balances, Has, Judged, Routes

LEMMA FailingBalances ==
    ASSUME NEW r \in Routes
    PROVE  Balances(<<"requests", r>>, Unsuccessful(r), <<<<"latency", r>>, <<"errors", r>>>>)
<1>. DEFINE q == Unsuccessful(r)
            p == <<<<"latency", r>>, <<"errors", r>>>>
            s == <<"requests", r>>
<1>1. q \in Entering /\ p \in Shapes
  BY EnteringIs, RestsShapes DEF Starts, Rests
<1>2. p \notin Entering
  BY EnteringIs DEF Starts, Itself, Unsuccessful
<1>3. \A t \in Routes : q \notin Timing(t) /\ q \notin Ahead(t) /\ q \notin Behind(t)
                        /\ p \notin Ahead(t)
                        /\ (p \in Timing(t) <=> t = r) /\ (p \in Behind(t) <=> t = r)
  BY DEF Timing, Ahead, Behind, Itself, Unsuccessful
<1>4. s \in {"requests"} \X Routes
      /\ \A t \in Routes : (s = <<"requests", t>> <=> t = r) /\ s # <<"latency", t>>
                           /\ s # <<"errors", t>> /\ s \notin Results(t)
  BY DEF Results
<1>. QED
  BY <1>1, <1>2, <1>3, <1>4 DEF Balances, Has, Judged, Routes

LEMMA RestsBalance ==
    ASSUME NEW r \in Routes
    PROVE  /\ Balances(<<"requests", r>>, Itself(r), <<<<"latency", r>>>>)
           /\ Balances(<<"latency", r>>, <<<<"latency", r>>>>, <<>>)
           /\ Balances(<<"latency", r>>, <<<<"latency", r>>, <<"errors", r>>>>,
                       <<<<"errors", r>>>>)
           /\ Balances(<<"errors", r>>, <<<<"errors", r>>>>, <<>>)
<1>. DEFINE a == <<<<"latency", r>>>>
            b == <<<<"latency", r>>, <<"errors", r>>>>
            d == <<<<"errors", r>>>>
<1>1. a \in Shapes /\ <<>> \in Shapes /\ d \in Shapes
  BY RestsShapes DEF Rests, Shapes
<1>2. /\ Itself(r) \in Entering /\ a \notin Entering /\ b \notin Entering
      /\ d \notin Entering /\ <<>> \notin Entering
  BY EnteringIs DEF Starts, Itself, Unsuccessful
<1>3. \A t \in Routes :
         /\ (a \in Timing(t) <=> t = r) /\ (b \in Timing(t) <=> t = r) /\ d \notin Timing(t)
         /\ <<>> \notin Timing(t) /\ Itself(r) \notin Timing(t)
         /\ (Itself(r) \in Ahead(t) <=> t = r) /\ a \notin Ahead(t) /\ b \notin Ahead(t)
         /\ d \notin Ahead(t) /\ <<>> \notin Ahead(t)
         /\ (b \in Behind(t) <=> t = r) /\ (d \in Behind(t) <=> t = r)
         /\ a \notin Behind(t) /\ <<>> \notin Behind(t) /\ Itself(r) \notin Behind(t)
  BY DEF Timing, Ahead, Behind, Itself
<1>4. ASSUME NEW m \in {"requests", "latency", "errors"}
      PROVE  /\ <<m, r>> \in {"requests"} \X Routes <=> m = "requests"
             /\ \A t \in Routes : /\ (<<m, r>> = <<"requests", t>> <=> m = "requests" /\ t = r)
                                  /\ (<<m, r>> = <<"latency", t>> <=> m = "latency" /\ t = r)
                                  /\ (<<m, r>> = <<"errors", t>> <=> m = "errors" /\ t = r)
                                  /\ <<m, r>> \notin Results(t)
  BY DEF Results
<1>5. Balances(<<"requests", r>>, Itself(r), a)
  BY <1>1, <1>2, <1>3, <1>4 DEF Balances, Has, Judged, Routes
<1>6. Balances(<<"latency", r>>, a, <<>>)
  BY <1>1, <1>2, <1>3, <1>4 DEF Balances, Has, Judged, Routes
<1>7. Balances(<<"latency", r>>, b, d)
  BY <1>1, <1>2, <1>3, <1>4 DEF Balances, Has, Judged, Routes
<1>8. Balances(<<"errors", r>>, d, <<>>)
  BY <1>1, <1>2, <1>3, <1>4 DEF Balances, Has, Judged, Routes
<1>. QED
  BY <1>5, <1>6, <1>7, <1>8

LEMMA HeadBalances ==
    ASSUME NEW q \in Shapes, q # <<>>
    PROVE  Balances(Head(q), q, Tail(q))
<1>1. PICK r \in Routes : q \in Starts(r) \cup Rests(r)
  BY ShapeCases
<1>2. ASSUME NEW o \in Results(r), q = <<o, <<"requests", r>>, <<"latency", r>>>>
      PROVE  Balances(Head(q), q, Tail(q))
  <2>1. Head(q) = o /\ Tail(q) = Itself(r)
    BY <1>2 DEF Itself
  <2>. QED
    BY <1>2, <2>1, StartBalances
<1>3. CASE q = Unsuccessful(r)
  <2>1. Head(q) = <<"requests", r>> /\ Tail(q) = <<<<"latency", r>>, <<"errors", r>>>>
    BY <1>3 DEF Unsuccessful
  <2>. QED
    BY <1>3, <2>1, FailingBalances
<1>4. CASE q \in Rests(r)
  <2>1. CASE q = Itself(r)
    <3>1. Head(q) = <<"requests", r>> /\ Tail(q) = <<<<"latency", r>>>>
      BY <2>1 DEF Itself
    <3>. QED
      BY <2>1, <3>1, RestsBalance
  <2>2. CASE q = <<<<"latency", r>>>>
    <3>1. Head(q) = <<"latency", r>> /\ Tail(q) = <<>>
      BY <2>2
    <3>. QED
      BY <2>2, <3>1, RestsBalance
  <2>3. CASE q = <<<<"latency", r>>, <<"errors", r>>>>
    <3>1. Head(q) = <<"latency", r>> /\ Tail(q) = <<<<"errors", r>>>>
      BY <2>3
    <3>. QED
      BY <2>3, <3>1, RestsBalance
  <2>4. CASE q = <<<<"errors", r>>>>
    <3>1. Head(q) = <<"errors", r>> /\ Tail(q) = <<>>
      BY <2>4
    <3>. QED
      BY <2>4, <3>1, RestsBalance
  <2>. QED
    BY <1>4, <2>1, <2>2, <2>3, <2>4 DEF Rests
<1>5. q \in Rests(r) \/ q = Unsuccessful(r)
      \/ \E o \in Results(r) : q = <<o, <<"requests", r>>, <<"latency", r>>>>
  BY <1>1 DEF Starts, Rests
<1>. QED
  BY <1>2, <1>3, <1>4, <1>5

LEMMA StartsEnter ==
    ASSUME NEW r \in Routes, NEW q \in Starts(r)
    PROVE  /\ q \in Shapes
           /\ q \in Entering
           /\ \A t \in Routes : q \notin Timing(t) /\ q \notin Behind(t)
           /\ \A t \in Judged : q \notin Ahead(t)
<1>1. q \in Shapes /\ q \in Entering
  BY EnteringIs DEF Shapes
<1>2. CASE q = Unsuccessful(r)
  BY <1>1, <1>2 DEF Unsuccessful, Itself, Timing, Ahead, Behind
<1>3. CASE r \notin Judged /\ q = Itself(r)
  BY <1>1, <1>3 DEF Itself, Timing, Ahead, Behind
<1>4. ASSUME NEW o \in Results(r), q = <<o, <<"requests", r>>, <<"latency", r>>>>
      PROVE  \A t \in Routes : q \notin Timing(t) /\ q \notin Behind(t) /\ q \notin Ahead(t)
  BY <1>4 DEF Itself, Timing, Ahead, Behind
<1>. QED
  BY <1>1, <1>2, <1>3, <1>4 DEF Starts, Judged, Routes

LEMMA IdleNothing ==
    /\ <<>> \in Shapes
    /\ <<>> \notin Entering
    /\ \A t \in Routes : <<>> \notin Timing(t) /\ <<>> \notin Behind(t) /\ <<>> \notin Ahead(t)
BY EnteringIs DEF Shapes, Starts, Itself, Unsuccessful, Timing, Behind, Ahead

-------------------------------------------------------------------------------
(***************************************************************************)
(* The clients in some situation, when only one of them moves.             *)
(***************************************************************************)
LEMMA OneMoves ==
    ASSUME NEW A \in SUBSET Clients, NEW D \in SUBSET Clients, NEW c \in Clients,
           \A d \in Clients \ {c} : d \in A <=> d \in D
    PROVE  /\ Cardinality(A) \in Nat /\ Cardinality(D) \in Nat
           /\ Cardinality(D) + Has(A, c) = Cardinality(A) + Has(D, c)
<1>1. IsFiniteSet(A) /\ IsFiniteSet(D)
  BY ServingAssumption, FS_Subset
<1>2. Cardinality(A) \in Nat /\ Cardinality(D) \in Nat
  BY <1>1, FS_CardinalityType
<1>3. CASE c \in A /\ c \notin D
  <2>1. D = A \ {c}
    BY <1>3
  <2>2. Cardinality(D) = Cardinality(A) - 1
    BY <1>1, <1>3, <2>1, FS_RemoveElement
  <2>. QED
    BY <1>2, <1>3, <2>2 DEF Has
<1>4. CASE c \notin A /\ c \in D
  <2>1. A = D \ {c}
    BY <1>4
  <2>2. Cardinality(A) = Cardinality(D) - 1
    BY <1>1, <1>4, <2>1, FS_RemoveElement
  <2>. QED
    BY <1>2, <1>4, <2>2 DEF Has
<1>5. CASE c \in A <=> c \in D
  <2>1. A = D
    BY <1>5
  <2>. QED
    BY <1>2, <2>1 DEF Has
<1>. QED
  BY <1>2, <1>3, <1>4, <1>5

Observed(entries, r) ==
    LET s == <<"latency", r>> IN IF s \in DOMAIN entries THEN entries[s].total ELSE 0

LEMMA TimedTotal == \A r \in Routes : Timed(r) = Observed(registry, r)
BY DEF Timed, Observed

(***************************************************************************)
(* Finding or creating an entry changes no count.                          *)
(***************************************************************************)
LEMMA LookupCounts ==
    ASSUME TypeOK, IsFiniteSet(DOMAIN registry), NEW c \in Clients, WithLabelValues(c)
    PROVE  /\ Kept(registry) /\ Kept(registry')
           /\ \A s \in Counters : CountOf(registry', s) = CountOf(registry, s)
           /\ \A r \in Routes : Observed(registry', r) = Observed(registry, r)
<1>. DEFINE s == Head(todo[c])
            new == IF s \in Timers THEN NewHistogram ELSE 0
<1>1. s \in Series
  BY DEF WithLabelValues, TypeOK
<1>2. registry' = [t \in DOMAIN registry \cup {s} |->
                      IF t \in DOMAIN registry THEN registry[t] ELSE new]
  BY DEF WithLabelValues, LoadOrStore
<1>3. DOMAIN registry' = DOMAIN registry \cup {s}
  BY <1>2
<1>4. IsFiniteSet(DOMAIN registry')
  BY <1>3, FS_AddElement
<1>5. Entries(registry) /\ Entries(registry')
  BY WithLabelValuesTyped DEF TypeOK, Entries
<1>6. ASSUME NEW t \in Counters
      PROVE  CountOf(registry', t) = CountOf(registry, t)
  <2>1. t \notin Timers
    BY DEF Counters, Timers
  <2>. QED
    BY <1>2, <1>3, <2>1 DEF CountOf
<1>7. ASSUME NEW r \in Routes
      PROVE  Observed(registry', r) = Observed(registry, r)
  <2>1. <<"latency", r>> \in Timers
    BY DEF Timers
  <2>. QED
    BY <1>2, <1>3, <2>1 DEF Observed, NewHistogram
<1>. QED
  BY <1>4, <1>5, <1>6, <1>7 DEF Kept

LEMMA CountCounts ==
    ASSUME TypeOK, IsFiniteSet(DOMAIN registry), NEW c \in Clients, Count(c)
    PROVE  /\ Kept(registry) /\ Kept(registry')
           /\ Head(todo[c]) \in DOMAIN registry
           /\ \A s \in Counters : CountOf(registry', s) =
                 IF s = Head(todo[c]) THEN CountOf(registry, s) + 1 ELSE CountOf(registry, s)
           /\ \A r \in Routes : Observed(registry', r) =
                 IF <<"latency", r>> = Head(todo[c])
                 THEN Observed(registry, r) + 1 ELSE Observed(registry, r)
<1>. DEFINE s == Head(todo[c])
<1>1. s \in DOMAIN registry
  BY DEF Count, TypeOK
<1>2. Entries(registry) /\ Entries(registry')
  BY CountTyped DEF TypeOK, Entries
<1>3. CASE s \in Timers
  <2>1. PICK duration \in Durations :
             registry' = [registry EXCEPT ![s] = Observe(@, duration)]
    BY <1>3 DEF Count
  <2>2. Observe(registry[s], duration).total = registry[s].total + 1
    BY DEF Observe
  <2>3. DOMAIN registry' = DOMAIN registry
    BY <2>1
  <2>4. \A t \in Counters : t # s /\ CountOf(registry', t) = CountOf(registry, t)
    BY <1>3, <2>1, <2>3 DEF CountOf, Counters, Timers
  <2>. QED
    BY <1>1, <1>2, <2>1, <2>2, <2>3, <2>4 DEF Kept, Observed
<1>4. CASE s \notin Timers
  <2>1. registry' = [registry EXCEPT ![s] = @ + 1]
    BY <1>4 DEF Count
  <2>2. DOMAIN registry' = DOMAIN registry
    BY <2>1
  <2>3. \A r \in Routes : <<"latency", r>> # s /\ Observed(registry', r) = Observed(registry, r)
    BY <1>4, <2>1, <2>2 DEF Observed, Timers
  <2>. QED
    BY <1>1, <1>2, <2>1, <2>2, <2>3 DEF Kept, CountOf
<1>. QED
  BY <1>3, <1>4

LEMMA CounterNames ==
    /\ {"requests"} \X Routes \in SUBSET Counters
    /\ {"conversions"} \X Variants \in SUBSET Counters
    /\ <<"evaluations", "on">> \in Counters /\ <<"evaluations", "off">> \in Counters
    /\ \A r \in Routes : <<"requests", r>> \in Counters /\ <<"errors", r>> \in Counters
    /\ \A r \in Routes : <<"requests", r>> \in {"requests"} \X Routes
BY DEF Counters

LEMMA OutcomesNat ==
    ASSUME NEW e, Kept(e), NEW r \in Judged
    PROVE  Outcomes(e, r) \in Nat
BY CounterNames, CountNat, SumOfNat DEF Outcomes, Kept

LEMMA OutcomesAgree ==
    ASSUME NEW e, Kept(e), NEW g, Kept(g), \A s \in Counters : CountOf(g, s) = CountOf(e, s),
           NEW r \in Judged
    PROVE  Outcomes(g, r) = Outcomes(e, r)
BY CounterNames, SumOfAgrees DEF Outcomes

LEMMA OutcomesMonotone ==
    ASSUME NEW e, Kept(e), NEW g, Kept(g), NEW r \in Judged,
           \A s \in Results(r) : CountOf(e, s) <= CountOf(g, s)
    PROVE  Outcomes(e, r) <= Outcomes(g, r)
<1>1. CASE r = "evaluate"
  <2>1. /\ CountOf(e, <<"evaluations", "on">>) <= CountOf(g, <<"evaluations", "on">>)
        /\ CountOf(e, <<"evaluations", "off">>) <= CountOf(g, <<"evaluations", "off">>)
    BY <1>1 DEF Results
  <2>. QED
    BY <1>1, <2>1, CounterNames, CountNat DEF Outcomes, Kept
<1>2. CASE r # "evaluate"
  <2>1. \A s \in {"conversions"} \X Variants : CountOf(e, s) <= CountOf(g, s)
    BY <1>2 DEF Results, Judged
  <2>. QED
    BY <1>2, <2>1, CounterNames, SumOfMonotone DEF Outcomes
<1>. QED
  BY <1>1, <1>2

LEMMA OutcomesIncremented ==
    ASSUME NEW e, Kept(e), NEW g, Kept(g), NEW r \in Judged, NEW t \in DOMAIN e,
           \A s \in Counters :
              CountOf(g, s) = IF s = t THEN CountOf(e, s) + 1 ELSE CountOf(e, s)
    PROVE  Outcomes(g, r) = Outcomes(e, r) + Has(Results(r), t)
<1>1. CASE r = "evaluate"
  <2>1. t \in Results(r) <=> t = <<"evaluations", "on">> \/ t = <<"evaluations", "off">>
    BY <1>1 DEF Results
  <2>2. /\ CountOf(e, <<"evaluations", "on">>) \in Nat
        /\ CountOf(e, <<"evaluations", "off">>) \in Nat
    BY CounterNames, CountNat DEF Kept
  <2>. QED
    BY <1>1, <2>1, <2>2, CounterNames DEF Outcomes, Has
<1>2. CASE r # "evaluate"
  <2>. DEFINE X == {"conversions"} \X Variants
  <2>1. Results(r) = X /\ X \in SUBSET Counters
    BY <1>2, CounterNames DEF Results, Judged
  <2>2. Outcomes(g, r) = SumOf(g, X) /\ Outcomes(e, r) = SumOf(e, X)
    BY <1>2 DEF Outcomes
  <2>3. SumOf(e, X) \in Nat
    BY <2>1, SumOfNat
  <2>. HIDE DEF X
  <2>4. CASE t \in X
    <3>1. \A s \in X : CountOf(g, s) = IF s = t THEN CountOf(e, s) + 1 ELSE CountOf(e, s)
      BY <2>1
    <3>2. SumOf(g, X) = SumOf(e, X) + 1
      BY <2>1, <2>4, <3>1, SumOfIncremented
    <3>. QED
      BY <2>1, <2>2, <2>4, <3>2 DEF Has
  <2>5. CASE t \notin X
    <3>1. \A s \in X : CountOf(g, s) = CountOf(e, s)
      BY <2>1, <2>5
    <3>2. SumOf(g, X) = SumOf(e, X)
      BY <2>1, <3>1, SumOfAgrees
    <3>. QED
      BY <2>1, <2>2, <2>3, <2>5, <3>2 DEF Has
  <2>. QED
    BY <2>4, <2>5
<1>. QED
  BY <1>1, <1>2

(***************************************************************************)
(* How many clients are where, when one of them moves on.                  *)
(***************************************************************************)
LEMMA InChanges ==
    ASSUME NEW t, NEW u, NEW c \in Clients, \A d \in Clients \ {c} : u[d] = t[d], NEW X
    PROVE  /\ In(t, X) \in Nat /\ In(u, X) \in Nat
           /\ In(u, X) + Has(X, t[c]) = In(t, X) + Has(X, u[c])
<1>. DEFINE A == {d \in Clients : t[d] \in X}
            D == {d \in Clients : u[d] \in X}
<1>1. /\ A \in SUBSET Clients /\ D \in SUBSET Clients
      /\ \A d \in Clients \ {c} : d \in A <=> d \in D
      /\ c \in A <=> t[c] \in X
      /\ c \in D <=> u[c] \in X
  OBVIOUS
<1>2. In(t, X) = Cardinality(A) /\ In(u, X) = Cardinality(D)
  BY DEF In
<1>. HIDE DEF A, D
<1>3. /\ Cardinality(A) \in Nat /\ Cardinality(D) \in Nat
      /\ Cardinality(D) + Has(A, c) = Cardinality(A) + Has(D, c)
  BY <1>1, OneMoves
<1>4. Has(A, c) = Has(X, t[c]) /\ Has(D, c) = Has(X, u[c])
  BY <1>1 DEF Has
<1>. QED
  BY <1>2, <1>3, <1>4

LEMMA InNat ==
    ASSUME NEW t, NEW X
    PROVE  In(t, X) \in Nat
<1>1. IsFiniteSet({c \in Clients : t[c] \in X})
  BY ServingAssumption, FS_Subset
<1>. QED
  BY <1>1, FS_CardinalityType DEF In

LEMMA TodoMoves ==
    ASSUME NEW c \in Clients, \A d \in Clients \ {c} : todo'[d] = todo[d], NEW X
    PROVE  /\ In(todo, X) \in Nat /\ In(todo', X) \in Nat
           /\ In(todo', X) + Has(X, todo[c]) = In(todo, X) + Has(X, todo'[c])
<1>1. \A t, u : (\A d \in Clients \ {c} : u[d] = t[d])
                => In(u, X) + Has(X, t[c]) = In(t, X) + Has(X, u[c])
  BY InChanges
<1>2. In(todo, X) \in Nat /\ In(todo', X) \in Nat
  BY InNat
<1>. QED
  BY <1>1, <1>2

(***************************************************************************)
(* A request that begins.                                                  *)
(***************************************************************************)
LEMMA RequestBalances ==
    ASSUME TypeOK, Books, NEW c \in Clients, NEW r \in Routes, NEW p \in Starts(r),
           todo[c] = <<>>, todo' = [todo EXCEPT ![c] = p], served' = served + 1,
           registry' = registry
    PROVE  Books'
<1>1. /\ todo'[c] = p /\ \A d \in Clients \ {c} : todo'[d] = todo[d]
      /\ served \in Nat
  BY ServingAssumption DEF TypeOK
<1>2. ASSUME NEW X
      PROVE  /\ In(todo, X) \in Nat /\ In(todo', X) \in Nat
             /\ In(todo', X) + Has(X, <<>>) = In(todo, X) + Has(X, p)
  <2>1. /\ In(todo, X) \in Nat /\ In(todo', X) \in Nat
        /\ In(todo', X) + Has(X, todo[c]) = In(todo, X) + Has(X, todo'[c])
    BY <1>1, TodoMoves
  <2>. QED
    BY <1>1, <2>1
<1>3. ASSUME NEW d \in Clients
      PROVE  todo'[d] \in Shapes
  BY <1>1, StartsEnter DEF Books
<1>4. In(todo', Entering) = In(todo, Entering) + 1
  <2>1. p \in Entering /\ <<>> \notin Entering
    BY StartsEnter, IdleNothing
  <2>2. /\ In(todo', Entering) + Has(Entering, <<>>) = In(todo, Entering) + Has(Entering, p)
        /\ In(todo, Entering) \in Nat /\ In(todo', Entering) \in Nat
    BY <1>2
  <2>. QED
    BY <2>2, <2>1 DEF Has
<1>5. ASSUME NEW t \in Routes
      PROVE  /\ In(todo', Timing(t)) = In(todo, Timing(t))
             /\ In(todo', Behind(t)) = In(todo, Behind(t))
  <2>1. /\ p \notin Timing(t) /\ <<>> \notin Timing(t)
        /\ p \notin Behind(t) /\ <<>> \notin Behind(t)
    BY StartsEnter, IdleNothing
  <2>2. /\ In(todo', Timing(t)) + Has(Timing(t), <<>>) = In(todo, Timing(t)) + Has(Timing(t), p)
        /\ In(todo, Timing(t)) \in Nat /\ In(todo', Timing(t)) \in Nat
    BY <1>2
  <2>3. /\ In(todo', Behind(t)) + Has(Behind(t), <<>>) = In(todo, Behind(t)) + Has(Behind(t), p)
        /\ In(todo, Behind(t)) \in Nat /\ In(todo', Behind(t)) \in Nat
    BY <1>2
  <2>. QED
    BY <2>1, <2>2, <2>3 DEF Has
<1>6. ASSUME NEW t \in Judged
      PROVE  In(todo', Ahead(t)) = In(todo, Ahead(t)) /\ t \in Routes
  <2>1. t \in Routes /\ p \notin Ahead(t) /\ <<>> \notin Ahead(t)
    BY StartsEnter, IdleNothing DEF Judged, Routes
  <2>2. /\ In(todo', Ahead(t)) + Has(Ahead(t), <<>>) = In(todo, Ahead(t)) + Has(Ahead(t), p)
        /\ In(todo, Ahead(t)) \in Nat /\ In(todo', Ahead(t)) \in Nat
    BY <1>2
  <2>. QED
    BY <2>1, <2>2 DEF Has
<1>7. Kept(registry)
  BY DEF TypeOK, Kept, Books
<1>8. Requests(registry) \in Nat
  BY <1>7, CounterNames, SumOfNat DEF Requests
<1>9. served' = Requests(registry) + In(todo', Entering)
  BY <1>1, <1>2, <1>4, <1>8 DEF Books
<1>. QED
  BY <1>3, <1>5, <1>6, <1>9 DEF Books, Timed, Accounted, Outcomes, Requests

LEMMA ConcatOfThree ==
    ASSUME NEW a, NEW b, NEW d
    PROVE  <<a, b>> \o <<d>> = <<a, b, d>> /\ <<a>> \o <<b, d>> = <<a, b, d>>
<1>. DEFINE S == {a, b, d}
<1>1. /\ <<a, b>> \in Seq(S) /\ <<d>> \in Seq(S) /\ <<a>> \in Seq(S) /\ <<b, d>> \in Seq(S)
      /\ <<a, b, d>> \in Seq(S)
  OBVIOUS
<1>2. <<a, b>> \o <<d>> = <<a, b, d>>
  <2>1. <<a, b>> \o <<d>> \in Seq(S) /\ Len(<<a, b>> \o <<d>>) = 3
    BY <1>1, ConcatProperties
  <2>2. \A i \in 1 .. 3 : (<<a, b>> \o <<d>>)[i] = <<a, b, d>>[i]
    BY <1>1, ConcatProperties
  <2>. QED
    BY <1>1, <2>1, <2>2, SeqEqual
<1>3. <<a>> \o <<b, d>> = <<a, b, d>>
  <2>1. <<a>> \o <<b, d>> \in Seq(S) /\ Len(<<a>> \o <<b, d>>) = 3
    BY <1>1, ConcatProperties
  <2>2. \A i \in 1 .. 3 : (<<a>> \o <<b, d>>)[i] = <<a, b, d>>[i]
    BY <1>1, ConcatProperties
  <2>. QED
    BY <1>1, <2>1, <2>2, SeqEqual
<1>. QED
  BY <1>2, <1>3

(***************************************************************************)
(* What a request does is the beginning of a shape, and nothing else of    *)
(* the books.                                                              *)
(***************************************************************************)
LEMMA RequestStarts ==
    ASSUME NEW c \in Clients, NEW r \in Routes, NEW counts, NEW failed \in BOOLEAN,
           Request(c, r, counts, failed),
           \/ counts = <<>> /\ (failed \/ r \notin Judged)
           \/ ~ failed /\ \E o \in Results(r) : counts = <<o>>
    PROVE  \E p \in Starts(r) : todo' = [todo EXCEPT ![c] = p]
<1>1. CASE counts = <<>> /\ failed
  <2>1. counts \o Itself(r) \o <<<<"errors", r>>>> = Unsuccessful(r)
    <3>1. counts \o Itself(r) = Itself(r)
      BY <1>1 DEF Itself
    <3>. QED
      BY <3>1, ConcatOfThree DEF Itself, Unsuccessful
  <2>. QED
    BY <1>1, <2>1 DEF Request, Itself, Starts
<1>2. CASE counts = <<>> /\ ~ failed /\ r \notin Judged
  <2>1. counts \o Itself(r) \o <<>> = Itself(r)
    BY <1>2 DEF Itself
  <2>. QED
    BY <1>2, <2>1 DEF Request, Itself, Starts
<1>3. ASSUME NEW o \in Results(r), counts = <<o>>, ~ failed
      PROVE  \E p \in Starts(r) : todo' = [todo EXCEPT ![c] = p]
  <2>1. counts \o Itself(r) \o <<>> = <<o, <<"requests", r>>, <<"latency", r>>>>
    <3>. DEFINE q == <<o, <<"requests", r>>, <<"latency", r>>>>
    <3>1. counts \o Itself(r) = q
      BY <1>3, ConcatOfThree DEF Itself
    <3>2. q \o <<>> = q
      OBVIOUS
    <3>. QED
      BY <3>1, <3>2
  <2>. QED
    BY <1>3, <2>1 DEF Request, Itself, Starts
<1>. QED
  BY <1>1, <1>2, <1>3

LEMMA HandleStarts ==
    ASSUME TypeOK, NEW c \in Clients, Handle(c)
    PROVE  /\ \E r \in Routes : \E p \in Starts(r) : todo' = [todo EXCEPT ![c] = p]
           /\ todo[c] = <<>> /\ served' = served + 1
           /\ UNCHANGED <<registry, reading, page, late>>
<1>. DEFINE Started == /\ \E r \in Routes : \E p \in Starts(r) : todo' = [todo EXCEPT ![c] = p]
                       /\ todo[c] = <<>> /\ served' = served + 1
                       /\ UNCHANGED <<registry, reading, page, late>>
<1>1. ASSUME NEW r \in Routes, NEW counts, NEW failed \in BOOLEAN, Request(c, r, counts, failed),
             \/ counts = <<>> /\ (failed \/ r \notin Judged)
             \/ ~ failed /\ \E o \in Results(r) : counts = <<o>>
      PROVE  Started
  BY <1>1, RequestStarts DEF Request
<1>. HIDE DEF Started
<1>2. "evaluate" \in Routes /\ "variant" \in Routes /\ "convert" \in Routes /\ "settings" \in Routes
      /\ "variant" \notin Judged /\ "settings" \notin Judged
  BY DEF Routes, Judged
<1>3. ASSUME NEW ctx \in OfferedContexts, Evaluate(c, ctx)
      PROVE  Started
  <2>1. /\ <<"evaluations", "on">> \in Results("evaluate")
        /\ <<"evaluations", "off">> \in Results("evaluate")
    BY DEF Results
  <2>2. \/ Request(c, "evaluate", <<>>, TRUE)
        \/ \E o \in Results("evaluate") : Request(c, "evaluate", <<o>>, FALSE)
    BY <1>3, <2>1 DEF Evaluate
  <2>. QED
    BY <1>1, <1>2, <2>2
<1>4. ASSUME NEW user \in Users \cup {Anonymous}, GetVariant(c, user)
      PROVE  Started
  <2>1. CASE user = Anonymous \/ experiment = None
    <3>1. Request(c, "variant", <<>>, TRUE)
      BY <1>4, <2>1 DEF GetVariant
    <3>. QED
      BY <1>1, <1>2, <3>1
  <2>2. CASE ~ (user = Anonymous \/ experiment = None) /\ experiment = <<>>
    <3>1. Request(c, "variant", <<>>, FALSE)
      BY <1>4, <2>2 DEF GetVariant
    <3>. QED
      BY <1>1, <1>2, <3>1
  <2>3. CASE ~ (user = Anonymous \/ experiment = None) /\ experiment # <<>>
    <3>. DEFINE o == <<"exposures", AssignVariant(experiment, user)>>
    <3>1. Request(c, "variant", <<o>>, FALSE)
      BY <1>4, <2>3 DEF GetVariant
    <3>2. o \in Results("variant")
      BY <2>3, AssignedIsVariant DEF TypeOK, Results
    <3>. QED
      BY <1>1, <1>2, <3>1, <3>2
  <2>. QED
    BY <2>1, <2>2, <2>3
<1>5. ASSUME NEW variant \in Variants, RecordConversion(c, variant)
      PROVE  Started
  <2>1. <<"conversions", variant>> \in Results("convert")
    BY DEF Results
  <2>2. \/ Request(c, "convert", <<>>, TRUE)
        \/ \E o \in Results("convert") : Request(c, "convert", <<o>>, FALSE)
    BY <1>5, <2>1 DEF RecordConversion
  <2>. QED
    BY <1>1, <1>2, <2>2
<1>6. ASSUME NEW f \in OfferedFlags, CreateFlag(c, f)
      PROVE  Started
  <2>1. Request(c, "settings", <<<<"evaluations", "created">>>>, FALSE)
    BY <1>6 DEF CreateFlag
  <2>2. <<"evaluations", "created">> \in Results("settings")
    BY DEF Results
  <2>. QED
    BY <1>1, <1>2, <2>1, <2>2
<1>7. ASSUME \/ \E f \in OfferedFlags : UpdateFlag(c, f)
             \/ DeleteFlag(c)
             \/ \E e \in Experiments : CreateExperiment(c, e)
      PROVE  Started
  <2>1. Request(c, "settings", <<>>, FALSE)
    BY <1>7 DEF UpdateFlag, DeleteFlag, CreateExperiment
  <2>. QED
    BY <1>1, <1>2, <2>1
<1>8. ASSUME GetFlag(c)
      PROVE  Started
  <2>1. PICK failed \in BOOLEAN : Request(c, "settings", <<>>, failed)
    <3>1. (flag = None) \in BOOLEAN
      OBVIOUS
    <3>. QED
      BY <1>8, <3>1 DEF GetFlag
  <2>. QED
    BY <1>1, <1>2, <2>1
<1>9. ASSUME NEW route \in Routes, Refuse(c, route)
      PROVE  Started
  <2>1. Request(c, route, <<>>, TRUE)
    BY <1>9 DEF Refuse
  <2>. QED
    BY <1>1, <2>1
<1>10. Started
  BY <1>3, <1>4, <1>5, <1>6, <1>7, <1>8, <1>9 DEF Handle
<1>. QED
  BY <1>10 DEF Started

-------------------------------------------------------------------------------
LEMMA CountBalances ==
    ASSUME TypeOK, Books, NEW c \in Clients, Count(c)
    PROVE  Books'
<1>. DEFINE q == todo[c]
            s == Head(q)
            p == Tail(q)
<1>1. q \in Shapes /\ q # <<>> /\ IsFiniteSet(DOMAIN registry)
  BY DEF Books, Count, TypeOK
<1>2. Balances(s, q, p)
  BY <1>1, HeadBalances
<1>3. /\ todo'[c] = p /\ \A d \in Clients \ {c} : todo'[d] = todo[d]
      /\ served' = served
  BY DEF Count, TypeOK
<1>4. /\ Kept(registry) /\ Kept(registry') /\ s \in DOMAIN registry
      /\ \A t \in Counters : CountOf(registry', t) =
            IF t = s THEN CountOf(registry, t) + 1 ELSE CountOf(registry, t)
      /\ \A r \in Routes : Observed(registry', r) =
            IF <<"latency", r>> = s THEN Observed(registry, r) + 1 ELSE Observed(registry, r)
  BY <1>1, CountCounts
<1>5. \A t \in Counters : CountOf(registry, t) \in Nat
  BY <1>4, CountNat DEF Kept
<1>6. ASSUME NEW r \in Routes
      PROVE  Timed(r) = Observed(registry, r) /\ Timed(r)' = Observed(registry', r)
             /\ Observed(registry, r) \in Nat
  <2>1. <<"latency", r>> \in Timers
    BY DEF Timers
  <2>. QED
    BY <1>4, <2>1 DEF Timed, Observed, Kept, Entries, Histograms
<1>7. ASSUME NEW X
      PROVE  /\ In(todo, X) \in Nat /\ In(todo', X) \in Nat
             /\ In(todo', X) + Has(X, q) = In(todo, X) + Has(X, p)
  <2>1. /\ In(todo, X) \in Nat /\ In(todo', X) \in Nat
        /\ In(todo', X) + Has(X, todo[c]) = In(todo, X) + Has(X, todo'[c])
    BY <1>3, TodoMoves
  <2>. QED
    BY <1>3, <2>1
<1>. HIDE DEF q, s, p
<1>8. \A X, x : Has(X, x) \in {0, 1}
  BY DEF Has
<1>9. ASSUME NEW d \in Clients
      PROVE  todo'[d] \in Shapes
  BY <1>2, <1>3 DEF Balances, Books
<1>10. served' = Requests(registry') + In(todo', Entering)
  <2>. DEFINE R == {"requests"} \X Routes
  <2>1. R \in SUBSET Counters
    BY CounterNames
  <2>2. SumOf(registry, R) \in Nat
    BY <1>4, <2>1, SumOfNat
  <2>3. SumOf(registry', R) = SumOf(registry, R) + Has(R, s)
    <3>. HIDE DEF R
    <3>1. CASE s \in R
      BY <1>4, <2>1, <3>1, SumOfIncremented DEF Has
    <3>2. CASE s \notin R
      <4>1. \A t \in R : CountOf(registry', t) = CountOf(registry, t)
        BY <1>4, <2>1, <3>2
      <4>2. SumOf(registry', R) = SumOf(registry, R)
        BY <1>4, <2>1, <4>1, SumOfAgrees
      <4>. QED
        BY <2>2, <3>2, <4>2 DEF Has
    <3>. QED
      BY <3>1, <3>2
  <2>4. Has(R, s) + Has(Entering, p) = Has(Entering, q)
    BY <1>2 DEF Balances
  <2>5. /\ In(todo, Entering) \in Nat /\ In(todo', Entering) \in Nat
        /\ In(todo', Entering) + Has(Entering, q) = In(todo, Entering) + Has(Entering, p)
    BY <1>7
  <2>6. served = SumOf(registry, R) + In(todo, Entering)
    BY DEF Books, Requests
  <2>7. SumOf(registry', R) + In(todo', Entering) = SumOf(registry, R) + In(todo, Entering)
    <3>. HIDE DEF R
    <3>. QED
      BY <1>8, <2>2, <2>3, <2>4, <2>5
  <2>. QED
    BY <1>3, <2>6, <2>7 DEF Requests
<1>11. ASSUME NEW r \in Routes
       PROVE  CountOf(registry', <<"requests", r>>) = Timed(r)' + In(todo', Timing(r))
  <2>. DEFINE t == <<"requests", r>>
  <2>1. t \in Counters
    BY CounterNames
  <2>2. CountOf(registry', t) = CountOf(registry, t) + Has({t}, s)
    BY <1>4, <1>5, <2>1 DEF Has
  <2>3. Timed(r)' = Timed(r) + Has({<<"latency", r>>}, s)
    BY <1>4, <1>6 DEF Has
  <2>4. Has({t}, s) + Has(Timing(r), q) = Has({<<"latency", r>>}, s) + Has(Timing(r), p)
    BY <1>2 DEF Balances
  <2>5. /\ In(todo, Timing(r)) \in Nat /\ In(todo', Timing(r)) \in Nat
        /\ In(todo', Timing(r)) + Has(Timing(r), q) = In(todo, Timing(r)) + Has(Timing(r), p)
    BY <1>7
  <2>6. CountOf(registry, t) = Timed(r) + In(todo, Timing(r)) /\ Timed(r) \in Nat
    BY <1>6 DEF Books
  <2>7. CountOf(registry, t) \in Nat
    BY <1>5, <2>1
  <2>. HIDE DEF t
  <2>8. CountOf(registry', t) = Timed(r)' + In(todo', Timing(r))
    BY <1>8, <2>2, <2>3, <2>4, <2>5, <2>6, <2>7
  <2>. QED
    BY <2>8 DEF t
<1>12. ASSUME NEW r \in Judged
       PROVE  CountOf(registry', <<"requests", r>>) + In(todo', Ahead(r))
                 = Accounted(registry', r) + In(todo', Behind(r))
  <2>. DEFINE t == <<"requests", r>>
              e == <<"errors", r>>
  <2>1. r \in Routes /\ t \in Counters /\ e \in Counters
    BY CounterNames DEF Judged, Routes
  <2>2. CountOf(registry', t) = CountOf(registry, t) + Has({t}, s)
    BY <1>4, <1>5, <2>1 DEF Has
  <2>3. CountOf(registry', e) = CountOf(registry, e) + Has({e}, s)
    BY <1>4, <1>5, <2>1 DEF Has
  <2>4. Outcomes(registry', r) = Outcomes(registry, r) + Has(Results(r), s)
    BY <1>4, OutcomesIncremented
  <2>5. /\ Outcomes(registry, r) \in Nat
        /\ CountOf(registry, t) \in Nat /\ CountOf(registry, e) \in Nat
    BY <1>4, <1>5, <2>1, OutcomesNat
  <2>6. Has({t}, s) + Has(Ahead(r), p) + Has(Behind(r), q)
           = Has(Results(r), s) + Has({e}, s) + Has(Ahead(r), q) + Has(Behind(r), p)
    BY <1>2 DEF Balances
  <2>7. /\ In(todo, Ahead(r)) \in Nat /\ In(todo', Ahead(r)) \in Nat
        /\ In(todo', Ahead(r)) + Has(Ahead(r), q) = In(todo, Ahead(r)) + Has(Ahead(r), p)
    BY <1>7
  <2>8. /\ In(todo, Behind(r)) \in Nat /\ In(todo', Behind(r)) \in Nat
        /\ In(todo', Behind(r)) + Has(Behind(r), q) = In(todo, Behind(r)) + Has(Behind(r), p)
    BY <1>7
  <2>9. CountOf(registry, t) + In(todo, Ahead(r))
           = Outcomes(registry, r) + CountOf(registry, e) + In(todo, Behind(r))
    BY DEF Books, Accounted
  <2>. HIDE DEF t, e
  <2>10. CountOf(registry', t) + In(todo', Ahead(r))
            = Outcomes(registry', r) + CountOf(registry', e) + In(todo', Behind(r))
    BY <1>8, <2>2, <2>3, <2>4, <2>5, <2>6, <2>7, <2>8, <2>9
  <2>. QED
    BY <2>10 DEF Accounted, t, e
<1>. QED
  BY <1>4, <1>9, <1>10, <1>11, <1>12 DEF Books, Kept

LEMMA LookupBalances ==
    ASSUME TypeOK, Books, NEW c \in Clients, WithLabelValues(c)
    PROVE  Books'
<1>1. /\ Kept(registry) /\ Kept(registry')
      /\ \A s \in Counters : CountOf(registry', s) = CountOf(registry, s)
      /\ \A r \in Routes : Observed(registry', r) = Observed(registry, r)
  BY LookupCounts DEF Books
<1>2. todo' = todo /\ served' = served
  BY DEF WithLabelValues
<1>3. Requests(registry') = Requests(registry)
  BY <1>1, CounterNames, SumOfAgrees DEF Requests
<1>4. ASSUME NEW r \in Routes
      PROVE  /\ CountOf(registry', <<"requests", r>>) = CountOf(registry, <<"requests", r>>)
             /\ CountOf(registry', <<"errors", r>>) = CountOf(registry, <<"errors", r>>)
             /\ Timed(r)' = Timed(r)
  BY <1>1, CounterNames DEF Timed, Observed
<1>5. ASSUME NEW r \in Judged
      PROVE  Accounted(registry', r) = Accounted(registry, r)
  <2>1. r \in Routes
    BY DEF Judged, Routes
  <2>. QED
    BY <1>1, <1>4, <2>1, OutcomesAgree DEF Accounted
<1>6. Judged \subseteq Routes
  BY DEF Judged, Routes
<1>. QED
  BY <1>1, <1>2, <1>3, <1>4, <1>5, <1>6 DEF Books, Kept

LEMMA InitBalances == Init => Books
<1>. SUFFICES ASSUME Init
              PROVE  Books
  OBVIOUS
<1>1. DOMAIN registry = {} /\ \A c \in Clients : todo[c] = <<>>
  BY DEF Init
<1>2. ASSUME NEW X, <<>> \notin X
      PROVE  In(todo, X) = 0
  <2>1. {c \in Clients : todo[c] \in X} = {}
    BY <1>1, <1>2
  <2>. QED
    BY <2>1, FS_EmptySet DEF In
<1>3. \A s : CountOf(registry, s) = 0
  BY <1>1 DEF CountOf
<1>4. \A X : SumOf(registry, X) = 0
  <2>1. \A X : X \cap DOMAIN registry = {}
    BY <1>1
  <2>. QED
    BY <2>1, SumEmpty DEF SumOf
<1>5. served = Requests(registry) + In(todo, Entering)
  BY <1>2, <1>4, IdleNothing DEF Requests, Init
<1>6. ASSUME NEW r \in Routes
      PROVE  CountOf(registry, <<"requests", r>>) = Timed(r) + In(todo, Timing(r))
  BY <1>1, <1>2, <1>3, IdleNothing DEF Timed
<1>7. ASSUME NEW r \in Judged
      PROVE  CountOf(registry, <<"requests", r>>) + In(todo, Ahead(r))
                = Accounted(registry, r) + In(todo, Behind(r))
  <2>1. r \in Routes
    BY DEF Judged, Routes
  <2>2. In(todo, Ahead(r)) = 0 /\ In(todo, Behind(r)) = 0
    BY <1>2, <2>1, IdleNothing
  <2>3. Outcomes(registry, r) = 0
    BY <1>3, <1>4 DEF Outcomes
  <2>. QED
    BY <1>3, <2>2, <2>3 DEF Accounted
<1>8. IsFiniteSet(DOMAIN registry) /\ \A c \in Clients : todo[c] \in Shapes
  BY <1>1, FS_EmptySet, IdleNothing
<1>. QED
  BY <1>5, <1>6, <1>7, <1>8 DEF Books

LEMMA StepBalances == TypeOK /\ Books /\ [Next]_vars => Books'
<1>. SUFFICES ASSUME TypeOK, Books, [Next]_vars
              PROVE  Books'
  OBVIOUS
<1>1. ASSUME NEW c \in Clients, Handle(c)
      PROVE  Books'
  BY <1>1, HandleStarts, RequestBalances
<1>2. ASSUME NEW c \in Clients, WithLabelValues(c)
      PROVE  Books'
  BY <1>2, LookupBalances
<1>3. ASSUME NEW c \in Clients, Count(c)
      PROVE  Books'
  BY <1>3, CountBalances
<1>4. ASSUME \/ \E f \in OfferedFlags \cup {None} : SynchroniseFlags(f)
             \/ \E e \in Experiments \cup {None} : SynchroniseExperiments(e)
             \/ ReadMetric
             \/ ServePage
             \/ UNCHANGED vars
      PROVE  Books'
  <2>1. todo' = todo /\ registry' = registry /\ served' = served
    BY <1>4 DEF SynchroniseFlags, SynchroniseExperiments, ReadMetric, ServePage, vars
  <2>. QED
    BY <2>1 DEF Books, Timed
<1>. QED
  BY <1>1, <1>2, <1>3, <1>4 DEF Next

LEMMA BooksCorrect == Spec => [](TypeOK /\ Books)
<1>1. Init => TypeOK /\ Books
  BY InitTyped, InitBalances
<1>2. TypeOK /\ Books /\ [Next]_vars => (TypeOK /\ Books)'
  BY StepTyped, StepBalances
<1>. QED
  BY <1>1, <1>2, PTL DEF Spec

(***************************************************************************)
(* No count is lost, however requests overlap: when nothing is being       *)
(* served the books agree on every request.                                *)
(***************************************************************************)
THEOREM BooksSafe == Spec => []BooksBalance
<1>1. TypeOK /\ Books => BooksBalance
  <2>. SUFFICES ASSUME TypeOK, Books, \A c \in Clients : todo[c] = <<>>
                PROVE  /\ served = SumOf(registry, {"requests"} \X Routes)
                       /\ \A r \in Routes : CountOf(registry, <<"requests", r>>) = Timed(r)
                       /\ \A r \in Judged :
                             CountOf(registry, <<"requests", r>>) = Accounted(registry, r)
    BY DEF BooksBalance
  <2>1. ASSUME NEW X, <<>> \notin X
        PROVE  In(todo, X) = 0
    <3>1. {c \in Clients : todo[c] \in X} = {}
      BY <2>1
    <3>. QED
      BY <3>1, FS_EmptySet DEF In
  <2>2. Kept(registry)
    BY DEF TypeOK, Books, Kept
  <2>3. In(todo, Entering) = 0 /\ Requests(registry) \in Nat
    BY <2>1, <2>2, IdleNothing, CounterNames, SumOfNat DEF Requests
  <2>4. served = Requests(registry)
    BY <2>3 DEF Books
  <2>5. ASSUME NEW r \in Routes
        PROVE  CountOf(registry, <<"requests", r>>) = Timed(r)
    <3>1. In(todo, Timing(r)) = 0
      BY <2>1, IdleNothing
    <3>2. <<"latency", r>> \in Timers
      BY DEF Timers
    <3>3. Timed(r) \in Nat
      BY <2>2, <3>2 DEF Kept, Entries, Timed, Histograms
    <3>. QED
      BY <3>1, <3>3 DEF Books
  <2>6. ASSUME NEW r \in Judged
        PROVE  CountOf(registry, <<"requests", r>>) = Accounted(registry, r)
    <3>1. r \in Routes
      BY DEF Judged, Routes
    <3>2. In(todo, Ahead(r)) = 0 /\ In(todo, Behind(r)) = 0
      BY <2>1, <3>1, IdleNothing
    <3>3. CountOf(registry, <<"requests", r>>) \in Nat /\ Accounted(registry, r) \in Nat
      BY <2>2, <3>1, CounterNames, CountNat, OutcomesNat DEF Kept, Accounted
    <3>4. CountOf(registry, <<"requests", r>>) + In(todo, Ahead(r))
             = Accounted(registry, r) + In(todo, Behind(r))
      BY DEF Books
    <3>. QED
      BY <3>2, <3>3, <3>4
  <2>. QED
    BY <2>4, <2>5, <2>6 DEF Requests
<1>. QED
  BY <1>1, BooksCorrect, PTL

-------------------------------------------------------------------------------
(***************************************************************************)
(* The page shows the metrics written so far, and what came of the         *)
(* requests it shows is on it or, as long as that is not written, in the   *)
(* registry.                                                               *)
(***************************************************************************)
From(metric) == IF \E i \in 1 .. reading : allMetrics[i] = metric THEN page ELSE registry

Result(r) == IF r = "evaluate" THEN "evaluations" ELSE "conversions"

PageCovered ==
    /\ \A s \in DOMAIN page : \E i \in 1 .. reading : allMetrics[i] = s[1]
    /\ IsFiniteSet(DOMAIN page)
    /\ reading >= 1 => \A r \in Judged :
          CountOf(page, <<"requests", r>>)
             <= Outcomes(From(Result(r)), r) + CountOf(From("errors"), <<"errors", r>>) + late[r]

(***************************************************************************)
(* Reading a metric takes its counts from the registry to the page.        *)
(***************************************************************************)
LEMMA MetricsFacts ==
    /\ Len(allMetrics) = 6
    /\ \A i, j \in 1 .. 6 : allMetrics[i] = allMetrics[j] => i = j
    /\ allMetrics[1] = "requests"
BY DEF allMetrics

LEMMA FromKept ==
    ASSUME TypeOK, Books, PageCovered, NEW m
    PROVE  Kept(From(m))
BY DEF From, TypeOK, Books, PageCovered, Kept

LEMMA ReadKeeps ==
    ASSUME TypeOK, Books, PageCovered, ReadMetric
    PROVE  /\ IsFiniteSet(DOMAIN page')
           /\ \A s \in DOMAIN page' : \E i \in 1 .. reading' : allMetrics[i] = s[1]
           /\ \A s \in Counters : CountOf(From(s[1])', s) = CountOf(From(s[1]), s)
           /\ \A s \in Counters : s[1] # allMetrics[reading + 1]
                                    => CountOf(page', s) = CountOf(page, s)
<1>. DEFINE m == allMetrics[reading + 1]
            shown == {t \in DOMAIN registry : t[1] = m}
<1>1. /\ page' = [s \in DOMAIN page \cup shown |->
                     IF s \in DOMAIN page THEN page[s] ELSE registry[s]]
      /\ reading' = reading + 1 /\ registry' = registry
      /\ reading \in 0 .. 5
  BY MetricsFacts DEF ReadMetric, TypeOK
<1>2. DOMAIN page' = DOMAIN page \cup shown
  BY <1>1
<1>3. IsFiniteSet(DOMAIN page')
  <2>1. IsFiniteSet(shown) /\ IsFiniteSet(DOMAIN page)
    BY FS_Subset DEF Books, PageCovered
  <2>. HIDE DEF shown
  <2>2. IsFiniteSet(DOMAIN page \cup shown)
    BY <2>1, FS_Union
  <2>. QED
    BY <1>2, <2>2
<1>4. ASSUME NEW s \in DOMAIN page'
      PROVE  \E i \in 1 .. reading' : allMetrics[i] = s[1]
  BY <1>1, <1>2 DEF PageCovered
<1>5. \A s \in DOMAIN page : s[1] # m
  BY <1>1, MetricsFacts DEF PageCovered
<1>6. ASSUME NEW s, s[1] # m
      PROVE  CountOf(page', s) = CountOf(page, s)
  BY <1>1, <1>2, <1>6 DEF CountOf
<1>7. ASSUME NEW s, s[1] = m
      PROVE  CountOf(page', s) = CountOf(registry, s)
  BY <1>1, <1>2, <1>5, <1>7 DEF CountOf
<1>8. ASSUME NEW s \in Counters
      PROVE  CountOf(From(s[1])', s) = CountOf(From(s[1]), s)
  <2>1. CASE s[1] = m
    <3>1. From(s[1])' = page'
      BY <1>1, <2>1 DEF From
    <3>2. From(s[1]) = registry
      BY <1>1, <2>1, MetricsFacts DEF From
    <3>. QED
      BY <1>7, <2>1, <3>1, <3>2
  <2>2. CASE s[1] # m
    <3>1. (\E i \in 1 .. reading' : allMetrics[i] = s[1])
             <=> (\E i \in 1 .. reading : allMetrics[i] = s[1])
      BY <1>1, <2>2
    <3>2. From(s[1])' = IF \E i \in 1 .. reading : allMetrics[i] = s[1] THEN page' ELSE registry
      BY <1>1, <3>1 DEF From
    <3>. QED
      BY <1>6, <2>2, <3>2 DEF From
  <2>. QED
    BY <2>1, <2>2
<1>. QED
  BY <1>3, <1>4, <1>6, <1>8

LEMMA ResultsOf ==
    ASSUME NEW r \in Judged
    PROVE  /\ Results(r) \subseteq Counters
           /\ \A s \in Results(r) : s[1] = Result(r)
           /\ r \in Routes
           /\ <<"errors", r>> \in Counters /\ <<"errors", r>>[1] = "errors"
           /\ <<"requests", r>> \in Counters /\ <<"requests", r>>[1] = "requests"
BY DEF Results, Counters, Judged, Routes, Result

LEMMA OutcomesSame ==
    ASSUME NEW e, Kept(e), NEW g, Kept(g), NEW r \in Judged,
           \A s \in Results(r) : CountOf(g, s) = CountOf(e, s)
    PROVE  Outcomes(g, r) = Outcomes(e, r)
<1>1. \A s \in Results(r) : CountOf(g, s) \in Nat /\ CountOf(e, s) \in Nat
  BY ResultsOf, CountNat DEF Kept
<1>2. Outcomes(g, r) <= Outcomes(e, r) /\ Outcomes(e, r) <= Outcomes(g, r)
  BY <1>1, OutcomesMonotone
<1>. QED
  BY <1>2, OutcomesNat

(***************************************************************************)
(* Failures still to be counted are among those noted when the page is     *)
(* begun.                                                                  *)
(***************************************************************************)
LEMMA BehindFail ==
    ASSUME TypeOK, NEW r \in Routes
    PROVE  /\ Cardinality({c \in Clients : Failing(c, r)}) \in Nat
           /\ In(todo, Behind(r)) <= Cardinality({c \in Clients : Failing(c, r)})
<1>1. ASSUME NEW c \in Clients, todo[c] \in Behind(r)
      PROVE  Failing(c, r)
  <2>1. CASE todo[c] = <<<<"errors", r>>>>
    <3>1. Len(todo[c]) = 1 /\ todo[c][1] = <<"errors", r>>
      BY <2>1
    <3>. QED
      BY <3>1 DEF Failing
  <2>2. CASE todo[c] = <<<<"latency", r>>, <<"errors", r>>>>
    <3>1. Len(todo[c]) = 2 /\ todo[c][2] = <<"errors", r>>
      BY <2>2
    <3>. QED
      BY <3>1 DEF Failing
  <2>. QED
    BY <1>1, <2>1, <2>2 DEF Behind
<1>. DEFINE A == {c \in Clients : todo[c] \in Behind(r)}
            D == {c \in Clients : Failing(c, r)}
<1>2. IsFiniteSet(D) /\ A \in SUBSET D
  BY <1>1, ServingAssumption, FS_Subset
<1>. HIDE DEF A, D
<1>3. Cardinality(A) <= Cardinality(D) /\ Cardinality(D) \in Nat
  BY <1>2, FS_Subset, FS_CardinalityType
<1>. QED
  BY <1>3 DEF A, D, In

LEMMA ReadCovers ==
    ASSUME TypeOK, TypeOK', Books, Books', PageCovered, ReadMetric
    PROVE  PageCovered'
<1>1. /\ IsFiniteSet(DOMAIN page')
      /\ \A s \in DOMAIN page' : \E i \in 1 .. reading' : allMetrics[i] = s[1]
      /\ \A s \in Counters : CountOf(From(s[1])', s) = CountOf(From(s[1]), s)
      /\ \A s \in Counters : s[1] # allMetrics[reading + 1]
                                => CountOf(page', s) = CountOf(page, s)
  BY ReadKeeps
<1>2. reading' = reading + 1 /\ registry' = registry /\ reading \in 0 .. 5
  BY MetricsFacts DEF ReadMetric, TypeOK
<1>3. ASSUME NEW m
      PROVE  Kept(From(m)) /\ Kept(From(m)')
  <2>1. Kept(From(m))
    BY FromKept
  <2>2. Kept(page') /\ Kept(registry')
    BY <1>1 DEF Kept, TypeOK, Books, Entries
  <2>. QED
    BY <2>1, <2>2 DEF From
<1>4. ASSUME NEW r \in Judged
      PROVE  /\ Outcomes(From(Result(r))', r) = Outcomes(From(Result(r)), r)
             /\ CountOf(From("errors")', <<"errors", r>>) = CountOf(From("errors"), <<"errors", r>>)
  <2>1. \A s \in Results(r) : CountOf(From(Result(r))', s) = CountOf(From(Result(r)), s)
    BY <1>1, ResultsOf
  <2>2. Outcomes(From(Result(r))', r) = Outcomes(From(Result(r)), r)
    BY <1>3, <2>1, OutcomesSame
  <2>. QED
    BY <1>1, <2>2, ResultsOf
<1>5. ASSUME NEW r \in Judged
      PROVE  CountOf(page', <<"requests", r>>)
                <= Outcomes(From(Result(r)), r) + CountOf(From("errors"), <<"errors", r>>)
                   + late'[r]
  <2>1. CASE reading = 0
    <3>1. From(Result(r)) = registry /\ From("errors") = registry
      BY <2>1 DEF From
    <3>2. CountOf(page', <<"requests", r>>) = CountOf(registry, <<"requests", r>>)
      <4>1. From("requests")' = page' /\ From("requests") = registry
        BY <1>2, <2>1, MetricsFacts DEF From
      <4>2. CountOf(From("requests")', <<"requests", r>>)
               = CountOf(From("requests"), <<"requests", r>>)
        BY <1>1, ResultsOf
      <4>. QED
        BY <4>1, <4>2
    <3>3. late'[r] = Cardinality({c \in Clients : Failing(c, r)})
      BY <2>1 DEF ReadMetric
    <3>4. /\ Cardinality({c \in Clients : Failing(c, r)}) \in Nat
          /\ In(todo, Behind(r)) <= Cardinality({c \in Clients : Failing(c, r)})
          /\ In(todo, Behind(r)) \in Nat /\ In(todo, Ahead(r)) \in Nat
      BY ResultsOf, BehindFail, InNat
    <3>5. CountOf(registry, <<"requests", r>>) + In(todo, Ahead(r))
             = Outcomes(registry, r) + CountOf(registry, <<"errors", r>>) + In(todo, Behind(r))
      BY DEF Books, Accounted
    <3>6. Kept(registry)
      BY DEF Kept, TypeOK, Books
    <3>7. /\ CountOf(registry, <<"requests", r>>) \in Nat
          /\ CountOf(registry, <<"errors", r>>) \in Nat
          /\ Outcomes(registry, r) \in Nat
      BY <3>6, ResultsOf, CountNat, OutcomesNat DEF Kept
    <3>. QED
      BY <3>1, <3>2, <3>3, <3>4, <3>5, <3>7
  <2>2. CASE reading # 0
    <3>1. "requests" # allMetrics[reading + 1]
      BY <1>2, <2>2, MetricsFacts
    <3>2. CountOf(page', <<"requests", r>>) = CountOf(page, <<"requests", r>>)
      BY <1>1, <3>1, ResultsOf
    <3>3. late' = late /\ reading >= 1
      BY <1>2, <2>2 DEF ReadMetric
    <3>. QED
      BY <3>2, <3>3 DEF PageCovered
  <2>. QED
    BY <2>1, <2>2
<1>. QED
  BY <1>1, <1>4, <1>5 DEF PageCovered

(***************************************************************************)
(* Counts of the registry only grow, which leaves the page covered.        *)
(***************************************************************************)
LEMMA GrowthCovers ==
    ASSUME TypeOK, TypeOK', Books, Books', PageCovered,
           \A s \in Counters : CountOf(registry, s) <= CountOf(registry', s),
           UNCHANGED <<reading, page, late>>
    PROVE  PageCovered'
<1>1. ASSUME NEW m
      PROVE  /\ Kept(From(m)) /\ Kept(From(m)')
             /\ \A s \in Counters : CountOf(From(m), s) <= CountOf(From(m)', s)
  <2>1. Kept(From(m))
    BY FromKept
  <2>2. Kept(page) /\ Kept(registry')
    BY DEF Kept, TypeOK, Books, PageCovered, Entries
  <2>3. From(m)' = IF \E i \in 1 .. reading : allMetrics[i] = m THEN page ELSE registry'
    BY DEF From
  <2>4. \A s \in Counters : CountOf(page, s) \in Nat
    BY <2>2, CountNat DEF Kept
  <2>. QED
    BY <2>1, <2>2, <2>3, <2>4 DEF From
<1>2. ASSUME NEW r \in Judged, reading' >= 1
      PROVE  CountOf(page', <<"requests", r>>)
                <= Outcomes(From(Result(r))', r) + CountOf(From("errors")', <<"errors", r>>)
                   + late'[r]
  <2>1. Outcomes(From(Result(r)), r) <= Outcomes(From(Result(r))', r)
    BY <1>1, ResultsOf, OutcomesMonotone
  <2>2. CountOf(From("errors"), <<"errors", r>>) <= CountOf(From("errors")', <<"errors", r>>)
    BY <1>1, ResultsOf
  <2>3. /\ Outcomes(From(Result(r)), r) \in Nat /\ Outcomes(From(Result(r))', r) \in Nat
        /\ CountOf(From("errors"), <<"errors", r>>) \in Nat
        /\ CountOf(From("errors")', <<"errors", r>>) \in Nat
        /\ late[r] \in Nat
        /\ CountOf(page, <<"requests", r>>) \in Nat
    BY <1>1, ResultsOf, OutcomesNat, CountNat DEF Kept, TypeOK
  <2>4. CountOf(page, <<"requests", r>>)
           <= Outcomes(From(Result(r)), r) + CountOf(From("errors"), <<"errors", r>>) + late[r]
    BY <1>2 DEF PageCovered
  <2>5. page' = page /\ late' = late
    OBVIOUS
  <2>. QED
    BY <2>1, <2>2, <2>3, <2>4, <2>5
<1>. QED
  BY <1>2 DEF PageCovered

LEMMA StepCovers ==
    TypeOK /\ TypeOK' /\ Books /\ Books' /\ PageCovered /\ [Next]_vars => PageCovered'
<1>. SUFFICES ASSUME TypeOK, TypeOK', Books, Books', PageCovered, [Next]_vars
              PROVE  PageCovered'
  OBVIOUS
<1>1. \A s \in Counters : CountOf(registry, s) \in Nat
  BY CountNat DEF TypeOK
<1>2. ASSUME NEW c \in Clients, WithLabelValues(c)
      PROVE  PageCovered'
  <2>1. \A s \in Counters : CountOf(registry', s) = CountOf(registry, s)
    BY <1>2, LookupCounts DEF Books
  <2>2. UNCHANGED <<reading, page, late>>
    BY <1>2 DEF WithLabelValues
  <2>. QED
    BY <1>1, <2>1, <2>2, GrowthCovers
<1>3. ASSUME NEW c \in Clients, Count(c)
      PROVE  PageCovered'
  <2>1. \A s \in Counters : CountOf(registry', s) =
           IF s = Head(todo[c]) THEN CountOf(registry, s) + 1 ELSE CountOf(registry, s)
    BY <1>3, CountCounts DEF Books
  <2>2. UNCHANGED <<reading, page, late>>
    BY <1>3 DEF Count
  <2>. QED
    BY <1>1, <2>1, <2>2, GrowthCovers
<1>4. ASSUME \/ \E c \in Clients : Handle(c)
             \/ \E f \in OfferedFlags \cup {None} : SynchroniseFlags(f)
             \/ \E e \in Experiments \cup {None} : SynchroniseExperiments(e)
             \/ UNCHANGED vars
      PROVE  PageCovered'
  <2>1. UNCHANGED <<registry, reading, page, late>>
    BY <1>4, HandleStarts DEF SynchroniseFlags, SynchroniseExperiments, vars
  <2>. QED
    BY <1>1, <2>1, GrowthCovers
<1>5. ASSUME ReadMetric
      PROVE  PageCovered'
  BY <1>5, ReadCovers
<1>6. ASSUME ServePage
      PROVE  PageCovered'
  <2>1. reading' = 0 /\ DOMAIN page' = {}
    BY <1>6 DEF ServePage
  <2>. QED
    BY <2>1, FS_EmptySet DEF PageCovered
<1>. QED
  BY <1>2, <1>3, <1>4, <1>5, <1>6 DEF Next

(***************************************************************************)
(* A scraper never sees requests without what came of them, but failures   *)
(* that were not counted when the page was begun.                          *)
(***************************************************************************)
THEOREM PageSafe == Spec => []PageAccounts
<1>1. Init => PageCovered
  BY FS_EmptySet DEF Init, PageCovered
<1>2. TypeOK /\ Books /\ PageCovered => PageAccounts
  <2>. SUFFICES ASSUME TypeOK, Books, PageCovered, reading = Len(allMetrics), NEW r \in Judged
                PROVE  CountOf(page, <<"requests", r>>) <= Accounted(page, r) + late[r]
    BY DEF PageAccounts
  <2>1. reading = 6
    BY MetricsFacts
  <2>2. /\ allMetrics[2] = "errors" /\ allMetrics[5] = "conversions"
        /\ allMetrics[6] = "evaluations"
    BY DEF allMetrics
  <2>3. From("errors") = page /\ From("evaluations") = page /\ From("conversions") = page
    BY <2>1, <2>2 DEF From
  <2>4. From(Result(r)) = page
    BY <2>3 DEF Result
  <2>. QED
    BY <2>1, <2>3, <2>4 DEF PageCovered, Accounted
<1>. QED
  BY <1>1, <1>2, BooksCorrect, StepCovers, PTL DEF Spec
===============================================================================
