----------------------------- MODULE PeriodViews -----------------------------
(***************************************************************************)
(* What chat, its preview and the incident timeline show of a period: the  *)
(* averages of the metrics per time bucket for the hosts with the highest  *)
(* peaks, the events per bucket and type, and the timeline of both with    *)
(* the triggers found in them.  Samples and events go on being stored      *)
(* between the statements of one request.                                  *)
(*                                                                         *)
(* Hosts (the moid of an entity) and event types are numbers in the order  *)
(* of their names; an average is a sum and a count.                        *)
(***************************************************************************)
EXTENDS Integers, Sequences, FiniteSets, FiniteSetsExt, SequencesExt

CONSTANTS
    SampleRows,   \* samples of the metrics: [vc, host, key, at, value]
    EventRows,    \* events: [id, vc, type, at, score]
    LateRows,     \* those of both that are stored while a request runs
    Views,        \* requests: [from, to, vc, minScore, metrics, threshold, topAlerts]
    AnyVcenter,   \* no vcenter_id in the request
    KeysOf,       \* category -> its metric keys
    Horizons, BucketWidths,  \* duration up to which a width is taken
    MaxBuckets, MaxHosts, MaxTypes, AlertTop, MaxVisible, MaxRows,
    MaxRaw, MaxGroups, MaxTop,   \* limits of the digest context
    Burst, BreachLevel           \* 10 events in a bucket, 90 percent

\* A row of metric_samples.
MetricSample ==
    [vc : Nat, host : Nat, key : UNION {KeysOf[c] : c \in DOMAIN KeysOf}, at : Int, value : Int]

ASSUME PeriodAssumption ==
    /\ SampleRows \subseteq MetricSample
    /\ \A v \in Views : v.from < v.to /\ v.metrics \subseteq DOMAIN KeysOf
    /\ {MaxBuckets, MaxHosts, MaxTypes, AlertTop, MaxVisible} \subseteq Nat \ {0}

VARIABLES
    samples, occurred,  \* rows of metric_samples and events
    view                \* the request under way, what it has read and made of it

periodVars == <<samples, occurred, view>>

NoView == [pc |-> "idle", ask |-> 0, groups |-> <<>>, top |-> <<>>, sampled |-> {},
           counted |-> {}, series |-> {}, buckets |-> <<>>, entries |-> <<>>]

PeriodInit ==
    /\ samples \in SUBSET (SampleRows \ LateRows)
    /\ occurred \in SUBSET (EventRows \ LateRows)
    /\ view = NoView

-----------------------------------------------------------------------------
(* Buckets.                                                                 *)

\* _bucket_seconds_for_range: wide enough for the number of buckets.
BucketWidth(q) ==
    LET long == q.to - q.from
        first == IF long <= Horizons[1] THEN BucketWidths[1]
                 ELSE IF long <= Horizons[2] THEN BucketWidths[2] ELSE BucketWidths[3]
        enough == {k \in 0 .. long : long <= MaxBuckets * first * 2 ^ k}
    IN first * 2 ^ Min(enough)

BucketOf(q, row) == (row.at - q.from) \div BucketWidth(q)
BucketStart(q, b) == q.from + b * BucketWidth(q)

InPeriod(q, rows) ==
    {r \in rows : q.from <= r.at /\ r.at < q.to /\ (q.vc # AnyVcenter => r.vc = q.vc)}

-----------------------------------------------------------------------------
(* Metrics: build_chat_period_metrics.                                      *)

Sampled(q, rows) == {s \in InPeriod(q, rows) : \E c \in q.metrics : s.key \in KeysOf[c]}

Average(rows) == [sum |-> MapThenSumSet(LAMBDA s : s.value, rows), n |-> Cardinality(rows)]
Reaches(a, level) == a.sum >= level * a.n
Exceeds(a, b) == a.sum * b.n > b.sum * a.n

\* The average of every bucket of one entity and metric.  The vCenter is no part
\* of the grouping: entities of two vCenters with the same moid are one.
PointsOf(q, rows, host, key) ==
    LET of == {s \in rows : s.host = host /\ s.key = key}
    IN [b \in {BucketOf(q, s) : s \in of} |-> Average({s \in of : BucketOf(q, s) = b})]

HostsOf(rows, category) == {s.host : s \in {r \in rows : r.key \in KeysOf[category]}}

\* A peak of the first is higher, or as high and its moid is smaller.
RanksBefore(q, rows, category, h, g) ==
    LET Averages(host) == UNION {{PointsOf(q, rows, host, k)[b] :
                                     b \in DOMAIN PointsOf(q, rows, host, k)} : k \in KeysOf[category]}
        Tops(a, host) == \A other \in Averages(host) : ~ Exceeds(other, a)
    IN \E a \in Averages(h), c \in Averages(g) :
          /\ Tops(a, h) /\ Tops(c, g)
          /\ Exceeds(a, c) \/ (~ Exceeds(c, a) /\ h < g)

ShownHosts(q, rows, category) ==
    {h \in HostsOf(rows, category) :
        Cardinality({g \in HostsOf(rows, category) \ {h} :
                        RanksBefore(q, rows, category, g, h)}) < MaxHosts}

SeriesOf(q, rows) ==
    UNION {{[category |-> c, host |-> h, key |-> k, points |-> PointsOf(q, rows, h, k)] :
               h \in ShownHosts(q, rows, c),
               k \in {s.key : s \in rows} \cap KeysOf[c]} : c \in q.metrics}

-----------------------------------------------------------------------------
(* Events: build_chat_event_time_buckets.                                   *)

CountedTypes(rows) ==
    {[type |-> t, count |-> Cardinality({e \in rows : e.type = t}),
      score |-> Max({e.score : e \in {r \in rows : r.type = t}})] : t \in {e.type : e \in rows}}

Counts(types) == FoldSeq(LAMBDA t, sum : t.count + sum, 0, types)
Kept(list, limit) == SubSeq(list, 1, Min({limit, Len(list)}))
Left(list, limit) == SubSeq(list, Min({limit, Len(list)}) + 1, Len(list))

ByCount(types) ==
    SetToSortSeq(types, LAMBDA s, t : s.count > t.count \/ (s.count = t.count /\ s.type < t.type))
ByScore(types) ==
    SetToSortSeq(types, LAMBDA s, t :
        \/ s.score > t.score
        \/ s.score = t.score /\ (s.count > t.count \/ (s.count = t.count /\ s.type < t.type)))

\* alert_top_n of the request is not passed on: the parameter has another name.
EventBucket(rows, b) ==
    LET types == CountedTypes(rows)
    IN [bucket |-> b, total |-> Cardinality(rows),
        byType |-> Kept(ByCount(types), MaxTypes), other |-> Counts(Left(ByCount(types), MaxTypes)),
        alerts |-> Kept(ByScore(types), AlertTop), otherAlerts |-> Counts(Left(ByScore(types), AlertTop))]

EventBuckets(q, rows) ==
    LET used == {BucketOf(q, e) : e \in rows}
        numbers == SetToSortSeq(used, LAMBDA a, b : a < b)
    IN [i \in 1 .. Len(numbers) |->
           EventBucket({e \in rows : BucketOf(q, e) = numbers[i]}, numbers[i])]

TooManyRows(q, rows) == Cardinality({<<BucketOf(q, e), e.type>> : e \in rows}) > MaxRows

-----------------------------------------------------------------------------
(* The digest context: groups of the events with a score, top of the hosts. *)

\* query_top_metric_hosts: the best sample of each entity of each vCenter.
TopSamples(q, rows, key) ==
    LET of == {s \in InPeriod(q, rows) : s.key = key}
        Better(s, t) == s.value > t.value \/ (s.value = t.value /\ s.at > t.at)
        best == {s \in of : ~ \E t \in of : t.vc = s.vc /\ t.host = s.host /\ Better(t, s)}
    IN Kept(SetToSortSeq(best, LAMBDA s, t : s.value > t.value), MaxTop)

\* group_notable_rows_by_event_type, of the rows with the highest scores.
NotableGroups(q, rows) ==
    LET listed == SetToSortSeq({e \in InPeriod(q, rows) : e.score >= q.minScore},
                      LAMBDA d, e : d.score > e.score \/ (d.score = e.score /\ d.at > e.at))
        raw == Range(Kept(listed, MaxRaw))
        Group(t) == LET of == {e \in raw : e.type = t}
                    IN [type |-> t, count |-> Cardinality(of), score |-> Max({e.score : e \in of}),
                        last |-> Max({e.at : e \in of})]
    IN Kept(SetToSortSeq({Group(e.type) : e \in raw}, LAMBDA g, h :
               \/ g.score > h.score
               \/ g.score = h.score /\ (g.last > h.last \/ (g.last = h.last /\ g.type < h.type))),
            MaxGroups)

-----------------------------------------------------------------------------
(* The incident timeline.                                                   *)

Entry(at, kind, what, number) == [at |-> at, kind |-> kind, what |-> <<what, number>>]

(* Mutant: a bucket below the level, or a gap, does not end the run. *)
BreachRun_NotReset(points, last) ==
    Cardinality({b \in DOMAIN points : b <= last /\ Reaches(points[b], BreachLevel)})

\* Consecutive buckets up to this one in which the average reached the level.
BreachRun(points, last) ==
    LET run[b \in 0 .. last] ==
            IF b \notin DOMAIN points THEN 0
            ELSE IF ~ Reaches(points[b], BreachLevel) THEN 0
            ELSE 1 + (IF b = 0 THEN 0 ELSE run[b - 1])
    IN run[last]

\* The first bucket of each host in which the third of them is reached.
Breaches(series) ==
    UNION {LET of == {b \in DOMAIN s.points : BreachRun(s.points, b) >= 3}
           IN IF of = {} THEN {} ELSE {Min(of)} :
           s \in {x \in series : x.category = "cpu"}}

\* build_auto_trigger_alert_entries: nothing where the period has no event.
AutoTriggers(q, series, buckets) ==
    LET most == Max({0} \cup {b.total : b \in Range(buckets)})
        busiest == BucketStart(q, Min({b.bucket : b \in {x \in Range(buckets) : x.total = most}}))
        breach == BucketStart(q, Min(Breaches(series)))
        burst == IF most >= Burst THEN <<Entry(busiest, "alert", "critical_burst", 0)>> ELSE <<>>
        sustained == IF Breaches(series) = {} THEN <<>>
                     ELSE <<Entry(breach, "alert", "sustained_breach", 0)>>
        both == IF burst = <<>> \/ sustained = <<>> THEN <<>>
                ELSE <<Entry(Max({busiest, breach}), "alert", "multi_signal_overlap", 0)>>
    IN IF buckets = <<>> THEN <<>> ELSE burst \o sustained \o both

BucketAlerts(q, b) ==
    LET at == BucketStart(q, b.bucket)
    IN [i \in 1 .. Len(b.alerts) |-> Entry(at, "alert", "type", b.alerts[i].type)]
         \o (IF b.otherAlerts > 0 THEN <<Entry(at, "alert", "others", b.otherAlerts)>> ELSE <<>>)

\* build_timeline_metric_entries: no zero, nothing below the threshold.
MetricEntries(q, series) ==
    LET points == UNION {{<<s, b>> : b \in {c \in DOMAIN s.points :
                             s.points[c].sum > 0 /\ Reaches(s.points[c], q.threshold[s.category])}} : s \in series}
    IN SetToSeq({Entry(BucketStart(q, p[2]), "metric", p[1].key, p[1].host) : p \in points})

\* build_chat_incident_timeline_entries: from the buckets, or from the digest
\* context where the request asks for no metrics.
TimelineEntries(v) ==
    LET q == v.ask
        Each(Of(_)) == FlattenSeq([i \in 1 .. Len(v.buckets) |-> Of(v.buckets[i])])
        Group(kind) == [i \in 1 .. Len(v.groups) |-> Entry(v.groups[i].last, kind, "type", v.groups[i].type)]
    IN IF q.metrics # {}
       THEN Each(LAMBDA b : BucketAlerts(q, b)) \o AutoTriggers(q, v.series, v.buckets)
              \o Each(LAMBDA b : <<Entry(BucketStart(q, b.bucket), "event", "events", b.total)>>)
              \o MetricEntries(q, v.series)
       ELSE Group("alert") \o Group("event")
              \o [i \in 1 .. Len(v.top) |-> Entry(v.top[i].at, "metric", v.top[i].key, v.top[i].host)]

\* build_chat_incident_timeline: the columns, the latest first, alerts before
\* events before metrics, and as many of them shown as there is room for.
TimelineColumns(entries) ==
    LET At(t, kind) == SelectSeq(entries, LAMBDA e : e.at = t /\ e.kind = kind)
        times == SetToSortSeq({e.at : e \in Range(entries)}, LAMBDA s, t : s > t)
        Column(t) == LET items == At(t, "alert") \o At(t, "event") \o At(t, "metric")
                     IN [at |-> t, items |-> items, visible |-> Kept(items, MaxVisible),
                         hidden |-> Len(Left(items, MaxVisible))]
    IN [i \in 1 .. Len(times) |-> Column(times[i])]

-----------------------------------------------------------------------------
(* A request: three reads, one after the other.                             *)

\* Collection goes on: a row is committed between two statements.
StoreSample(s) ==
    /\ view.pc # "idle"
    /\ s \in LateRows \ samples
    /\ samples' = samples \cup {s}
    /\ UNCHANGED <<occurred, view>>

StoreEvent(e) ==
    /\ view.pc # "idle"
    /\ e \in LateRows \ occurred
    /\ occurred' = occurred \cup {e}
    /\ UNCHANGED <<samples, view>>

\* build_digest_context, which is all that is read where no metrics are asked for.
AskView(q) ==
    LET top == TopSamples(q, samples, "cpu") \o TopSamples(q, samples, "mem")
        read == [NoView EXCEPT !.ask = q, !.groups = NotableGroups(q, occurred), !.top = top]
    IN /\ view.pc = "idle"
       /\ view' = IF q.metrics # {} THEN [read EXCEPT !.pc = "metrics"]
                  ELSE [read EXCEPT !.pc = "shown", !.entries = TimelineEntries(read)]
       /\ UNCHANGED <<samples, occurred>>

ReadSeries ==
    /\ view.pc = "metrics"
    /\ view' = [view EXCEPT !.pc = "events", !.sampled = Sampled(view.ask, samples),
                            !.series = SeriesOf(view.ask, Sampled(view.ask, samples))]
    /\ UNCHANGED <<samples, occurred>>

ReadBuckets ==
    LET q == view.ask
        rows == InPeriod(q, occurred)
        read == [view EXCEPT !.pc = "shown", !.counted = rows, !.buckets = EventBuckets(q, rows)]
    IN /\ view.pc = "events"
       /\ view' = IF TooManyRows(q, rows) THEN NoView
                  ELSE [read EXCEPT !.entries = TimelineEntries(read)]
       /\ UNCHANGED <<samples, occurred>>

ViewServed ==
    /\ view.pc = "shown"
    /\ view' = NoView
    /\ UNCHANGED <<samples, occurred>>

PeriodNext ==
    \/ \E s \in SampleRows : StoreSample(s)
    \/ \E e \in EventRows : StoreEvent(e)
    \/ \E q \in Views : AskView(q)
    \/ ReadSeries \/ ReadBuckets \/ ViewServed

PeriodSpec == PeriodInit /\ [][PeriodNext]_periodVars

(***************************************************************************)
(* Properties                                                              *)
(***************************************************************************)
\* Rows and views have their shape.
PeriodTypeOK ==
    /\ samples \subseteq SampleRows \cap MetricSample /\ occurred \subseteq EventRows
    /\ view.pc \in {"idle", "metrics", "events", "shown"}
    /\ view.pc # "idle" => view.ask \in Views

Shown == view.pc = "shown" /\ view.ask.metrics # {}

\* Every sample read of a host that is shown is in one bucket of its series, no
\* series has more buckets than allowed, and a host is left out only for hosts
\* with peaks as high as its own (_aggregate_top_hosts).
SeriesComplete ==
    Shown => \A c \in view.ask.metrics :
        LET of == {s \in view.series : s.category = c}
            Peaks(s) == {s.points[b] : b \in DOMAIN s.points}
            out == {r \in view.sampled : r.key \in KeysOf[c] /\ r.host \notin {s.host : s \in of}}
        IN /\ Cardinality({s.host : s \in of}) <= MaxHosts
           /\ out # {} => Cardinality({s.host : s \in of}) = MaxHosts
           /\ \A s \in of :
                 LET rows == {r \in view.sampled : r.host = s.host /\ r.key = s.key}
                 IN /\ MapThenSumSet(LAMBDA b : s.points[b].n, DOMAIN s.points) = Cardinality(rows)
                    /\ MapThenSumSet(LAMBDA b : s.points[b].sum, DOMAIN s.points) = Average(rows).sum
                    /\ DOMAIN s.points \subseteq 0 .. MaxBuckets - 1
           /\ \A r \in out : \A s \in of :
                 LET own == PointsOf(view.ask, view.sampled, r.host, r.key)
                 IN \A b \in DOMAIN own : \E t \in of : t.host = s.host
                        /\ \E a \in Peaks(t) : ~ Exceeds(own[b], a)

\* Every event read is counted once in each of the three counts of its bucket
\* (by_type, _other; alert_top_types, alert_other_count).
EventsCounted ==
    Shown =>
        /\ FoldSeq(LAMBDA b, sum : b.total + sum, 0, view.buckets) = Cardinality(view.counted)
        /\ \A b \in Range(view.buckets) :
              /\ Counts(b.byType) + b.other = b.total
              /\ Counts(b.alerts) + b.otherAlerts = b.total

\* A breach is reported exactly if some shown host reached the level in three
\* buckets in a row, at the first of those; both triggers together at the later
\* of their times (build_auto_trigger_alert_entries).
TriggersTrue ==
    LET Told(what) == {e.at : e \in {x \in Range(view.entries) : x.kind = "alert" /\ x.what = <<what, 0>>}}
        High(s, b) == b \in DOMAIN s.points /\ s.points[b].sum >= BreachLevel * s.points[b].n
        third == {b \in 2 .. MaxBuckets : \E s \in view.series :
                     s.category = "cpu" /\ High(s, b) /\ High(s, b - 1) /\ High(s, b - 2)}
    IN Shown /\ view.buckets # <<>> =>
          /\ Told("sustained_breach") =
                IF third = {} THEN {} ELSE {BucketStart(view.ask, Min(third))}
          /\ Told("multi_signal_overlap") =
                IF Told("critical_burst") = {} \/ third = {} THEN {}
                ELSE {Max(Told("critical_burst") \cup Told("sustained_breach"))}

\* The columns hold every entry once, the latest first, and no alert is among
\* what is hidden: the alerts of a bucket always find room (critical ones must
\* not be folded away by the metrics of many hosts).
AlertsVisible ==
    view.pc = "shown" =>
        LET columns == TimelineColumns(view.entries)
            Alerts(list) == {e \in Range(list) : e.kind = "alert"}
        IN /\ FoldSeq(LAMBDA c, sum : Len(c.visible) + c.hidden + sum, 0, columns) = Len(view.entries)
           /\ \A i, j \in 1 .. Len(columns) : i < j => columns[i].at > columns[j].at
           /\ Shown => \A c \in Range(columns) : Alerts(c.items) = Alerts(c.visible)

\* What is shown of a period is what was read of it.
PeriodShownTrue == SeriesComplete /\ EventsCounted /\ TriggersTrue /\ AlertsVisible

\* Each bucket shows as many types of alerts as the request asks for
\* (docs/userguide/score-rules.md, the number of alerts is chosen on the screen).
AlertRowsAsChosen ==
    Shown => \A b \in Range(view.buckets) :
        Len(b.alerts) = Min({view.ask.topAlerts,
            Cardinality({e.type : e \in {x \in view.counted : BucketOf(view.ask, x) = b.bucket}})})
==============================================================================
