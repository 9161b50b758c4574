------------------------- MODULE RecorderStatistics -------------------------
(***************************************************************************)
(* Long-term statistics of one entity (get_entity_statistics): what is     *)
(* said of a window whose buckets may be missing, doubled or without a     *)
(* usable sum.  Times are numbers of five minutes; a meter uses one unit   *)
(* in each.  Min and max are read as the mean is, and are left out.        *)
(***************************************************************************)
EXTENDS Integers, Sequences, FiniteSets, SequencesExt, FiniteSetsExt, TLC

CONSTANT None

Hour == 12
Day == 24 * Hour
MonthDays == 2          \* Bound: a month is this many days long.
Month == MonthDays * Day

Sample(resolution) == IF resolution = "5minute" THEN 1 ELSE Hour

\* Rounding to whole buckets, up and down.
Up(at, sample) == -((-at) \div sample) * sample
Down(at, sample) == (at \div sample) * sample

-----------------------------------------------------------------------------
(* The window.                                                              *)

\* _statistics_window: None is a refused period.
StatisticsWindow(args, now) ==
  LET today == Down(now, Day)
      month == Down(now, Month)
      window == CASE args.period = "last_hour" -> <<now - Hour, now>>
                  [] args.period = "last_24_hours" -> <<now - Day, now>>
                  [] args.period = "today" -> <<today, now>>
                  [] args.period = "yesterday" -> <<today - Day, today>>
                  [] args.period = "this_month" -> <<month, now>>
                  [] args.period = "last_month" -> <<month - Month, month>>
                  [] args.period = "last_7_days" -> <<today - 7 * Day, today>>
                  [] args.period = "last_30_days" -> <<today - 30 * Day, today>>
                  [] args.period = "last_12_months" -> <<month - 12 * Month, month>>
                  [] args.period = "custom" -> <<args.from, args.to>>
  IN  IF window[2] <= window[1] \/ window[2] - window[1] > 366 * Day THEN None
      ELSE [from |-> window[1], to |-> window[2]]

\* The bucket that auto stands for.
Bucket(asked, window) ==
  LET duration == window.to - window.from
  IN  IF asked # "auto" THEN asked
      ELSE IF duration <= 12 * Hour THEN "5minute"
      ELSE IF duration <= 72 * Hour THEN "hour" ELSE "day"

\* Only whole source buckets inside the window are read.
Effective(window, sample) ==
  [from |-> Up(window.from, sample), to |-> Down(window.to, sample)]

-----------------------------------------------------------------------------
(* The rows.                                                                *)

Buckets(window, sample) ==
  {at \in window.from..(window.to - 1) : at % sample = 0}

\* statistics_during_period of the recorder.  The change of a bucket is the
\* difference to the sum before it, however far back that is.
Recorded(meter, at) == at >= meter.begun /\ at \notin meter.lost
HasSum(meter, at) == Recorded(meter, at) /\ at \notin meter.sumless
PreviousSum(meter, at, sample) ==
  LET back[b \in Int] == IF b < meter.begun THEN at - sample
                         ELSE IF HasSum(meter, b) THEN b ELSE back[b - sample]
  IN  back[at - sample]
NativeChange(meter, at, sample) ==
  IF HasSum(meter, at) THEN at - PreviousSum(meter, at, sample) ELSE None

\* Rows that come twice are dropped.
Usable(meter, at) == Recorded(meter, at) /\ at \notin meter.twice

\* Inside window_rows: a change counts only beside the sums of its bucket and
\* of the one before it.
Baseline(meter, at, sample) ==
  \A b \in {at - sample, at} : Usable(meter, b) /\ HasSum(meter, b)

\* The change of a row, None where it has none that counts.
Change(meter, at, sample) ==
  IF Baseline(meter, at, sample) THEN NativeChange(meter, at, sample) ELSE None

-----------------------------------------------------------------------------
(* What is said of them.                                                    *)

Total(changes, window, sample) ==
  LET sum[n \in Nat] ==
        LET at == window.from + (n - 1) * sample
        IN  IF n = 0 THEN 0
            ELSE sum[n - 1] + (IF at \in DOMAIN changes THEN changes[at] ELSE 0)
  IN  sum[(window.to - window.from) \div sample]

\* _complete_statistic_period_totals: the totals of the days or months that the
\* window and the observed buckets cover wholly.
CompletePeriods(changes, window, length, sample) ==
  LET of(first) == [from |-> first, to |-> first + length]
      whole == {first \in Buckets(window, length) :
                  /\ first + length <= window.to
                  /\ Buckets(of(first), sample) \subseteq DOMAIN changes}
  IN  [first \in whole |-> Total(changes, of(first), sample)]

\* The groups of buckets that are shown.
GroupOf(at, bucket) ==
  CASE bucket \in {"5minute", "hour"} -> at
    [] bucket = "day" -> at \div Day
    [] bucket = "month" -> at \div Month

\* The coverage of one metric, seen in `values` of the buckets of a window.
Covered(values, window, effective, sample) ==
  LET expected == Cardinality(Buckets(effective, sample))
      all == expected > 0 /\ Cardinality(values) = expected
  IN  [effective |-> all, complete |-> all /\ window = effective]

\* _statistics_analysis of the rows of a window.
Analysis(meter, window, metrics, sample, bucket, limit) ==
  LET effective == Effective(window, sample)
      rows == {at \in Buckets(effective, sample) : Usable(meter, at)}
      counted == {at \in rows : Change(meter, at, sample) # None}
      changes == [at \in counted |-> Change(meter, at, sample)]
      values(metric) == IF metric = "change" THEN counted ELSE rows
      groups == {GroupOf(at, bucket) : at \in rows}
  IN  [rows |-> rows, total |-> Total(changes, effective, sample), observed |-> counted,
       baseline |-> "change" \in metrics => Baseline(meter, effective.from, sample),
       coverage |-> [m \in metrics |-> Covered(values(m), window, effective, sample)],
       days |-> CompletePeriods(changes, effective, Day, sample),
       months |-> CompletePeriods(changes, effective, Month, sample),
       shown |-> Min({limit, Cardinality(groups)}),
       truncated |-> Cardinality(groups) > limit]

\* source_coverage: what the entity says of itself; annotations that are not
\* understood count as doubt.
Uncertain(source, window) ==
  \/ source.malformed
  \/ source.started # None /\ window.from < source.started
  \/ \E day \in source.estimated : day \in (window.from \div Day)..((window.to - 1) \div Day)
  \/ source.unknown_before # None /\ window.from \div Day < source.unknown_before

\* The metrics that are read, of those that were asked for.
Metrics(meter, metric) ==
  {m \in {"change", "mean"} :
     /\ metric \in {"all", m}
     /\ m = "change" => meter.has_sum
     /\ m = "mean" => meter.has_mean /\ ~meter.circular}

\* Inside the comparison: windows of equal length, wholly covered, undoubted.
Comparable(meter, now, before, window, previous, metrics, sample) ==
  LET length(w) == Effective(w, sample).to - Effective(w, sample).from
  IN  /\ length(window) = length(previous) /\ length(window) > 0
      /\ metrics # {}
      /\ \A m \in metrics : now.coverage[m].effective /\ before.coverage[m].effective
      /\ ~Uncertain(meter.source, window) /\ ~Uncertain(meter.source, previous)

Previous(window) == [from |-> 2 * window.from - window.to, to |-> window.from]

\* What is told of the window and of the one before it.
Report(meter, args, window, current, before) ==
  LET sample == Sample(Bucket(args.bucket, window))
      previous == Previous(window)
      metrics == Metrics(meter, args.metric)
      comparable == Comparable(meter, current, before, window, previous, metrics, sample)
  IN  IF current.rows = {} \/ (current.observed = {} /\ metrics \subseteq {"change"})
      THEN [available |-> FALSE]
      ELSE [available |-> TRUE, window |-> window, effective |-> Effective(window, sample),
            metrics |-> metrics, current |-> current, comparable |-> comparable,
            difference |-> IF args.compare /\ comparable /\ "change" \in metrics
                           THEN current.total - before.total ELSE None,
            \* "Change total", or else "Observed change subtotal".
            whole |-> "change" \in metrics /\ current.coverage["change"].complete,
            doubted |-> Uncertain(meter.source, window)]

\* tool_get_entity_statistics
StatisticsOf(meter, args, window) ==
  LET bucket == Bucket(args.bucket, window)
      effective == Effective(window, Sample(bucket))
      metrics == Metrics(meter, args.metric)
      analysis(w) == Analysis(meter, w, metrics, Sample(bucket), bucket, args.limit)
  IN  IF \/ ~meter.exposed \/ window = None
         \/ bucket = "5minute" /\ window.to - window.from > 72 * Hour
         \/ effective.to <= effective.from \/ ~meter.known
         \/ args.metric # "all" /\ metrics = {}
      THEN [available |-> FALSE]
      ELSE Report(meter, args, window, analysis(window), analysis(Previous(window)))

Statistics(meter, args, now) == StatisticsOf(meter, args, StatisticsWindow(args, now))
=============================================================================
