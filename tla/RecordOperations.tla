-------------------------- MODULE RecordOperations --------------------------
(***************************************************************************)
(* Questions about the past, asked of the recorder's rows and statistics.  *)
(***************************************************************************)
EXTENDS OperationFrame, Integers, FiniteSetsExt, SequencesExt

MCR == INSTANCE MCRecords
Past == INSTANCE RecorderHistory
Meter == INSTANCE RecorderStatistics

Asked(window, entity, values, analysis) ==
  window @@ [entity |-> entity, values |-> values, analysis |-> analysis, past |-> 9, limit |-> 3]

AnalyzeHistory ==
  /\ Ready
  /\ \E h \in MCR!EntityPasts, window \in MCR!WindowsAsked, values \in MCR!Wanted :
       \E entity \in {1, 2}, analysis \in {"duration", "count", "streak"} :
         LET args == Asked(window, entity, values, analysis)
         IN  Answer([op |-> "history", home |-> h, args |-> args], Past!Analyze(h, args))

AnalyzeNumbers ==
  /\ Ready
  /\ \E h \in MCR!EntityPasts, window \in MCR!WindowsAsked :
       LET args == Asked(window, 3, {}, "stats")
       IN  Answer([op |-> "history", home |-> h, args |-> args], Past!Analyze(h, args))

LastOf ==
  /\ Ready
  /\ \E h \in MCR!EntityPasts, hours \in {None, 5, 30}, values \in MCR!Wanted, entity \in {1, 2} :
       LET args == Asked([hours |-> hours, period |-> "", from |-> None, to |-> None],
                         entity, values, "last")
       IN  Answer([op |-> "last", home |-> h, args |-> args],
                  Past!LastEvent(h, args) @@ [timeline |-> Past!Timeline(h, args)])

AskStatistics ==
  /\ Ready
  /\ \E meter \in MCR!Meters, args \in MCR!StatisticsAsked, now \in {580, 700} :
       Answer([op |-> "statistics", meter |-> meter, args |-> args],
              Meter!Statistics(meter, args, now))

RecordNext ==
  AnalyzeHistory \/ AnalyzeNumbers \/ LastOf \/ AskStatistics

-----------------------------------------------------------------------------
\* The state of the rows of an entity, hour by hour.
InForce(rows, at) ==
  LET row == Past!StateAt(rows, at) IN IF row = None THEN None ELSE row.state
Throughout(window, rows, targets) ==
  {at \in window.from..(window.to - 1) : InForce(rows, at) \in targets}

\* What is said of the past is what the state was, hour by hour, as
\* get_entity_state_at_time gives it: a duration is the number of hours in the
\* wanted states, a count the number of hours at which one of them began, a
\* streak that ends now is exact or at least that long, the average is over
\* the hours that have a number, and the last event is the latest of its kind.
HistoryIsTrue ==
  /\ request.op = "history" /\ result.made /\ result.window.hours <= 100 =>
       LET rows == request.home[result.of].rows
           window == result.window
           held == Throughout(window, rows, result.targets)
       IN  CASE request.args.analysis = "duration" -> result.hours = Cardinality(held)
             [] request.args.analysis = "count" ->
                  result.count = Cardinality({at \in window.from..(window.to - 1) :
                    /\ InForce(rows, at) # None
                    /\ InForce(rows, at - 1) # InForce(rows, at)
                    /\ request.args.values # {} => InForce(rows, at) \in result.targets})
             [] request.args.analysis = "streak" ->
                  result.streak # None /\ window.to = 0 =>
                    LET run == window.to - result.streak.lasted
                    IN  /\ run..-1 \subseteq held
                        /\ result.streak.exact => run - 1 \notin held
             [] request.args.analysis = "stats" ->
                  result.stats # None =>
                    LET number(at) == Past!StateAt(rows, at).number
                        hours == {at \in window.from..(window.to - 1) :
                                    InForce(rows, at) \notin {None, "unavailable"}}
                    IN  /\ result.stats.over = Cardinality(hours)
                        /\ result.stats.sum = FoldSet(LAMBDA at, sum : sum + number(at), 0, hours)
                        /\ \A at \in hours : number(at) \in result.stats.min..result.stats.max
  /\ request.op = "last" /\ result.row # None /\ result.of = request.args.entity =>
       LET rows == request.home[result.of].rows
       IN  /\ InForce(rows, result.row.at) = result.row.state
           /\ (/\ result.timeline # <<>>
               /\ Cardinality(Past!TargetStates(request.args.values)) = 1
               /\ request.args.hours # None) => result.row = Head(result.timeline)

\* "streak reports how long the entity has continuously been in the matching
\* state right now": it has been, for as long as is said.
StreakIsRightNow ==
  request.op = "history" /\ request.args.analysis = "streak" /\ result.made =>
    (result.streak # None =>
      \A at \in -result.streak.lasted..-1 :
        InForce(request.home[result.of].rows, at) \in result.targets)

\* A change total covers the whole window and is what the meter used in it; a
\* subtotal or the total of a complete day or month is never more than was used
\* in the buckets that it counts, although the recorder's own changes reach over
\* gaps; and the difference to the window before is given only where both are
\* whole and undoubted.
StatisticsAreHonest ==
  request.op = "statistics" /\ result.available =>
    LET used(window) == window.to - window.from
        unit == Meter!Sample(Meter!Bucket(request.args.bucket, result.window))
    IN  /\ result.whole => result.current.total = used(result.window)
        /\ result.current.total = unit * Cardinality(result.current.observed)
        /\ \A day \in DOMAIN result.current.days : result.current.days[day] = Meter!Day
        /\ \A month \in DOMAIN result.current.months : result.current.months[month] = Meter!Month
        /\ result.difference # None =>
             result.difference = 0 /\ result.current.baseline /\ ~result.doubted

\* What is said of the past is what the recorder's rows and statistics say.
PastSound == HistoryIsTrue /\ StatisticsAreHonest
=============================================================================
