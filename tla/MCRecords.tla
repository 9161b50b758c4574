----------------------------- MODULE MCRecords ------------------------------
(***************************************************************************)
(* Small pasts for the questions of RecorderHistory and meters for those   *)
(* of RecorderStatistics.                                                  *)
(***************************************************************************)
EXTENDS Integers, Sequences, FiniteSets

CONSTANT None

Row(state, at) == [state |-> state, at |-> at, number |-> None]
Measured(number, at) == [state |-> "number", at |-> at, number |-> number]

Recorded(domain, class, names, device, rows) ==
  [domain |-> domain, device_class |-> class, names |-> names, device |-> device,
   area |-> "hall", floor |-> "ground", exposed |-> TRUE, rows |-> rows,
   state |-> rows[Len(rows)].state]

\* A lock and the sensor of the same door; another sensor of that name; a
\* number that is missing for a while.
Pasts ==
  {<<Row("locked", -900), Row("unlocked", -30), Row("locked", -20)>>,
   <<Row("locked", -5), Row("unlocked", -4), Row("unlocked", -2)>>}

DoorPasts ==
  {<<Row("off", -800), Row("on", -700)>>,
   <<Row("off", -200), Row("on", -100), Row("on", -40), Row("off", -10), Row("on", -3)>>,
   <<Row("on", -30), Row("off", -20), Row("on", -6), Row("unavailable", -4), Row("off", -2)>>,
   <<Row("closed", -24), Row("opening", -23), Row("open", -22), Row("closed", -12)>>}

Numbers ==
  {<<Measured(4, -40), Measured(1, -20), Row("unavailable", -18), Measured(9, -6)>>,
   <<Row("unavailable", -30), Measured(2, -1)>>}

EntityPasts ==
  {<<Recorded("lock", None, {<<"front", "door", "lock">>}, 1, lock),
     Recorded("binary_sensor", "door", {<<"front", "door">>}, device, door),
     Recorded("sensor", None, {<<"heat">>}, 2, numbers),
     Recorded("cover", "door", {<<"door", "front">>}, 3, door)>> :
       lock \in Pasts, door \in DoorPasts, numbers \in Numbers, device \in {1, 2}}

Wanted ==
  {{}, {"opened"}, {"locked"}, {"off"}, {"opened", "closed"}}

\* Windows: the last hours, a day, or between two times.
Window(period, hours, from, to) ==
  [period |-> period, hours |-> hours, from |-> from, to |-> to]

WindowsAsked ==
  {Window("", hours, None, None) : hours \in {None, 1, 10, 500, 9000}} \cup
  {Window(period, None, None, None) : period \in {"today", "yesterday"}} \cup
  {Window("custom", 6, from, to) : from \in {None, -21}, to \in {None, -25, -2}}

-----------------------------------------------------------------------------
\* Meters: which buckets are lost, come twice or have no sum.  The first
\* month begins at 0, its second day at 288.
Certain == [malformed |-> FALSE, started |-> None, estimated |-> {}, unknown_before |-> None]

Sound ==
  [begun |-> -288, lost |-> {}, sumless |-> {}, twice |-> {}, exposed |-> TRUE, known |-> TRUE,
   has_sum |-> TRUE, has_mean |-> TRUE, circular |-> FALSE, source |-> Certain]

Gaps == {{}, {300}, {312, 324}, {564}, {576}, 288..311}

Meters ==
  {[Sound EXCEPT !.lost = gap] : gap \in Gaps} \cup
  {[Sound EXCEPT !.sumless = gap] : gap \in Gaps} \cup
  {[Sound EXCEPT !.twice = gap] : gap \in {{300}, {576}}} \cup
  {[Sound EXCEPT !.has_sum = FALSE], [Sound EXCEPT !.circular = TRUE],
   [Sound EXCEPT !.exposed = FALSE], [Sound EXCEPT !.known = FALSE],
   [Sound EXCEPT !.source.malformed = TRUE], [Sound EXCEPT !.source.started = 400],
   [Sound EXCEPT !.source.estimated = {1}], [Sound EXCEPT !.source.unknown_before = 2]}

Statistic(period, from, to, bucket, metric) ==
  [period |-> period, from |-> from, to |-> to, bucket |-> bucket, metric |-> metric,
   compare |-> TRUE, limit |-> 20]

StatisticsAsked ==
  {Statistic(period, None, None, bucket, metric) :
     period \in {"last_hour", "today", "yesterday", "this_month", "last_month"},
     bucket \in {"auto", "month"}, metric \in {"all", "change", "mean"}} \cup
  {Statistic("custom", from, to, bucket, "all") :
     from \in {528, 532, 564}, to \in {574, 576, 586}, bucket \in {"auto", "5minute", "hour"}}
=============================================================================
