-------------------------- MODULE RecorderHistory --------------------------
(***************************************************************************)
(* Questions about the past of one entity: the timeline, the last time     *)
(* that something happened, how often, for how long, since when, and the   *)
(* numbers in between.  A past is a sequence of rows, each with the state  *)
(* that began there; a row may repeat the state before it, as after a      *)
(* restart.  Times are hours and the clock stands at Now.                  *)
(***************************************************************************)
EXTENDS HomeRegistry, Integers, FiniteSetsExt, TLC

Now == 0

UpToN(limit, items) == SubSeq(items, 1, Min({limit, Len(items)}))

\* state_changes_during_period of the recorder: the rows inside the window, and,
\* where asked, the row in force at its start, which keeps its own time.
Fetch(rows, from, to, with_start) ==
  LET inside == SelectSeq(rows, LAMBDA row : from < row.at /\ row.at < to)
      before == SelectSeq(rows, LAMBDA row : row.at <= from)
  IN  IF with_start /\ before # <<>> THEN <<Last(before)>> \o inside ELSE inside

-----------------------------------------------------------------------------
(* What was asked for.                                                      *)

\* _history_state_aliases
StateAliases(value) ==
  CASE value \in {"open", "opened"} -> <<"open", "opening", "on">>
    [] value = "opening" -> <<"opening", "open", "on">>
    [] value \in {"close", "closed"} -> <<"closed", "closing", "off">>
    [] value = "closing" -> <<"closing", "closed", "off">>
    [] value \in {"turned_on", "enabled", "active"} -> <<"on">>
    [] value \in {"turned_off", "disabled"} -> <<"off">>
    [] value = "detected" -> <<"detected", "on", "open">>
    [] value = "triggered" -> <<"triggered", "on">>
    [] value \in {"clear", "cleared"} -> <<"clear", "off", "closed">>
    [] value = "away" -> <<"away", "not_home">>
    [] value = "not_home" -> <<"not_home", "away">>
    [] OTHER -> <<value>>

\* _normalize_history_targets
TargetStates(values) == UNION {ToSet(StateAliases(value)) : value \in values}

\* _choose_history_count_states: of each value the first word that the rows use.
ChosenStates(rows, values) ==
  LET present == {rows[i].state : i \in DOMAIN rows}
      used(value) == SelectSeq(StateAliases(value), LAMBDA word : word \in present)
  IN  {Head(used(value) \o StateAliases(value)) : value \in values}

\* _window_hours, and the clamping of the hours that were asked for.
Hours(n) == Max({1, Min({n, 8760})})

\* _history_query_window: midnight was Past hours ago.  An unusable window is None.
QueryWindow(args, default, past) ==
  LET hours == Hours(IF args.hours = None THEN default ELSE args.hours)
      to == IF args.to = None THEN Now ELSE args.to
      from == IF args.from = None THEN to - hours ELSE args.from
      window(a, b) == [from |-> a, to |-> b, hours |-> Hours(b - a)]
  IN  CASE args.from # None \/ args.to # None \/ args.period = "custom" ->
             IF args.from # None /\ from >= to THEN None
             ELSE [window(from, to) EXCEPT !.hours = IF args.from = None THEN hours ELSE @]
        [] args.from = None /\ args.to = None /\ args.period = "today" -> window(Now - past, Now)
        [] args.from = None /\ args.to = None /\ args.period = "yesterday" ->
             window(Now - past - 24, Now - past)
        [] OTHER -> [from |-> Now - hours, to |-> Now, hours |-> hours]

-----------------------------------------------------------------------------
(* Which entity to ask: a sibling may fit what was asked better.            *)

Opening == {"open", "opened", "opening", "close", "closed", "closing"}
Detecting == {"detected", "triggered", "clear", "cleared"}
DoorLike == {"door", "window", "opening", "garage_door"}

\* _history_preferred_domains
DomainPreference(domain, value) ==
  CASE value \in {"locked", "unlocked"} /\ domain = "lock" -> 120
    [] value \in Opening /\ domain = "cover" -> 90
    [] value \in Opening /\ domain = "binary_sensor" -> 80
    [] value \in Opening /\ domain = "lock" -> 40
    [] value \in {"home", "away", "not_home"} /\ domain = "person" -> 100
    [] value \in {"home", "away", "not_home"} /\ domain = "device_tracker" -> 95
    [] value \in Detecting /\ domain = "binary_sensor" -> 90
    [] OTHER -> 0

\* _history_preferred_device_classes
ClassPreferred(class, value) ==
  \/ value \in Opening /\ class \in DoorLike
  \/ value \in Detecting /\ class \in DoorLike \cup {"motion", "occupancy", "presence",
                                                    "sound", "vibration"}

\* _score_entity_for_history_request
Fitness(entity, values) ==
  Max({DomainPreference(entity.domain, value) : value \in values}) +
  (IF \E value \in values : ClassPreferred(entity.device_class, value) THEN 25 ELSE 0) +
  (IF entity.state \in TargetStates(values) THEN 20 ELSE 0)

Stopwords ==
  {"a", "an", "the", "entity", "device", "binary", "sensor", "contact", "contacts", "lock",
   "locks", "locked", "unlock", "unlocked", "deadbolt", "bolt"}

\* _history_relation_tokens
RelationTokens(words) ==
  LET kept == SelectSeq(words, LAMBDA word : word \notin Stopwords)
  IN  IF kept # <<>> THEN kept ELSE words

Letters(words) == FoldLeft(LAMBDA n, word : n + Len(word) + 1, 0, words) - 1

\* The name part of _score_history_entity_relatedness.
NameRelation(mine, theirs) ==
  LET overlap == Cardinality(ToSet(mine) \cap ToSet(theirs))
      inside == Within(mine, theirs) \/ Within(theirs, mine)
  IN  IF overlap = 0 THEN 0
      ELSE 22 * overlap + (55 * overlap) \div Min({Len(mine), Len(theirs)}) +
           (IF mine = theirs THEN 80
            ELSE IF inside /\ Min({Letters(mine), Letters(theirs)}) >= 5 THEN 40 ELSE 0)

SameDevice(one, other) == one.device # None /\ one.device = other.device

\* _score_history_entity_relatedness
Relatedness(one, other) ==
  LET named == Max({NameRelation(RelationTokens(a), RelationTokens(b)) :
                       a \in one.names, b \in other.names})
      near == (IF one.area # None /\ one.area = other.area THEN 10 ELSE 0) +
              (IF one.floor # None /\ one.floor = other.floor THEN 5 ELSE 0)
  IN  IF SameDevice(one, other) THEN named + 120
      ELSE IF named > 0 THEN named + near ELSE 0

\* The conditions on a sibling in _history_resolution_candidates.
MayStandIn(h, e, sibling, values) ==
  LET own == Fitness(h[e], values)
      fitness == Fitness(h[sibling], values)
      relation == Relatedness(h[e], h[sibling])
  IN  /\ sibling # e /\ h[sibling].exposed
      /\ fitness > 0 /\ relation > 0
      /\ IF SameDevice(h[e], h[sibling])
         THEN fitness > own /\ fitness + relation >= own + 40
         ELSE fitness >= own + 20 /\ relation >= 90 /\ fitness + relation >= own + 100

MaxCandidates == 4

\* _history_resolution_candidates: at most four, the best first.
Candidates(h, e, values) ==
  LET standing == {s \in DOMAIN h : MayStandIn(h, e, s, values)}
      priority(c) == IF c = e THEN Fitness(h[e], values) + 150
                     ELSE Fitness(h[c], values) + Relatedness(h[e], h[c]) +
                          (IF SameDevice(h[e], h[c]) THEN 40 ELSE 0)
      before(c, d) == \/ priority(c) > priority(d)
                      \/ /\ priority(c) = priority(d)
                         /\ \/ Fitness(h[c], values) > Fitness(h[d], values)
                            \/ Fitness(h[c], values) = Fitness(h[d], values) /\ c < d
  IN  IF values = {} THEN <<e>> ELSE UpToN(MaxCandidates, Ordered({e} \cup standing, before))

\* The first candidate if it answers, else the first other one that does, else
\* the first all the same.
FirstThat(candidates, Answers(_)) ==
  Head(SelectSeq(candidates, Answers) \o candidates)

-----------------------------------------------------------------------------
(* What the rows say.                                                       *)

Clip(at, window) == Max({window.from, Min({at, window.to})})

\* Mutant: a row that began before the window counts from its own time.
BeganUnclipped(rows, i, window) == rows[i].at

Began(rows, i, window) == Clip(rows[i].at, window)
Ended(rows, i, window) ==
  IF i < Len(rows) THEN Clip(rows[i + 1].at, window) ELSE window.to

\* _calculate_state_duration
Intervals(rows, targets, window) ==
  {i \in DOMAIN rows : /\ rows[i].state \in targets
                       /\ Ended(rows, i, window) > Began(rows, i, window)}
Duration(rows, targets, window) ==
  FoldSet(LAMBDA i, sum : sum + Ended(rows, i, window) - Began(rows, i, window),
          0, Intervals(rows, targets, window))

\* _matching_history_transitions: rows that repeat the state are no events.
Transitions(rows, targets, from) ==
  {i \in DOMAIN rows :
     /\ i > 1 => rows[i].state # rows[i - 1].state
     /\ rows[i].at >= from
     /\ targets # {} => rows[i].state \in targets}

\* _calculate_numeric_history_stats: the average is a sum over a number of
\* hours, or of rows where no row lasts.
NumericStats(rows, window) ==
  LET numeric == {i \in DOMAIN rows : rows[i].number # None}
      hours(i) == Max({Ended(rows, i, window) - Began(rows, i, window), 0})
      total == FoldSet(LAMBDA i, sum : sum + hours(i), 0, numeric)
      weight(i) == IF total > 0 THEN hours(i) ELSE 1
  IN  IF numeric = {} THEN None
      ELSE [min |-> Min({rows[i].number : i \in numeric}),
            max |-> Max({rows[i].number : i \in numeric}),
            sum |-> FoldSet(LAMBDA i, sum : sum + rows[i].number * weight(i), 0, numeric),
            over |-> IF total > 0 THEN total ELSE Cardinality(numeric)]

\* _build_history_search_windows
SearchWindows(hours) ==
  Ordered({Min({window, hours}) : window \in {24, 168, 720, hours}}, <)

\* The streak loop of tool_analyze_entity_history, over the windows that grow:
\* it looks for the row that began the run of target states that the window
\* ends with.  A window that ends with another state ends the search.
Streak(rows, targets, window) ==
  LET seen(hours) == Fetch(rows, window.to - hours, window.to, TRUE)
      first(seq) == Max({0} \cup {i \in DOMAIN seq : seq[i].state \notin targets}) + 1
      look(found, hours) ==
        LET seq == seen(hours)
        IN  IF found.done \/ seq = <<>> THEN found
            ELSE IF Last(seq).state \notin targets THEN [found EXCEPT !.done = TRUE]
            ELSE LET start == seq[first(seq)].at
                     exact == first(seq) > 1 \/ start > window.to - hours
                 IN  [start |-> start, exact |-> exact, done |-> exact]
      all == FoldLeft(look, [start |-> window.from, exact |-> FALSE, done |-> FALSE],
                      SearchWindows(window.hours))
  IN  [lasted |-> window.to - Max({all.start, window.from}), exact |-> all.exact]

-----------------------------------------------------------------------------
(* The tools.                                                               *)

\* tool_get_entity_state_at_time: the row in force when the time begins; the
\* search begins just after it, so a row of that very moment counts.
StateAt(rows, at) ==
  LET seen == Fetch(rows, at, at + 1, TRUE)
  IN  IF seen = <<>> \/ Head(seen).at > at THEN None ELSE Head(seen)

\* tool_get_entity_history, mode timeline: of the entity itself, newest first.
Timeline(h, args) ==
  LET window == QueryWindow(args, 24, args.past)
      seen == Reverse(Fetch(h[args.entity].rows, window.from, window.to, FALSE))
      targets == TargetStates(args.values)
  IN  UpToN(args.limit, SelectSeq(seen, LAMBDA row : targets = {} \/ row.state \in targets))

\* _tool_get_last_entity_event_impl: candidate by candidate, window by window.
LastEvent(h, args) ==
  LET hours == Hours(IF args.hours = None THEN 720 ELSE args.hours)
      seen(c, span) == Reverse(Fetch(h[c].rows, Now - span, Now, FALSE))
      match(c, span) ==
        LET chosen == ChosenStates(seen(c, span), args.values)
        IN  SelectSeq(seen(c, span), LAMBDA row : args.values = {} \/ row.state \in chosen)
      tries(c) == IF args.values = {} THEN <<hours>> ELSE SearchWindows(hours)
      matched(c) == SelectSeq(tries(c), LAMBDA span : match(c, span) # <<>>)
      candidate == FirstThat(Candidates(h, args.entity, args.values),
                             LAMBDA c : matched(c) # <<>>)
  IN  [of |-> candidate,
       row |-> IF matched(candidate) = <<>> THEN None
               ELSE Head(match(candidate, Head(matched(candidate))))]

DefaultHours(analysis) == IF analysis = "streak" THEN 720 ELSE 24

\* Whether the rows of a candidate answer the question.  A duration of none is
\* no answer, but a sibling also answers if its state is a wanted one now.
AnswersAnalysis(h, args, window, all, c) ==
  LET seen == Fetch(h[c].rows, window.from, window.to, TRUE)
      chosen == ChosenStates(seen, args.values)
      holds == h[c].state \in chosen
  IN  CASE args.analysis = "duration" ->
             Intervals(seen, chosen, window) # {} \/ (c # Head(all) /\ holds)
        [] args.analysis = "streak" -> holds
        [] args.analysis = "count" -> Transitions(seen, chosen, window.from) # {}
        [] args.analysis = "stats" -> c = Head(all)

\* The current state is read beside the rows.
AnalysisOf(h, args, window, c) ==
  LET seen == Fetch(h[c].rows, window.from, window.to, TRUE)
      chosen == ChosenStates(seen, args.values)
  IN  [made |-> TRUE, of |-> c, window |-> window, targets |-> chosen] @@
      CASE args.analysis = "duration" -> [hours |-> Duration(seen, chosen, window)]
        [] args.analysis = "count" ->
             [count |-> Cardinality(Transitions(seen, chosen, window.from))]
        [] args.analysis = "stats" -> [stats |-> NumericStats(seen, window)]
        [] args.analysis = "streak" ->
             [streak |-> IF h[c].state \in chosen
                         THEN Streak(h[c].rows, chosen, window) ELSE None]

AnalyzeAmong(h, args, window, all) ==
  AnalysisOf(h, args, window,
             FirstThat(all, LAMBDA c : AnswersAnalysis(h, args, window, all, c)))

\* tool_analyze_entity_history
Analyze(h, args) ==
  LET window == QueryWindow(args, DefaultHours(args.analysis), args.past)
  IN  IF window = None \/ (args.analysis \in {"duration", "streak"} /\ args.values = {})
      THEN [made |-> FALSE]
      ELSE AnalyzeAmong(h, args, window, Candidates(h, args.entity, args.values))
=============================================================================
