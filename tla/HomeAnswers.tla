---------------------------- MODULE HomeAnswers ----------------------------
(***************************************************************************)
(* Questions that a service of Home Assistant answers: the forecast of a   *)
(* day and the events of calendars.  The entity to ask is found by the     *)
(* search of Discovery, the service is called as HomeActions calls it, and *)
(* what it gives is cut down to what was asked.                            *)
(***************************************************************************)
EXTENDS Discovery, HomeActions

Everything ==
  [f \in Filters \cup {"name"} |-> IF f = "name" THEN <<>> ELSE None]

OfDomain(domain, name) == [Everything EXCEPT !.domain = domain, !.name = name]

UpTo(limit, items) == SubSeq(items, 1, Min({limit, Len(items)}))

-----------------------------------------------------------------------------
(* Forecasts.  Days are numbers, today is 0.                                *)

ForecastKinds == <<"daily", "twice_daily", "hourly">>

\* _prepare_response_service_data: the type asked for if all the targets that
\* have forecasts have it, else the first kind that they share.
ForecastType(h, entities, asked) ==
  LET some == {e \in entities : h.entity[e].forecasts # {}}
      shared == {i \in 1..3 : \A e \in some : ForecastKinds[i] \in h.entity[e].forecasts}
  IN  IF some = {} \/ shared = {} \/ \E i \in shared : ForecastKinds[i] = asked THEN asked
      ELSE ForecastKinds[Min(shared)]

\* _resolve_weather_forecast_target: the entity that was named, else the best
\* of the first ten that are found, those with a forecast first.
WeatherEntity(h, entity, name) ==
  LET named == KeepDomains(h, ResolveTarget(h, OnEntities({entity})), {"weather"})
      none(e) == h.entity[e].forecasts = {}
      best == Ordered(ToSet(UpTo(10, Found(h, OfDomain("weather", name)))),
                      LAMBDA e, f : (none(f) /\ ~none(e)) \/ (none(e) = none(f) /\ e < f))
  IN  IF entity = None THEN Head(Append(best, None))
      ELSE IF named.error THEN None ELSE entity

PerDay == [daily |-> 1, twice_daily |-> 2, hourly |-> 24]

\* _extract_weather_entries_for_date: the entries of that day in the order of
\* time; where there are none, those at the place where that day's would be if
\* the first was today's.
EntriesFor(entries, day, type) ==
  LET dated == {i \in DOMAIN entries : entries[i].day = day}
      first == day * PerDay[type] + 1
  IN  IF dated # {}
      THEN [k \in 1..Cardinality(dated) |->
              entries[Ordered(dated, LAMBDA i, j : entries[i].hour < entries[j].hour)[k]]]
      ELSE IF day < 0 \/ first > Len(entries) THEN <<>>
      ELSE SubSeq(entries, first, Min({first + PerDay[type] - 1, Len(entries)}))

\* The service answers for a kind that the entity has.
ForecastOf(h, args, entity) ==
  LET type == ForecastType(h, {entity}, args.type)
  IN  IF entity = None THEN [made |-> FALSE, entries |-> <<>>]
      ELSE [made |-> TRUE, entity |-> entity, type |-> type,
            entries |-> IF type \in h.entity[entity].forecasts
                        THEN EntriesFor(h.outlook[type], args.day, type) ELSE <<>>]

\* tool_get_weather_forecast
Forecast(h, args) == ForecastOf(h, args, WeatherEntity(h, args.entity, args.name))

-----------------------------------------------------------------------------
(* Calendars.  Times are numbers of hours, days begin at multiples of 24.   *)

\* _build_calendar_search_window
Window(when, days, now) ==
  LET midnight == 24 * (now \div 24)
  IN  CASE when = "now" -> [from |-> now, to |-> now + 24 * days]
        [] when = "today" -> [from |-> midnight, to |-> midnight + 24]
        [] when = "tomorrow" -> [from |-> midnight + 24, to |-> midnight + 48]

GenericWords == {"calendar", "event", "next"}

\* _build_calendar_name_filters: the query, then the query without words that
\* mean no calendar in particular.
NameFilters(query, name) ==
  LET words == SelectSeq(query, LAMBDA word : word \notin GenericWords \cup Separators)
      told == FoldLeft(LAMBDA text, word : IF text = <<>> THEN <<word>>
                                           ELSE text \o <<" ", word>>, <<>>, words)
  IN  CASE name # <<>> -> <<name>>
        [] name = <<>> /\ query = <<>> -> <<<<>>>>
        [] OTHER -> IF told \in {<<>>, query} THEN <<query>> ELSE <<query, told>>

CalendarsNamed(h, name) == ToSet(UpTo(25, Found(h, OfDomain("calendar", name))))

\* _resolve_calendar_event_targets: the entity that was given, else the first of
\* the names that finds any; a query that names none is asked of all calendars.
CalendarTargets(h, args, hits) ==
  LET given == KeepDomains(h, ResolveTarget(h, OnEntities({args.entity})), {"calendar"})
      first == Head(SelectSeq(hits, LAMBDA hit : hit # {}) \o <<{}>>)
      fallback == first = {} /\ args.query # <<>> /\ args.name = <<>>
  IN  IF args.entity # None THEN [entities |-> given.entities, fallback |-> FALSE]
      ELSE [entities |-> IF fallback THEN CalendarsNamed(h, <<>>) ELSE first,
            fallback |-> fallback]

Calendars(h, args) ==
  LET names == NameFilters(args.query, args.name)
  IN  CalendarTargets(h, args, [i \in DOMAIN names |-> CalendarsNamed(h, names[i])])

\* get_events gives those of the window; _collect_calendar_event_matches keeps
\* those that mention the text, the earliest first.
EventMatches(h, entities, window, text) ==
  Ordered({event \in h.events :
             /\ event.calendar \in entities
             /\ event.start < window.to /\ event.end > window.from
             /\ Within(text, event.summary)},
          LAMBDA x, y : x.start < y.start)

\* The text to look for: a query that named no calendar is taken for it.
TextFor(args, chosen) ==
  IF args.text # <<>> THEN args.text ELSE IF chosen.fallback THEN args.query ELSE <<>>

EventsIn(h, args, chosen, text) ==
  EventMatches(h, chosen.entities, Window(args.when, args.days, args.now), text)

EventsOf(h, args, chosen) ==
  [made |-> chosen.entities # {},
   events |-> UpTo(CoerceInt(args.limit, 5, 1, 20),
                   EventsIn(h, args, chosen, TextFor(args, chosen)))]

\* tool_get_calendar_events
CalendarEvents(h, args) == EventsOf(h, args, Calendars(h, args))
=============================================================================
