----------------------------- MODULE Operations -----------------------------
(***************************************************************************)
(* The sequential parts of the integration, one operation at a time, the   *)
(* tool calls that carry a model selection (ModelRequests), the memory     *)
(* (MemoryStore), the forms (ConfigForms) and the tools that the agent of  *)
(* a profile sees and calls (ProfileTools).  The properties say what a     *)
(* result has to do with the request; several are about a whole sequence   *)
(* of calls, such as the pages of a listing.                               *)
(***************************************************************************)
EXTENDS Integers, SequencesExt, ConfigForms, RecordOperations, TrafficOperations,
        AgentOperations, ModelRequests, MemoryStore

MC == INSTANCE MCHomes
Search == INSTANCE Discovery
Act == INSTANCE HomeActions
Ask == INSTANCE HomeAnswers

-----------------------------------------------------------------------------
(* The home: searches, and calls that act on what was found.                 *)

\* Everything that is said of the entities that a search finds.
SearchAnswer(h, r, limit, found) ==
  [found |-> found, listed |-> Search!Listing(h, found, limit).listed,
   limit |-> Search!EffectiveLimit(h, limit),
   targeted |-> Act!ResolveTarget(h, [ids |-> MC!PlaceOf(h, r), exclude |-> None]),
   details |-> Search!EntityDetails(h, ToSet(found)), domains |-> Search!ListDomains(h)]

Discover ==
  /\ Ready
  /\ \E h \in MC!Homes, r \in MC!Searches, limit \in {1, 80} :
       Answer([op |-> "discover", home |-> h, search |-> r, limit |-> limit],
              SearchAnswer(h, r, limit, Search!Found(h, r)))

DeviceAnswer(h, found) ==
  [listed |-> Search!Listing(h, found, 1).listed,
   details |-> Search!DeviceDetails(h, ToSet(found)),
   targeted |-> [d \in ToSet(found) |->
      Act!ResolveTarget(h, [ids |-> [device_id |-> {d}], exclude |-> None])]]

DiscoverDevices ==
  /\ Ready
  /\ \E h \in MC!Homes, r \in MC!Searches :
       Answer([op |-> "devices", home |-> h, search |-> r, limit |-> 1],
              DeviceAnswer(h, Search!FoundDevices(h, r)))

CallService ==
  /\ Ready
  /\ \E h \in MC!ActingHomes, a \in MC!ActionsAsked, target \in MC!TargetsAsked, entity \in {None, 1, 3} :
       Answer([op |-> "act", home |-> h, domain |-> a.domain],
              Act!PerformAction(h, [domain |-> a.domain, action |-> a.action, data |-> a.data,
                                    target |-> target, entity |-> entity]))

CallForResponse ==
  /\ Ready
  /\ \E h \in MC!ActingHomes, a \in MC!ResponsesAsked, target \in MC!TargetsAsked :
       Answer([op |-> "respond", home |-> h, domain |-> a.domain],
              Act!CallWithResponse(h, [domain |-> a.domain, action |-> a.action, data |-> a.data,
                                       target |-> target]))

RunScript ==
  /\ Ready
  /\ \E h \in MC!Homes, e \in {3, 4} :
       Answer([op |-> "run", home |-> h, domain |-> "script"], Act!RunEntity(h, e))

\* All of the entities are where the action leads from the start, but one.
Observe ==
  /\ Ready
  /\ \E a \in MC!ActionsObserved, n \in {1, 3, 11}, poll \in 1..Act!Polls + 1 : \E late \in 1..n :
       LET final == Act!Expectation(a.service, a.data)
           seen == [p \in 1..Act!Polls |->
                      [e \in 1..n |-> IF e = late /\ p < poll THEN "moving" ELSE final]]
       IN  Answer([op |-> "observe", final |-> final, entities |-> 1..n, done |-> poll <= Act!Polls],
                  [told |-> Act!Outcome(a.service, a.data, 1..n, seen)])

AskForecast ==
  /\ Ready
  /\ \E h \in MC!AnswerHomes, args \in MC!ForecastsAsked :
       Answer([op |-> "forecast", home |-> h, args |-> args], Ask!Forecast(h, args))

AskCalendar ==
  /\ Ready
  /\ \E h \in MC!AnswerHomes, args \in MC!CalendarsAsked :
       Answer([op |-> "calendar", home |-> h, args |-> args],
              Ask!CalendarEvents(h, args) @@ [fallback |-> Ask!Calendars(h, args).fallback])

Operate ==
  \/ AgentNext \/ TrafficNext \/ RecordNext
  \/ Observe \/ AskForecast \/ AskCalendar
  \/ Discover \/ DiscoverDevices \/ CallService \/ CallForResponse \/ RunScript
  \/ Done

\* Bound: a profile or the shared settings are edited, as neither form reads
\* what the other one saves.
EditForms ==
  \/ sharedData = Empty /\ ProfileNext
  \/ profile = NoProfile /\ SharedNext

\* The parts have no state in common: each moves while the others rest.
OperationsInit == Begin /\ CallsInit /\ MemoryInit /\ FormsInit /\ ProfileToolsInit
OperationsNext ==
  \/ /\ CallsInit /\ MemoryInit /\ FormsInit /\ ProfileToolsInit
     /\ Operate /\ UNCHANGED <<callVars, memoryVars, formsVars, profileToolVars>>
  \/ /\ Ready /\ MemoryInit /\ FormsInit /\ ProfileToolsInit
     /\ CallsNext /\ UNCHANGED <<frame, memoryVars, formsVars, profileToolVars>>
  \/ /\ Ready /\ CallsInit /\ FormsInit /\ ProfileToolsInit
     /\ MemoryNext /\ UNCHANGED <<frame, callVars, formsVars, profileToolVars>>
  \/ /\ Ready /\ CallsInit /\ MemoryInit /\ ProfileToolsInit
     /\ EditForms /\ UNCHANGED <<frame, callVars, memoryVars, profileToolVars>>
  \/ /\ Ready /\ CallsInit /\ MemoryInit /\ FormsInit
     /\ ProfileToolsNext /\ UNCHANGED <<frame, callVars, memoryVars, formsVars>>
operationVars == <<frame, callVars, memoryVars, formsVars, profileToolVars>>
OperationsSpec == OperationsInit /\ [][OperationsNext]_operationVars

-----------------------------------------------------------------------------
(* Properties *)

\* The pages of a listing give everything that matches once and nothing else,
\* all of it the assistant may see.  What is listed for an area, a floor or a
\* label is what acting on that place reaches, although three pieces of code
\* work it out, and a device that is listed can be acted on.
FoundIsReached ==
  /\ request.op = "discover" =>
       /\ result.listed = result.found
       /\ IsInjective(result.listed)
       /\ ToSet(result.listed) \subseteq MC!Visible(request.home)
       /\ Search!Given(request.search) \in {{"area"}, {"floor"}, {"label"}} =>
            ToSet(result.listed) = result.targeted.entities
       /\ \A e \in ToSet(result.listed) : result.details[e] # None
       /\ Search!Given(request.search) = {"domain"} /\ result.listed # <<>> =>
            Len(result.listed) = IF request.search.domain = "all"
                                 THEN Cardinality(MC!Visible(request.home))
                                 ELSE result.domains[request.search.domain]
  /\ request.op = "devices" =>
       /\ IsInjective(result.listed) /\ ToSet(result.listed) = DOMAIN result.targeted
       /\ \A d \in DOMAIN result.targeted : ~result.targeted[d].error /\ result.details[d] # None

\* Whatever target a call has, and whatever selectors are put among its
\* parameters, the target that Home Assistant gets is of entities that are
\* exposed, named one by one, and for perform_action of its domain.  It is not
\* said of what other parameters name besides, such as the players to be joined.
ActsOnExposed ==
  request.op \in {"act", "respond", "run"} /\ result.made =>
    /\ \A e \in result.entities : request.home.entity[e].exposed
    /\ result.selectors = {}
    /\ request.op = "act" =>
         \A e \in result.entities : MC!DomainOf(request.home, e) = request.domain

\* A forecast is of a kind that the chosen entity gives, and of all that it says
\* of the day, in the order of time.  The events of a calendar are the earliest
\* ones of the window, as many as were asked for; where the query is no
\* calendar's name, those that mention it.  An action on few entities is said
\* to be done when all of them are where it leads in time.
AnswersFit ==
  /\ request.op = "observe" /\ request.final # None /\ 11 \notin request.entities =>
       (result.told = "confirmed") = request.done
  /\ request.op = "forecast" /\ result.made =>
       LET entity == request.home.entity[result.entity]
           said == request.home.outlook[result.type]
           dated == {said[i] : i \in {i \in DOMAIN said : said[i].day = request.args.day}}
       IN  /\ entity.exposed
           /\ entity.forecasts # {} =>
                /\ result.type \in entity.forecasts
                /\ dated # {} => ToSet(result.entries) = dated
                /\ dated # {} => \A i, j \in DOMAIN result.entries :
                     i < j => result.entries[i].hour < result.entries[j].hour
  /\ request.op = "calendar" /\ result.made =>
       LET args == request.args
           window == Ask!Window(args.when, args.days, args.now)
           text == IF result.fallback THEN args.query ELSE args.text
           wanted == {event \in request.home.events :
                        /\ event.calendar \in MC!Visible(request.home)
                        /\ event.start < window.to /\ event.end > window.from
                        /\ Ask!Within(text, event.summary)}
           given == ToSet(result.events)
       IN  /\ given \subseteq wanted
           /\ Len(result.events) <= Search!CoerceInt(args.limit, 5, 1, 20)
           /\ args.entity = None /\ args.name = <<>> /\ (result.fallback \/ args.query = <<>>) =>
                /\ Len(result.events) = Min({Cardinality(wanted),
                                             Search!CoerceInt(args.limit, 5, 1, 20)})
                /\ \A x \in wanted \ given, y \in given : y.start < x.start

\* What the assistant finds can be acted on, and what it is told of the home is so.
HomeSound == FoundIsReached /\ AnswersFit

\* "Mechanical actions should confirm completion once the expected state is
\* reached": an outcome is confirmed when all entities have got there in time.
ConfirmedMeansDone ==
  request.op = "observe" /\ request.final # None =>
    (result.told = "confirmed") = request.done

\* "Return forecast entries that map to the requested local date."
ForecastIsOfThatDay ==
  request.op = "forecast" =>
    \A i \in DOMAIN result.entries : result.entries[i].day = request.args.day

\* "Maximum number of entities to return for this page (default: 20, max: N)":
\* a page is as long as was asked for, up to the maximum that the tool states.
AdvertisedLimitHonoured ==
  request.op = "discover" /\ request.limit # None =>
    result.limit = Min({request.limit, Search!AdvertisedLimit(request.home)})
=============================================================================
