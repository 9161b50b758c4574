---------------------------- MODULE HomeActions ----------------------------
(***************************************************************************)
(* How a tool call becomes a service call of Home Assistant: the target is *)
(* resolved to entities the assistant may see, the service is looked up    *)
(* among those of the domain, the parameters are checked, and the outcome  *)
(* is what the entities say afterwards.  An operation gives the call that  *)
(* is made, or an error and no call.                                       *)
(***************************************************************************)
EXTENDS HomeRegistry

SelectorKeys == {"area_id", "floor_id", "label_id", "device_id"}
TargetKeys == SelectorKeys \cup {"entity_id"}

Error == [error |-> TRUE, entities |-> {}]
Targets(entities) == [error |-> FALSE, entities |-> entities]

NoCall == [made |-> FALSE]

\* A target, and an exclusion, is a function from some keys to sets of ids.
Ids(target, key) == IF key \in DOMAIN target THEN target[key] ELSE {}

-----------------------------------------------------------------------------
(* Targets *)

\* _find_exposed_entities_for_target, for one selector.
Selected(h, key, ids) == {e \in Visible(h) : Belongs(h, e, key, ids)}

\* Core's exclusion: entities that a key of the exclusion refers to.
Excluded(h, exclude) ==
  Ids(exclude, "entity_id") \cup
  {e \in DOMAIN h.entity :
     \E key \in DOMAIN exclude \cap SelectorKeys : Belongs(h, e, key, exclude[key])}

\* Core replaces a group by its members before it excludes; apply_target_
\* exclusions keeps those of the rest that the assistant may see.
Members(h, e) == IF e \in DOMAIN h.group THEN h.group[e] ELSE {e}

\* Mutant: what is left of a group is not looked at again.
ExclusionsUnchecked(h, entities, target) ==
  IF target.exclude = None THEN entities
  ELSE UNION {Members(h, e) : e \in entities} \ Excluded(h, target.exclude)

ApplyExclusions(h, entities, target) ==
  IF target.exclude = None THEN entities
  ELSE (UNION {Members(h, e) : e \in entities} \ Excluded(h, target.exclude)) \cap Visible(h)

\* resolve_target: every entity named must be one the assistant may see, each
\* selector must match something, and several selectors narrow each other.
ResolveTarget(h, target) ==
  LET named == Ids(target.ids, "entity_id")
      active == {key \in SelectorKeys : Ids(target.ids, key) # {}}
      matches == [key \in active |-> Selected(h, key, target.ids[key])]
      combined == {e \in Visible(h) : \A key \in active : e \in matches[key]}
      resolved == ApplyExclusions(h, named \cup (IF active = {} THEN {} ELSE combined), target)
  IN  IF \/ ~(named \subseteq Visible(h))
         \/ \E key \in active : matches[key] = {}
         \/ active # {} /\ combined = {}
         \/ resolved = {}
      THEN Error ELSE Targets(resolved)

\* _restrict_resolved_target_for_service: the entities of the domains that the
\* service takes; without metadata they must all be of one domain.
KeepDomains(h, resolved, domains) ==
  LET kept == {e \in resolved.entities : DomainOf(h, e) \in domains}
  IN  CASE resolved.error -> Error
        [] ~resolved.error /\ domains = {} ->
             IF Cardinality({DomainOf(h, e) : e \in resolved.entities}) > 1
             THEN Error ELSE resolved
        [] OTHER -> IF kept = {} THEN Error ELSE Targets(kept)

NoTarget == [ids |-> <<>>, exclude |-> None]
OnEntities(entities) == [ids |-> [entity_id |-> entities], exclude |-> None]

\* split_data_target_selectors: selectors among the parameters become the
\* target, and are refused beside a target.
Split(target, data) ==
  LET selectors == DOMAIN data \cap (TargetKeys \cup {"exclude"})
      moved == [ids |-> [key \in selectors \ {"exclude"} |-> data[key]],
                exclude |-> IF "exclude" \in selectors THEN data.exclude ELSE None]
  IN  [error |-> selectors # {} /\ target # NoTarget,
       target |-> IF selectors = {} THEN target ELSE moved,
       data |-> [key \in DOMAIN data \ selectors |-> data[key]]]

-----------------------------------------------------------------------------
(* Services: some of the registry's domains stand for the rest.             *)

Domains ==
  [light |-> [controllable |-> TRUE, services |-> {"turn_on", "turn_off", "toggle"}],
   cover |-> [controllable |-> TRUE,
              services |-> {"open_cover", "close_cover", "stop_cover", "set_cover_position"}],
   lock |-> [controllable |-> TRUE, services |-> {"lock", "unlock"}],
   script |-> [controllable |-> TRUE, services |-> {"turn_on", "turn_off"}],
   calendar |-> [controllable |-> TRUE, services |-> {"create_event", "get_events"}],
   media_player |-> [controllable |-> TRUE, services |-> {"turn_on", "media_stop", "join"}],
   camera |-> [controllable |-> TRUE, services |-> {"turn_on", "play_stream"}],
   tts |-> [controllable |-> TRUE, services |-> {"speak"}],
   sensor |-> [controllable |-> FALSE, services |-> {}]]

DomainAliases ==
  [cover |-> [open |-> "open_cover", close |-> "close_cover", stop |-> "stop_cover"],
   lock |-> [secure |-> "lock", unsecure |-> "unlock"],
   calendar |-> [create |-> "create_event"],
   media_player |-> [stop |-> "media_stop"]]

ActionAliases == [activate |-> "turn_on", start |-> "turn_on", stop |-> "turn_off"]

RequiredParameters ==
  [set_cover_position |-> {"position"}, create_event |-> {"summary"}, join |-> {"group_members"},
   play_stream |-> {"media_player"}, speak |-> {"media_player_entity_id", "message"}]

\* Parameters that name entities and are no selectors: what they name is passed
\* on as it was given.
EntityParameters == {"group_members", "media_player", "media_player_entity_id"}

\* map_action_to_service: a service, else the domain's alias, else the general
\* alias where the domain has that service.
MapAction(domain, action) ==
  LET services == Domains[domain].services
      own == IF domain \in DOMAIN DomainAliases THEN DomainAliases[domain] ELSE <<>>
  IN  CASE action \in services -> action
        [] action \in DOMAIN own \ services /\ own[action] \in services -> own[action]
        [] /\ action \in DOMAIN ActionAliases \ (DOMAIN own \cup services)
           /\ ActionAliases[action] \in services -> ActionAliases[action]
        [] OTHER -> action

\* validate_service with validate_domain_action: None for an error.
ServiceOf(h, domain, action) ==
  IF /\ domain \notin h.switched_off /\ domain \in DOMAIN Domains
     /\ Domains[domain].controllable
     /\ MapAction(domain, action) \in Domains[domain].services
  THEN MapAction(domain, action) ELSE None

DateRange == {"start_date", "end_date"}
TimeRange == {"start_date_time", "end_date_time"}

\* validate_service_parameters: an event is scheduled in exactly one of three
\* ways, and a range has both its ends.
ValidParameters(service, given) ==
  LET ways == {keys \in {DateRange, TimeRange, {"in"}} : keys \cap given # {}}
  IN  /\ service \in DOMAIN RequiredParameters => RequiredParameters[service] \subseteq given
      /\ service = "create_event" =>
           Cardinality(ways) = 1 /\ \A keys \in ways : keys \subseteq given

With(key, value, data) ==
  [k \in DOMAIN data \cup {key} |-> IF k = key THEN value ELSE data[k]]

\* _migrate_deprecated_light_color_temp: mireds become kelvins, a kelvin value
\* that was given too wins; None for what cannot be converted.
MigrateColor(data) ==
  LET rest == [key \in DOMAIN data \ {"color_temp"} |-> data[key]]
      value == data.color_temp
  IN  CASE "color_temp_kelvin" \in DOMAIN data -> rest
        [] "color_temp_kelvin" \notin DOMAIN data /\ value \in 100..1000 ->
             With("color_temp_kelvin", 1000000 \div value, rest)
        [] "color_temp_kelvin" \notin DOMAIN data /\ value > 1000 ->
             With("color_temp_kelvin", value, rest)
        [] OTHER -> None

-----------------------------------------------------------------------------
(* What becomes of a call *)

\* The service call that Home Assistant gets, {**resolved_target, **data}: the
\* entities it is to act on, and those that its parameters name besides.
Call(domain, service, entities, data) ==
  [made |-> TRUE, domain |-> domain, service |-> service,
   entities |-> IF "entity_id" \in DOMAIN data THEN data.entity_id ELSE entities,
   selectors |-> DOMAIN data \cap SelectorKeys,
   besides |-> UNION {data[key] : key \in DOMAIN data \cap EntityParameters}]

\* _get_action_state_expectation: slow mechanical actions have a final state.
Expectation(service, data) ==
  CASE service = "lock" -> "locked"
    [] service = "unlock" -> "unlocked"
    [] service \in {"close_cover", "close_valve"} -> "closed"
    [] service \in {"open_cover", "open_valve"} -> "open"
    [] service = "set_cover_position" /\ data.position <= 0 -> "closed"
    [] service = "set_cover_position" /\ data.position >= 100 -> "open"
    [] OTHER -> None

\* _observe_action_outcome: seen every half a second for three seconds, or
\* until all the entities that it looks at are in the final state.
Polls == 7
Observed == 10

Outcome(service, data, entities, seen) ==
  LET final == Expectation(service, data)
      looked == {e \in entities : Cardinality({f \in entities : f < e}) < Observed}
  IN  IF final = None THEN "snapshot"
      ELSE IF \E poll \in 1..Polls : \A e \in looked : seen[poll][e] = final
           THEN "confirmed" ELSE "pending"

\* tool_perform_action: `entity` is the short form of a target of entities.
\* The call is made before its outcome is looked at.
PerformAction(h, args) ==
  LET asked == IF args.entity = None THEN args.target ELSE OnEntities({args.entity})
      split == Split(asked, args.data)
      service == ServiceOf(h, args.domain, args.action)
      resolved == KeepDomains(h, ResolveTarget(h, split.target), {args.domain})
      data == IF args.domain = "light" /\ "color_temp" \in DOMAIN split.data
              THEN MigrateColor(split.data) ELSE split.data
  IN  IF \/ args.entity # None /\ args.target # NoTarget
         \/ split.error \/ service = None \/ resolved.error \/ data = None
      THEN NoCall
      ELSE IF ~ValidParameters(service, DOMAIN data) THEN NoCall
      ELSE Call(args.domain, service, resolved.entities, data)

\* tool_run_script and tool_run_automation: only what is exposed is run.
RunEntity(h, e) ==
  IF h.entity[e].exposed
  THEN [made |-> TRUE, domain |-> DomainOf(h, e),
        service |-> IF DomainOf(h, e) = "script" THEN Last(h.entity[e].id) ELSE "trigger",
        entities |-> {e}, selectors |-> {}, besides |-> {}]
  ELSE NoCall

\* _get_response_service_info: a service that gives a response, and for a
\* script also a script that is exposed.
HasResponse(h, domain, service) ==
  /\ domain \notin h.switched_off
  /\ <<domain, service>> \in DOMAIN h.responds
  /\ \A e \in DOMAIN h.entity : h.entity[e].id = <<domain, ".", service>> /\ domain = "script"
                                  => h.entity[e].exposed

\* tool_call_service_with_response: the target may be left out; the metadata
\* of the service names the domains and the fields it needs.
CallWithResponse(h, args) ==
  LET split == Split(args.target, args.data)
      info == h.responds[<<args.domain, args.action>>]
      resolved == IF split.target = NoTarget THEN Targets({})
                  ELSE KeepDomains(h, ResolveTarget(h, split.target), info.domains)
  IN  IF \/ split.error \/ ~HasResponse(h, args.domain, args.action)
      THEN NoCall
      ELSE IF resolved.error \/ ~(info.required \subseteq DOMAIN split.data) THEN NoCall
      ELSE Call(args.domain, args.action, resolved.entities, split.data)
=============================================================================
