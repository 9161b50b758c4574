------------------------------ MODULE MCHomes ------------------------------
(***************************************************************************)
(* Small homes, searches and targets for the operations of Discovery and   *)
(* HomeActions.                                                            *)
(***************************************************************************)
EXTENDS HomeRegistry

Entity(id, name, area, device) ==
  [id |-> id, name |-> name, area |-> area, device |-> device, exposed |-> TRUE,
   aliases |-> {}, labels |-> {}, state |-> "on", device_class |-> None, forecasts |-> {}]

Entities ==
  <<Entity(<<"light", ".", "kitchen", "_", "lamp">>, <<"kitchen", " ", "lamp">>, None, 11),
    [Entity(<<"light", ".", "all">>, <<"all">>, "hall", None)
       EXCEPT !.device_class = "group", !.state = "off"],
    Entity(<<"lock", ".", "door">>, <<"door">>, "hall", 12),
    Entity(<<"script", ".", "night">>, <<"night">>, None, None),
    [Entity(<<"person", ".", "ann">>, <<"ann", " ", "lee">>, None, None)
       EXCEPT !.aliases = {<<"mum">>}],
    [Entity(<<"device_tracker", ".", "ann">>, <<"ann", " ", "phone">>, None, None)
       EXCEPT !.labels = {"calm"}],
    Entity(<<"sensor", ".", "cat", "_", "ble_area">>, <<"tag">>, None, 12),
    Entity(<<"input_boolean", ".", "cat", "_", "inside">>, <<"cat">>, "kitchen", None)>>

Areas ==
  [kitchen |-> [name |-> <<"kitchen">>, aliases |-> {<<"galley">>}, floor |-> "ground",
                labels |-> {"calm"}],
   hall |-> [name |-> <<"hall">>, aliases |-> {}, floor |-> "ground", labels |-> {}]]

\* Services that give a response, with the domains that their metadata names.
Responds ==
  (<<"lock", "get_log">> :> [domains |-> {"lock"}, required |-> {"since"}]) @@
  (<<"script", "night">> :> [domains |-> {}, required |-> {}]) @@
  (<<"notify", "ask">> :> [domains |-> {}, required |-> {}])

Home ==
  [entity |-> Entities, states |-> <<7, 2, 1, 3, 5, 4, 6, 8>>,
   device |-> (11 :> [name |-> <<"lamp">>, aliases |-> {}, maker |-> <<"acme">>,
                       area |-> "kitchen", parent |-> None, labels |-> {}]) @@
              (12 :> [name |-> <<"hub">>, aliases |-> {<<"box">>}, maker |-> <<"acme">>,
                       area |-> None, parent |-> 11, labels |-> {"main"}]),
   area |-> Areas,
   floor |-> [ground |-> [name |-> <<"ground">>, aliases |-> {<<"below">>}]],
   label |-> [calm |-> [name |-> <<"calm">>], main |-> [name |-> <<"main">>]],
   inferred |-> [tags |-> [wild |-> FALSE, words |-> <<"ble_area">>]],
   group |-> (2 :> {1, 3}), switched_off |-> {}, max_limit |-> 100,
   responds |-> Responds]

Homes ==
  {[Home EXCEPT !.entity = [e \in 1..8 |->
      [Entities[e] EXCEPT !.exposed = e \notin hidden,
                          !.area = IF e = 1 THEN place ELSE @]]] :
    hidden \in {{}, {1, 4}, {5}}, place \in {None, "hall"}}

\* With a loudspeaker that may be joined to others.
ActingHomes ==
  {[h EXCEPT !.entity[8] = Entity(<<"media_player", ".", "hall">>, <<"speaker">>, "hall", None)] :
    h \in Homes}

-----------------------------------------------------------------------------

Blank ==
  [domain |-> None, entity_type |-> None, area |-> None, floor |-> None, label |-> None,
   state |-> None, device_class |-> None, pattern |-> None, inferred_type |-> None,
   maker |-> None, name |-> <<>>]

FilterValues ==
  [domain |-> {"light", "person", "all"}, entity_type |-> {"lock"},
   area |-> {<<"kitchen">>, <<"galley">>, <<"hall">>, <<"ground">>, <<"attic">>},
   floor |-> {<<"below">>, <<"attic">>}, label |-> {<<"calm">>, <<"main">>},
   state |-> {"off"}, device_class |-> {"group"},
   pattern |-> {[wild |-> TRUE, words |-> <<"light", ".">>],
                [wild |-> FALSE, words |-> <<"cat">>]},
   inferred_type |-> {"tags", "unheard_of"}, maker |-> {<<"acme">>},
   name |-> {<<"ann">>, <<"cat">>, <<"everyone">>, <<"lamp">>, <<"lamp", " ", "kitchen">>,
             <<"kitchen">>}]

\* Up to two filters.
Searches ==
  UNION {{[[Blank EXCEPT ![f] = v] EXCEPT ![g] = w] : v \in FilterValues[f], w \in FilterValues[g]} :
           f \in DOMAIN FilterValues, g \in DOMAIN FilterValues}

\* A search that is of one place, and the selector that means the same.
PlaceOf(h, r) ==
  CASE r.area # None /\ ResolveArea(h, r.area) # None ->
         [area_id |-> {ResolveArea(h, r.area)}]
    [] r.area # None /\ ResolveArea(h, r.area) = None /\ ResolveFloor(h, r.area) # None ->
         [floor_id |-> {ResolveFloor(h, r.area)}]
    [] r.floor # None /\ ResolveFloor(h, r.floor) # None ->
         [floor_id |-> {ResolveFloor(h, r.floor)}]
    [] r.label # None /\ ResolveLabel(h, r.label) # None ->
         [label_id |-> {ResolveLabel(h, r.label)}]
    [] OTHER -> <<>>

-----------------------------------------------------------------------------
Target(ids, exclude) == [ids |-> ids, exclude |-> exclude]

TargetsAsked ==
  {Target(<<>>, None)} \cup
  {Target(ids, exclude) :
     ids \in {[entity_id |-> {1}], [entity_id |-> {2}], [area_id |-> {"kitchen"}],
              [entity_id |-> {3}, floor_id |-> {"ground"}],
              [area_id |-> {"hall"}, label_id |-> {"main"}], [device_id |-> {11, 12}]},
     exclude \in {None, [entity_id |-> {3}], [area_id |-> {"hall"}]}}

\* Domain, action and parameters of a call.
Act(domain, action, data) == [domain |-> domain, action |-> action, data |-> data]

ActionsAsked ==
  {Act("light", "activate", <<>>), Act("light", "turn_on", [color_temp |-> 300]),
   Act("light", "turn_on", [color_temp |-> 5]), Act("light", "turn_on", [entity_id |-> {4}]),
   Act("light", "turn_off", [area_id |-> {"kitchen"}]), Act("light", "stop", <<>>),
   Act("light", "turn_on", [exclude |-> [entity_id |-> {1}], floor_id |-> {"ground"}]),
   Act("light", "lift", <<>>), Act("lock", "secure", <<>>), Act("lock", "unlock", <<>>),
   Act("cover", "set_cover_position", <<>>), Act("sensor", "turn_on", <<>>),
   Act("script", "turn_on", [entity_id |-> {4}]), Act("calendar", "create", [summary |-> 1]),
   Act("media_player", "stop", <<>>), Act("media_player", "join", [entity_id |-> {8}]),
   Act("media_player", "join", [group_members |-> {4}]),
   Act("media_player", "join", [entity_id |-> {8}, group_members |-> {1}])}

ActionsObserved ==
  {[service |-> service, data |-> [position |-> position]] :
     service \in {"lock", "unlock", "open_cover", "close_cover", "close_valve",
                 "set_cover_position", "turn_on"},
     position \in {0, 50, 100}}

ResponsesAsked ==
  {Act("lock", "get_log", [since |-> 1]), Act("lock", "get_log", <<>>),
   Act("script", "night", <<>>), Act("notify", "ask", [area_id |-> {"hall"}]),
   Act("notify", "ask", [entity_id |-> {4}]), Act("light", "turn_on", <<>>)}

-----------------------------------------------------------------------------
\* Weather and calendars: forecasts that begin today or tomorrow, some of them
\* out of order, and events that overlap.
Answering(id, name, forecasts) == [Entity(id, name, None, None) EXCEPT !.forecasts = forecasts]

AnswerEntities ==
  <<Answering(<<"weather", ".", "shed">>, <<"shed">>, {}),
    Answering(<<"weather", ".", "home">>, <<"home">>, {"daily", "twice_daily"}),
    [Answering(<<"calendar", ".", "family">>, <<"family">>, {}) EXCEPT !.area = "kitchen"],
    Answering(<<"calendar", ".", "school">>, <<"school">>, {}),
    Answering(<<"light", ".", "school">>, <<"school">>, {})>>

At(day, hour) == [day |-> day, hour |-> hour]

Outlooks ==
  {[daily |-> <<At(0, 12), At(1, 12), At(2, 12)>>,
    twice_daily |-> <<At(0, 18), At(1, 18), At(1, 6)>>],
   [daily |-> <<At(1, 12), At(2, 12)>>, twice_daily |-> <<At(0, 18), At(0, 6)>>]}

Event(calendar, from, to, summary) ==
  [calendar |-> calendar, start |-> from, end |-> to, summary |-> summary]

Events ==
  {Event(3, 9, 12, <<"dentist">>), Event(4, 20, 30, <<"play">>), Event(3, 34, 36, <<"play">>),
   Event(4, 40, 41, <<"school">>), Event(4, 60, 61, <<"dentist">>)}

AnswerHomes ==
  {[entity |-> [e \in 1..5 |-> [AnswerEntities[e] EXCEPT !.exposed = e \notin hidden]],
    states |-> <<5, 1, 2, 4, 3>>, device |-> <<>>, area |-> Areas,
    floor |-> Home.floor, label |-> Home.label, inferred |-> <<>>, group |-> <<>>,
    switched_off |-> {}, max_limit |-> 100, responds |-> <<>>,
    outlook |-> outlook, events |-> Events] :
      hidden \in {{}, {2}, {3}, {1, 4}}, outlook \in Outlooks}

ForecastsAsked ==
  [entity : {None, 1, 2, 3}, name : {<<>>, <<"home">>}, day : -1..3,
   type : {None, "daily", "twice_daily", "hourly"}]

CalendarsAsked ==
  {[entity |-> None, name |-> <<>>, text |-> <<>>, query |-> query, when |-> when, days |-> 2,
    now |-> 10, limit |-> limit] :
     query \in {<<>>, <<"family">>, <<"next", " ", "dentist">>, <<"dentist">>, <<"school">>},
     when \in {"now", "today", "tomorrow"}, limit \in {None, 1}}
  \cup
  {[entity |-> entity, name |-> name, text |-> text, query |-> <<>>, when |-> "now", days |-> 3,
    now |-> 10, limit |-> limit] :
     entity \in {None, 4}, name \in {<<>>, <<"kitchen">>}, text \in {<<>>, <<"play">>},
     limit \in {1, 2}}
=============================================================================
