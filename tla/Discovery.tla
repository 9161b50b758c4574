------------------------------ MODULE Discovery ------------------------------
(***************************************************************************)
(* discovery.py: how the entities and devices that the assistant may see   *)
(* are searched, ranked and given out a page at a time.  A request is a    *)
(* record of filters, each None (an empty name) where it was not given.    *)
(***************************************************************************)
EXTENDS HomeRegistry

Filters ==
  {"entity_type", "domain", "area", "floor", "label", "state", "device_class",
   "pattern", "inferred_type"}

Given(r) == {f \in Filters : r[f] # None} \cup (IF r.name = <<>> THEN {} ELSE {"name"})

-----------------------------------------------------------------------------
(* Pages *)

\* _coerce_int_arg: a missing or unreadable number is the default.
CoerceInt(value, default, minimum, maximum) ==
  LET parsed == IF value = None THEN default ELSE value
  IN  Max({minimum, Min({parsed, maximum})})

\* Mutant: the next page starts after a whole page.
PageOverrun(items, limit, offset) ==
  LET page == SubSeq(items, offset + 1, Min({offset + limit, Len(items)}))
  IN  [items |-> page, total |-> Len(items),
       next |-> IF offset + limit < Len(items) + 1 /\ page # <<>>
                THEN offset + limit + 1 ELSE None]

\* _build_page_metadata over the slice [offset : offset + limit].
PageOf(items, limit, offset) ==
  LET page == SubSeq(items, offset + 1, Min({offset + limit, Len(items)}))
      remaining == Max({Len(items) - (offset + Len(page)), 0})
  IN  [items |-> page, total |-> Len(items),
       next |-> IF remaining > 0 THEN offset + Len(page) ELSE None]

-----------------------------------------------------------------------------
(* Search scores: <<the whole text, part of it, all its tokens>>             *)

Strength ==
  [entity_name |-> <<120, 90, 75>>, entity_id |-> <<115, 85, 70>>,
   entity_alias |-> <<110, 80, 65>>, device_name |-> <<95, 70, 60>>,
   device_alias |-> <<90, 65, 55>>, place |-> <<45, 25, 20>>,
   place_alias |-> <<40, 22, 18>>, label |-> <<35, 20, 16>>]

DeviceStrength ==
  [device_name |-> <<120, 90, 75>>, device_alias |-> <<110, 80, 65>>,
   maker |-> <<55, 35, 28>>, place |-> <<45, 25, 20>>,
   place_alias |-> <<40, 22, 18>>, label |-> <<35, 20, 16>>,
   entity_name |-> <<70, 45, 36>>, entity_id |-> <<68, 44, 34>>,
   entity_alias |-> <<64, 42, 32>>]

\* _score_search_value
ScoreValue(term, text, strength) ==
  CASE text = <<>> -> 0
    [] text # <<>> /\ text = term -> strength[1]
    [] text # term /\ Within(term, text) -> strength[2]
    [] ~Within(term, text) /\ Tokens(term) # {} /\ Tokens(term) \subseteq Tokens(text) ->
         strength[3]
    [] OTHER -> 0

\* Each of the texts, a sequence of <<kind, text>>, adds its score.
Score(term, texts, strength) ==
  FoldLeft(LAMBDA sum, entry : sum + ScoreValue(term, entry[2], strength[entry[1]]), 0, texts)

Each(kind, set) == [i \in 1..Cardinality(set) |-> <<kind, SetToSeq(set)[i]>>]

PlaceTexts(h, context) ==
  (IF context.area = None THEN <<>>
   ELSE <<<<"place", h.area[context.area].name>>>> \o
        Each("place_alias", h.area[context.area].aliases)) \o
  (IF context.floor = None THEN <<>>
   ELSE <<<<"place", h.floor[context.floor].name>>>> \o
        Each("place_alias", h.floor[context.floor].aliases)) \o
  Each("label", {h.label[l].name : l \in context.labels})

\* The name counts as `device` and as `device_name` or `device_name_by_user`.
DeviceTexts(h, d) ==
  IF d = None THEN <<>>
  ELSE <<<<"device_name", h.device[d].name>>, <<"device_name", h.device[d].name>>>> \o
       Each("device_alias", h.device[d].aliases)

EntityTexts(h, e) ==
  <<<<"entity_name", h.entity[e].name>>, <<"entity_id", h.entity[e].id>>>> \o
  Each("entity_alias", h.entity[e].aliases)

\* _get_entity_match_details: the name counts as the entity's and as friendly.
EntityScore(h, e, term) ==
  LET context == EntityContext(h, e)
  IN  Score(term, EntityTexts(h, e) \o <<<<"entity_name", h.entity[e].name>>>> \o
                  DeviceTexts(h, context.device) \o PlaceTexts(h, context), Strength)

\* _get_device_match_details: a device is also found by its entities.
DeviceScore(h, d, term) ==
  Score(term,
        DeviceTexts(h, d) \o <<<<"maker", h.device[d].maker>>>> \o
        PlaceTexts(h, DeviceContext(h, d)) \o
        FlattenSeq([i \in 1..Cardinality(EntitiesOf(h, d)) |->
                      EntityTexts(h, SetToSeq(EntitiesOf(h, d))[i])]),
        DeviceStrength)

-----------------------------------------------------------------------------
(* The general search *)

\* Where a place filter leads: an area, else a floor of that name unless a
\* floor was given too; a name nobody has fails the search.
Places(h, r) ==
  LET area == IF r.area = None THEN None ELSE ResolveArea(h, r.area)
      asFloor == IF r.area = None \/ area # None \/ r.floor # None THEN None
                 ELSE ResolveFloor(h, r.area)
      floor == IF r.floor = None THEN asFloor ELSE ResolveFloor(h, r.floor)
      label == IF r.label = None THEN None ELSE ResolveLabel(h, r.label)
  IN  [area |-> area, floor |-> floor, label |-> label,
       known |-> /\ r.area # None => area # None \/ asFloor # None
                 /\ r.floor # None => floor # None
                 /\ r.label # None => label # None]

\* A pattern with no wildcard in it may match anywhere in the id.
Matches(pattern, id) ==
  IF pattern.wild THEN IsPrefix(pattern.words, id) ELSE Within(pattern.words, id)

\* An inferred type stands for the pattern that the index found for it; a
\* type that the index does not have filters nothing.
PatternOf(h, r) ==
  IF r.inferred_type # None /\ r.pattern = None
  THEN IF r.inferred_type \in DOMAIN h.inferred THEN h.inferred[r.inferred_type] ELSE None
  ELSE r.pattern

\* What a name scores, where one was given; 1 otherwise.
RankOf(h, r, e) == IF r.name = <<>> THEN 1 ELSE EntityScore(h, e, r.name)

Fits(h, r, places, e) ==
  LET context == EntityContext(h, e)
      pattern == PatternOf(h, r)
  IN  /\ \A domain \in {r.domain, r.entity_type} \ {None} : DomainOf(h, e) = domain
      /\ r.state # None => h.entity[e].state = r.state
      /\ r.device_class # None => h.entity[e].device_class = r.device_class
      /\ pattern # None => Matches(pattern, h.entity[e].id)
      /\ places.area # None => context.area = places.area
      /\ places.floor # None => context.floor = places.floor
      /\ places.label # None => places.label \in context.labels

\* What has a score, best first; ids are numbers in the order of the names.
BestFirst(rank) ==
  Ordered({x \in DOMAIN rank : rank[x] > 0},
          LAMBDA x, y : rank[x] > rank[y] \/ (rank[x] = rank[y] /\ x < y))

\* By score where a name was given, by id otherwise.
General(h, r) ==
  LET places == Places(h, r)
  IN  IF ~places.known THEN <<>>
      ELSE BestFirst([e \in {e \in Visible(h) : Fits(h, r, places, e)} |-> RankOf(h, r, e)])

-----------------------------------------------------------------------------
(* The smart searches give groups of entities in the order of the states.   *)

Grouped(h, set, GroupOf(_), groups) ==
  FlattenSeq([i \in 1..Len(groups) |->
                SelectSeq(h.states, LAMBDA e : e \in set /\ GroupOf(e) = groups[i])])

\* Groups in the order in which their first entity comes.
GroupsOf(h, set, GroupOf(_)) ==
  FoldLeft(LAMBDA seen, e : IF e \in set /\ ~Contains(seen, GroupOf(e))
                            THEN Append(seen, GroupOf(e)) ELSE seen,
           <<>>, h.states)

\* An id of the form `from` name `to`, with anything around the name if loose.
Pattern(from, to, loose, group) == [from |-> from, to |-> to, loose |-> loose, group |-> group]

Tracking ==
  <<Pattern(<<"sensor", ".">>, <<"_", "ble_area">>, TRUE, "ble_tracking"),
    Pattern(<<"input_text", ".", "room", "_">>, <<>>, FALSE, "room_tracking"),
    Pattern(<<"input_boolean", ".">>, <<"_", "home">>, FALSE, "presence"),
    Pattern(<<"input_boolean", ".">>, <<"_", "inside">>, FALSE, "presence")>>

PersonPatterns ==
  <<Pattern(<<"person", ".">>, <<>>, FALSE, "primary"),
    Pattern(<<"device_tracker", ".">>, <<>>, TRUE, "device_tracking")>> \o Tracking

PetPatterns ==
  <<Pattern(<<"person", ".">>, <<>>, FALSE, "primary"),
    Pattern(<<"binary_sensor", ".">>, <<>>, FALSE, "primary")>> \o Tracking

HasForm(id, pattern, name) ==
  IF ~pattern.loose THEN id = pattern.from \o name \o pattern.to
  ELSE /\ IsPrefix(pattern.from, id) /\ IsSuffix(pattern.to, id)
       /\ Within(name, SubSeq(id, Len(pattern.from) + 1, Len(id) - Len(pattern.to)))

\* The group of the first pattern that fits, "other" for a name or an alias
\* that contains the words, None for an entity that has nothing to do with it.
Relation(h, e, name, patterns) ==
  LET fits == {i \in 1..Len(patterns) : HasForm(h.entity[e].id, patterns[i], name)}
      called == {h.entity[e].name} \cup h.entity[e].aliases
  IN  IF fits # {} THEN patterns[Min(fits)].group
      ELSE IF \E text \in called : Within(name, text) THEN "other" ELSE None

\* _discover_person_entities_page and _discover_pet_entities_page
Related(h, name, patterns) ==
  Grouped(h, Visible(h), LAMBDA e : Relation(h, e, name, patterns),
          <<"primary", "device_tracking", "ble_tracking", "room_tracking", "presence",
            "other">>)

\* _discover_aggregate_entities_page: people first.
Everyone(h, r) ==
  LET domains == IF r.domain = None
                 THEN {"person", "device_tracker", "binary_sensor"} ELSE {r.domain}
      found == {e \in Visible(h) : /\ DomainOf(h, e) \in domains
                                   /\ r.state # None => h.entity[e].state = r.state}
      group(e) == DomainOf(h, e)
      others == SelectSeq(GroupsOf(h, found, group), LAMBDA g : g # "person")
  IN  Grouped(h, found, group, <<"person">> \o others)

\* _discover_area_entities_page: by domain; the name of a floor is searched
\* as that floor, and only that floor.
InArea(h, r) ==
  LET a == ResolveArea(h, r.area)
      f == ResolveFloor(h, r.area)
      found == {e \in Visible(h) :
                  /\ AreaOf(h, e) = a
                  /\ \A domain \in {r.domain, r.entity_type} \ {None} : DomainOf(h, e) = domain
                  /\ r.state # None => h.entity[e].state = r.state}
      group(e) == DomainOf(h, e)
  IN  IF a # None THEN Grouped(h, found, group, GroupsOf(h, found, group))
      ELSE IF f # None THEN General(h, [r EXCEPT !.area = None, !.floor = h.floor[f].name])
      ELSE <<>>

-----------------------------------------------------------------------------
(* Which search answers a request *)

\* _is_likely_person_name looks at all entities, also those not exposed.
LikelyPerson(h, name) ==
  \E e \in ToSet(h.states) :
    LET id == h.entity[e].id
    IN  \/ /\ DomainOf(h, e) = "person"
           /\ \/ id = <<"person", ".">> \o name
              \/ \E text \in {h.entity[e].name} \cup h.entity[e].aliases : Within(name, text)
        \/ Contains(id, "device_tracker") /\ Within(name, id)
        \/ IsPrefix(<<"input_text", ".", "room", "_">> \o name, id)
        \/ /\ DomainOf(h, e) = "sensor" /\ Within(name, id) /\ Contains(id, "ble_area")

PetWords == {<<"cat">>, <<"dog">>, <<"pet">>}

\* _is_likely_pet_name: is tracked indoors, and has no phone and no person.
LikelyPet(h, name) ==
  LET mentions == {e \in ToSet(h.states) : Within(name, h.entity[e].id)}
      has(words) == \E e \in mentions : Tokens(h.entity[e].id) \cap words # {}
  IN  \/ name \in PetWords
      \/ /\ has({"inside", "room"})
         /\ ~has({"device_tracker"})
         /\ ~\E e \in ToSet(h.states) : h.entity[e].id = <<"person", ".">> \o name

\* _detect_query_type, as far as the name decides it.
QueryType(h, name) ==
  CASE name = <<>> -> "general"
    [] name # <<>> /\ LikelyPerson(h, name) -> IF LikelyPet(h, name) THEN "pet" ELSE "person"
    [] name # <<>> /\ ~LikelyPerson(h, name) /\ Tokens(name) \cap {"who", "everyone", "all"} # {} ->
         "aggregate"
    [] OTHER -> "general"

\* discover_entities_page, before it is cut into pages: "all" is no domain.
Found(h, asked) ==
  LET r == IF asked.domain = "all" THEN [asked EXCEPT !.domain = None] ELSE asked
      type == QueryType(h, r.name)
  IN  CASE type = "person" /\ Given(r) = {"name"} -> Related(h, r.name, PersonPatterns)
        [] type = "pet" /\ Given(r) = {"name"} -> Related(h, r.name, PetPatterns)
        [] type = "aggregate" /\ Given(r) \subseteq {"name", "domain", "state"} ->
             Everyone(h, r)
        [] r.area # None /\ Given(r) \subseteq {"area", "domain", "entity_type", "state"} ->
             InArea(h, r)
        [] OTHER -> General(h, r)

\* discover_devices_page: devices with an entity that may be seen.
FoundDevices(h, r) ==
  LET places == Places(h, r)
      found == {d \in DOMAIN h.device :
                  LET context == DeviceContext(h, d)
                  IN  /\ EntitiesOf(h, d) # {}
                      /\ places.area # None => context.area = places.area
                      /\ places.floor # None => context.floor = places.floor
                      /\ places.label # None => places.label \in context.labels
                      /\ r.domain # None =>
                           \E e \in EntitiesOf(h, d) : DomainOf(h, e) = r.domain
                      /\ r.maker # None => Within(r.maker, h.device[d].maker)}
  IN  IF ~places.known THEN <<>>
      ELSE BestFirst([d \in found |-> IF r.name = <<>> THEN 1 ELSE DeviceScore(h, d, r.name)])

\* list_domains: the visible entities of each domain, counted.
ListDomains(h) ==
  [domain \in {DomainOf(h, e) : e \in Visible(h)} |->
     Cardinality({e \in Visible(h) : DomainOf(h, e) = domain})]

\* list_areas: entities by their own area or that of their device, whether or
\* not they have a state; a child device is not counted where its parent is.
ListAreas(h) ==
  LET exposed == {e \in DOMAIN h.entity : h.entity[e].exposed}
      place(e) == IF h.entity[e].area # None THEN h.entity[e].area
                  ELSE IF h.entity[e].device # None THEN h.device[h.entity[e].device].area
                  ELSE None
      devices == {h.entity[e].device : e \in exposed} \ {None}
  IN  [a \in DOMAIN h.area |->
         [entities |-> Cardinality({e \in exposed : place(e) = a}),
          devices |-> Cardinality({d \in devices : h.device[d].area = a})]]

\* get_entity_details and get_device_details: None for an error.
EntityDetails(h, asked) ==
  [e \in asked |-> IF e \in Visible(h) THEN EntityContext(h, e) ELSE None]

DeviceDetails(h, asked) ==
  [d \in asked |-> IF d \in DOMAIN h.device /\ EntitiesOf(h, d) # {}
                   THEN [context |-> DeviceContext(h, d), entities |-> EntitiesOf(h, d)]
                   ELSE None]

\* The most that the tools say they give at once, and the limit of a page:
\* clamped by the tool to its own maximum and then by the setting.
AdvertisedLimit(h) == h.max_limit

EffectiveLimit(h, limit) == Max({1, Min({CoerceInt(limit, 20, 1, 50), h.max_limit})})

Page(h, items, limit, offset) ==
  PageOf(items, EffectiveLimit(h, limit), CoerceInt(offset, 0, 0, 10000))

\* The pages that a caller gets who follows next_offset from the start.
Listing(h, items, limit) ==
  FoldLeft(LAMBDA seen, k :
             IF seen.next = None THEN seen
             ELSE LET page == Page(h, items, limit, seen.next)
                  IN  [listed |-> seen.listed \o page.items, next |-> page.next],
           [listed |-> <<>>, next |-> 0], [k \in 1..Len(items) + 1 |-> k])
=============================================================================
