---------------------------- MODULE HomeRegistry ----------------------------
(***************************************************************************)
(* The home that the tools look at: entities, devices, areas, floors and   *)
(* labels as Home Assistant's registries keep them, and what the           *)
(* integration works out from them.  A home is a record of functions;      *)
(* `states` lists the entities that have a state, in the order Core gives. *)
(* A text is the sequence of its words and separators, so that a substring *)
(* is a run of them; case is not distinguished.                            *)
(***************************************************************************)
EXTENDS Integers, SequencesExt, FiniteSetsExt

CONSTANT None

Separators == {" ", ".", "_", "-"}

Within(term, text) ==
  \E i \in 0..Len(text) - Len(term) : SubSeq(text, i + 1, i + Len(term)) = term

Tokens(term) == ToSet(term) \ Separators

\* The elements of a set in a strict order.
Ordered(set, Before(_, _)) ==
  [i \in 1..Cardinality(set) |->
     CHOOSE x \in set : Cardinality({y \in set : Before(y, x)}) = i - 1]

\* The entity's id is its domain, a dot and its object id.
DomainOf(h, e) == Head(h.entity[e].id)

\* Entities the assistant may see: exposed ones that have a state.
Visible(h) == {e \in ToSet(h.states) : h.entity[e].exposed}

\* device_effective_area_id: a child device is where its parent is.
DeviceArea(h, d) ==
  IF h.device[d].area = None /\ h.device[d].parent # None
  THEN h.device[h.device[d].parent].area
  ELSE h.device[d].area

AreaOf(h, e) ==
  LET entity == h.entity[e]
  IN  IF entity.area # None THEN entity.area
      ELSE IF entity.device # None THEN DeviceArea(h, entity.device) ELSE None

FloorAt(h, a) == IF a = None THEN None ELSE h.area[a].floor

LabelsAt(h, a) == IF a = None THEN {} ELSE h.area[a].labels

\* _get_entity_context: an entity is on the floor of its area and has the
\* labels of its device and of its area besides its own.
EntityContext(h, e) ==
  LET d == h.entity[e].device
      a == AreaOf(h, e)
  IN  [device |-> d, area |-> a, floor |-> FloorAt(h, a),
       labels |-> h.entity[e].labels \cup LabelsAt(h, a) \cup
                  (IF d = None THEN {} ELSE h.device[d].labels)]

\* _get_device_context
DeviceContext(h, d) ==
  LET a == DeviceArea(h, d)
  IN  [device |-> d, area |-> a, floor |-> FloorAt(h, a),
       labels |-> h.device[d].labels \cup LabelsAt(h, a)]

\* _build_device_entity_map: the visible entities of a device.
EntitiesOf(h, d) == {e \in Visible(h) : h.entity[e].device = d}

\* An entity belongs to the areas, floors, devices or labels of a selector.
Belongs(h, e, key, ids) ==
  LET context == EntityContext(h, e)
  IN  CASE key = "area_id" -> context.area \in ids
        [] key = "floor_id" -> context.floor \in ids
        [] key = "device_id" -> context.device \in ids
        [] key = "label_id" -> context.labels \cap ids # {}

-----------------------------------------------------------------------------
(* Names: an area, floor or label is asked for by its name or an alias.     *)

Named(entries, name, NamesOf(_)) == {id \in DOMAIN entries : name \in NamesOf(entries[id])}

ByName(entries, name) ==
  LET exact == Named(entries, name, LAMBDA entry : {entry.name})
      alias == Named(entries, name, LAMBDA entry : entry.aliases)
  IN  IF exact # {} THEN CHOOSE id \in exact : TRUE
      ELSE IF alias # {} THEN CHOOSE id \in alias : TRUE ELSE None

ResolveArea(h, name) == ByName(h.area, name)
ResolveFloor(h, name) == ByName(h.floor, name)
ResolveLabel(h, name) ==
  LET named == Named(h.label, name, LAMBDA entry : {entry.name})
  IN  IF named # {} THEN CHOOSE id \in named : TRUE ELSE None
=============================================================================
