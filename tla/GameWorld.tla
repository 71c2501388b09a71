----------------------------- MODULE GameWorld -----------------------------
(***************************************************************************)
(* The objects of a world and the commands that change them, as GameWorld  *)
(* (game_world.rs) executes them: scenes and their places, characters,     *)
(* and the items they carry.  A command is executed as a whole or refused: *)
(* execute restores the records it started from, so a refused command is   *)
(* no step.  How the restoration works, and what conditions, skills and    *)
(* rules do in the course of a command, is in WorldRules.                  *)
(*                                                                         *)
(* Objects are numbered in the order they are created.  An item's wearer   *)
(* is always its owner (item.equipped_owner), so equipped is its slot.     *)
(***************************************************************************)
EXTENDS Naturals, Sequences, FiniteSets, FiniteSetsExt

CONSTANTS ItemDefs,     \* item definitions: unit weight, stack limit,
                        \* container capacity (children = 0: none), slots
          RootDef,      \* WorldConfig.inventory_root_definition
          Plans,        \* scene definitions: places and their edges, the
                        \* entry, and the characters
          Start,        \* the definition a world may be bootstrapped with
          Presets,      \* character definitions: inventory, limits, and
                        \* whether there is an agent profile (profile)
          Drafts,       \* inventories of the NpcDrafts a model submits
          Policy,       \* the limits of the GenerationPolicy: how many
                        \* items, and of which definitions (allowed)
          Grants,       \* what a GrantItem effect may give: def, quantity
          MaxObjects    \* bound: objects ever created, by the definition
                        \* a world started with

(* An inventory names the items by their position and the root by 0.       *)
IsInventory(inventory) ==
  /\ inventory = [k \in 1..Len(inventory) |-> inventory[k]] /\ Len(inventory) \in Nat
  /\ \A k \in 1..Len(inventory) :
       /\ inventory[k].def \in DOMAIN ItemDefs /\ inventory[k].quantity \in Nat
       /\ inventory[k].parent \in 0..Len(inventory)

ASSUME GameWorldAssumption ==
  /\ \A d \in DOMAIN ItemDefs :
       {ItemDefs[d].weight, ItemDefs[d].limit, ItemDefs[d].children, ItemDefs[d].maxWeight}
         \subseteq Nat
  /\ RootDef \in DOMAIN ItemDefs /\ ItemDefs[RootDef].children > 0
  /\ Start \subseteq DOMAIN Plans
  /\ \A d \in DOMAIN Plans :
       /\ Len(Plans[d].edges) \in Nat /\ DOMAIN Plans[d].edges = 1..Len(Plans[d].edges)
       /\ Plans[d].characters \in Seq(Range(Plans[d].characters))
       /\ \A e \in Range(Plans[d].characters) : IsInventory(e.inventory)
  /\ \A c \in Presets : IsInventory(c.inventory)
  /\ \A inventory \in Drafts : IsInventory(inventory)
  /\ \A g \in Grants : g[1] \in DOMAIN ItemDefs /\ g[2] \in Nat
  /\ MaxObjects \in [Start -> Nat]

None       == 0            \* no object
NoSlot     == "none"
Generated  == "generated"  \* the origin of a scene no definition describes
Persistent == 0            \* a lifetime; the others name a scene

VARIABLES scene,      \* of each scene: entry place, origin
          place,      \* of each place: its scene, the places next to it
          char,       \* of each character: controller, lifetime, location,
                      \* inventory root
          item,       \* of each item: definition, stack, container or
                      \* place, owner, the slot it is equipped in
          active,     \* WorldState.active_scene
          player,     \* WorldState.player_actor
          objects     \* how many objects were created

gameVars == <<scene, place, char, item, active, player, objects>>

----------------------------------------------------------------------------
(* Containers.                                                             *)

IsContainer(it) == ItemDefs[it.def].children > 0

(* The items an item is in, itself included: the walk up contained_by that *)
(* ensure_no_container_cycle makes, one container further at each step.    *)
Holders(items, i) ==
  LET steps == Cardinality({c \in DOMAIN items : IsContainer(items[c])})
      up[n \in 0..steps] ==
        IF n = 0 THEN {i}
        ELSE LET held == up[n - 1]
             IN  held \cup {items[j].in : j \in held \ {None}}
  IN  up[steps] \ {None}

NoCycle(items) ==
  \A i \in DOMAIN items : items[i].in # None => i \notin Holders(items, items[i].in)

Children(items, c) == {i \in DOMAIN items : items[i].in = c}

Weight(items, set) ==
  MapThenSumSet(LAMBDA i : ItemDefs[items[i].def].weight * items[i].stack, set)

item_tree_weight(items, i) ==
  Weight(items, {j \in DOMAIN items : i \in Holders(items, j)})

container_weight(items, c) ==
  Weight(items, {j \in DOMAIN items \ {c} : c \in Holders(items, j)})

----------------------------------------------------------------------------
(* Making characters and scenes.                                           *)

item_from_definition(def, quantity, parent, owner) ==
  [def |-> def, stack |-> quantity, in |-> parent, at |-> None,
   owner |-> owner, slot |-> NoSlot]

(* A character is object id, its root the next, its items the ones after.  *)
Size(inventory) == 2 + Len(inventory)

InventoryItems(inventory, id, location) ==
  [i \in (id + 1)..(id + 1 + Len(inventory)) |->
     IF i = id + 1
     THEN [def |-> RootDef, stack |-> 1, in |-> None, at |-> location,
           owner |-> id, slot |-> NoSlot]
     ELSE LET spec == inventory[i - id - 1]
          IN  item_from_definition(spec.def, spec.quantity,
                                   id + 1 + spec.parent, id)]

validate_candidate_inventory(items) ==
  /\ \A i \in DOMAIN items :
       /\ items[i].stack <= ItemDefs[items[i].def].limit
       /\ IsContainer(items[i]) => items[i].stack = 1
       /\ items[i].in # None => IsContainer(items[items[i].in])
  /\ NoCycle(items)
  /\ \A c \in {i \in DOMAIN items : IsContainer(items[i])} :
       /\ Cardinality(Children(items, c)) <= ItemDefs[items[c].def].children
       /\ container_weight(items, c) <= ItemDefs[items[c].def].maxWeight

NewCharacter(id, controller, lifetime, location) ==
  [controller |-> controller, lifetime |-> lifetime,
   location |-> location, root |-> id + 1]

(* The objects a scene plan becomes, numbered from id on: the scene, its   *)
(* places, and the characters of entries with what they carry.             *)
MaterializedPlaces(plan, id) ==
  [p \in (id + 1)..(id + Len(plan.edges)) |->
     [scene |-> id, edges |-> {id + q : q \in plan.edges[p - id]}]]

CharacterId(plan, entries, id, k) ==
  id + 1 + Len(plan.edges)
     + MapThenSumSet(LAMBDA j : Size(entries[j].inventory), 1..(k - 1))

MaterializedCharacters(plan, entries, id) ==
  LET ids == {CharacterId(plan, entries, id, k) : k \in DOMAIN entries}
      at(c) == CHOOSE k \in DOMAIN entries : CharacterId(plan, entries, id, k) = c
      lifetime(e) == IF e.persistent THEN Persistent ELSE id
  IN  [c \in ids |-> NewCharacter(c, entries[at(c)].controller,
                                  lifetime(entries[at(c)]),
                                  id + entries[at(c)].place)]

MaterializedItems(plan, entries, id) ==
  LET of(k) == InventoryItems(entries[k].inventory,
                              CharacterId(plan, entries, id, k),
                              id + entries[k].place)
      ids == UNION {DOMAIN of(k) : k \in DOMAIN entries}
  IN  [i \in ids |-> of(CHOOSE k \in DOMAIN entries : i \in DOMAIN of(k))[i]]

PlanSize(plan, entries) ==
  1 + Len(plan.edges)
    + MapThenSumSet(LAMBDA j : Size(entries[j].inventory), DOMAIN entries)

IsPlayer(entry) == entry.controller = "player"

(* DefinitionRegistry::compile_scene: places are joined both ways within   *)
(* the scene, and there is one player.  The registry does not ask for it.  *)
compile_scene(plan) ==
  /\ \A p \in DOMAIN plan.edges : \A q \in plan.edges[p] :
       q \in DOMAIN plan.edges \ {p} /\ p \in plan.edges[q]
  /\ Cardinality({k \in DOMAIN plan.characters : IsPlayer(plan.characters[k])}) = 1

Within(inventory, limits) ==
  /\ Len(inventory) <= limits.items
  /\ \A k \in DOMAIN inventory : inventory[k].def \in limits.allowed

(* The specs of the agents that may be spawned: compile_character refuses  *)
(* a definition without an agent profile, compile_draft what the policy    *)
(* does not allow, and each hands on the limits it was held to.            *)
compile_character ==
  {[inventory |-> c.inventory, limits |-> c.limits] : c \in {x \in Presets : x.profile}}

compile_draft ==
  {[inventory |-> d, limits |-> Policy] : d \in {x \in Drafts : Within(x, Policy)}}

validate_spawn_constraints(spec) == Within(spec.inventory, spec.limits)

Merge(f, g) == [x \in DOMAIN f \cup DOMAIN g |-> IF x \in DOMAIN g THEN g[x] ELSE f[x]]
One(x, y) == [z \in {x} |-> y]

(* The plan's characters without the player.                               *)
NpcEntries(plan) ==
  LET npcs[k \in 0..Len(plan.characters)] ==
        IF k = 0 THEN << >>
        ELSE IF IsPlayer(plan.characters[k]) THEN npcs[k - 1]
        ELSE Append(npcs[k - 1], plan.characters[k])
  IN  npcs[Len(plan.characters)]

----------------------------------------------------------------------------
(* validate and validate_references: what every command must leave true,   *)
(* or it is refused.  The active flag of a scene is whether it is active.  *)
ValidScenes ==
  /\ active \in DOMAIN scene
  /\ \A s \in DOMAIN scene :
       /\ scene[s].entry \in DOMAIN place
       /\ place[scene[s].entry].scene = s
       /\ \A t \in DOMAIN scene \ {s} :
            scene[s].origin # Generated => scene[s].origin # scene[t].origin

ValidPlaces ==
  \A p \in DOMAIN place :
    /\ place[p].scene \in DOMAIN scene
    /\ \A q \in place[p].edges :
         /\ q # p /\ q \in DOMAIN place
         /\ place[q].scene = place[p].scene
         /\ p \in place[q].edges

ValidCharacters ==
  /\ player \in DOMAIN char /\ char[player].controller = "player"
  /\ \A c \in DOMAIN char :
       /\ char[c].location \in DOMAIN place
       /\ char[c].root \in DOMAIN item
       /\ IsContainer(item[char[c].root])
       /\ item[char[c].root].owner = c
       /\ char[c].lifetime # Persistent
            => char[c].lifetime = place[char[c].location].scene

ValidItems ==
  /\ \A i \in DOMAIN item :
       /\ item[i].in # None => item[i].in \in DOMAIN item \ {i}
                               /\ IsContainer(item[item[i].in])
       /\ (item[i].in = None) # (item[i].at = None)
       /\ (IsContainer(item[i]) \/ item[i].slot # NoSlot) => item[i].stack = 1
  /\ NoCycle(item)

validate == ValidScenes /\ ValidPlaces /\ ValidCharacters /\ ValidItems

----------------------------------------------------------------------------
(* bootstrap: a world of one scene, all its characters, and its player.    *)
GameInit ==
  \E d \in Start :
    LET plan == Plans[d]
        entries == plan.characters
    IN  /\ compile_scene(plan)
        /\ PlanSize(plan, entries) <= MaxObjects[d]
        /\ scene = One(1, [entry |-> 1 + plan.entry, origin |-> d])
        /\ place = MaterializedPlaces(plan, 1)
        /\ char = MaterializedCharacters(plan, entries, 1)
        /\ item = MaterializedItems(plan, entries, 1)
        /\ validate_candidate_inventory(item)
        /\ active = 1
        /\ player = CHOOSE c \in DOMAIN char : char[c].controller = "player"
        /\ objects = PlanSize(plan, entries)
        /\ validate

(* Room for n more objects, the first of them numbered First.              *)
First == objects + 1
Create(n) ==
  /\ objects + n <= MaxObjects[scene[1].origin]
  /\ objects' = objects + n

----------------------------------------------------------------------------
(* The commands.                                                           *)

(* WorldCommandKind::Move                                                  *)
move_character(a, destination) ==
  LET from == char[a].location
  IN  /\ from # destination
      /\ destination \in place[from].edges
      /\ place[from].scene = place[destination].scene
      /\ char[a].lifetime # Persistent
           => place[destination].scene = char[a].lifetime
      /\ char' = [char EXCEPT ![a].location = destination]
      /\ UNCHANGED <<scene, place, item, active, player, objects>>

(* Faulty variant: any container will do.                                  *)
MayTransferAnywhere(a, i, c) ==
  item[i].owner = a /\ IsContainer(item[c]) /\ i \notin Holders(item, c)

(* What transfer_item asks of the item and of the container it goes to.    *)
MayTransfer(a, i, c) ==
  /\ item[i].owner = a
  /\ IsContainer(item[c])
  /\ item[c].owner \in {None, a}
  /\ i \notin Holders(item, c)

Fits(i, c) ==
  item[i].in # c =>
    /\ Cardinality(Children(item, c)) < ItemDefs[item[c].def].children
    /\ container_weight(item, c) + item_tree_weight(item, i)
         <= ItemDefs[item[c].def].maxWeight

transfer_item(a, i, c) ==
  /\ MayTransfer(a, i, c)
  /\ Fits(i, c)
  /\ item' = [item EXCEPT ![i].in = c, ![i].at = None]
  /\ UNCHANGED <<scene, place, char, active, player, objects>>

(* Another item of the wearer is in that slot.                             *)
SlotOccupied(a, i, s) ==
  \E j \in DOMAIN item \ {i} : item[j].owner = a /\ item[j].slot = s

equip_item(a, i, s) ==
  /\ item[i].owner = a /\ item[i].stack = 1
  /\ s \in ItemDefs[item[i].def].slots
  /\ ~SlotOccupied(a, i, s)
  /\ item' = [item EXCEPT ![i].slot = s]
  /\ UNCHANGED <<scene, place, char, active, player, objects>>

(* The new stack goes where the old one is; nothing is asked about room.   *)
split_stack(a, i, quantity) ==
  /\ item[i].owner = a
  /\ quantity < item[i].stack
  /\ ~IsContainer(item[i]) /\ item[i].slot = NoSlot
  /\ Create(1)
  /\ item' = Merge([item EXCEPT ![i].stack = @ - quantity],
                   One(First, [item[i] EXCEPT !.stack = quantity]))
  /\ UNCHANGED <<scene, place, char, active, player>>

(* Faulty variant: the weight is not looked at.                            *)
GrantFitsByCount(a, def, quantity) ==
  Cardinality(Children(item, char[a].root)) < ItemDefs[item[char[a].root].def].children

(* The effect GrantItem, which an action, an option, a skill, a condition  *)
(* or a rule applies to a character.                                       *)
GrantFits(a, def, quantity) ==
  LET root == char[a].root
      capacity == ItemDefs[item[root].def]
  IN  /\ Cardinality(Children(item, root)) < capacity.children
      /\ container_weight(item, root) + ItemDefs[def].weight * quantity
           <= capacity.maxWeight

apply_grant_item(a, def, quantity) ==
  /\ quantity <= ItemDefs[def].limit
  /\ ItemDefs[def].children > 0 => quantity = 1
  /\ GrantFits(a, def, quantity)
  /\ Create(1)
  /\ item' = Merge(item,
       One(First, item_from_definition(def, quantity, char[a].root, a)))
  /\ UNCHANGED <<scene, place, char, active, player>>

spawn_character(a, spec, p, persistent) ==
  LET items == InventoryItems(spec.inventory, First, p)
      lifetime == IF persistent THEN Persistent ELSE place[p].scene
  IN  /\ validate_spawn_constraints(spec)
      /\ validate_candidate_inventory(items)
      /\ Create(Size(spec.inventory))
      /\ char' = Merge(char, One(First, NewCharacter(First, "agent", lifetime, p)))
      /\ item' = Merge(item, items)
      /\ UNCHANGED <<scene, place, active, player>>

promote_character(target) ==
  /\ char[target].lifetime # Persistent
  /\ char' = [char EXCEPT ![target].lifetime = Persistent]
  /\ UNCHANGED <<scene, place, item, active, player, objects>>

create_scene(a) ==
  /\ a = player
  /\ Create(2)
  /\ scene' = Merge(scene, One(First, [entry |-> First + 1, origin |-> Generated]))
  /\ place' = Merge(place, One(First + 1, [scene |-> First, edges |-> {}]))
  /\ UNCHANGED <<char, item, active, player>>

(* Faulty variant: the new place is joined to nothing.                     *)
CreatePlaceApart(a) ==
  /\ a = player
  /\ place[char[a].location].scene = active
  /\ Create(1)
  /\ place' = Merge(place, One(First, [scene |-> active, edges |-> {}]))
  /\ UNCHANGED <<scene, char, item, active, player>>

create_place(a) ==
  LET here == char[a].location
  IN  /\ a = player
      /\ place[here].scene = active
      /\ Create(1)
      /\ place' = Merge([place EXCEPT ![here].edges = @ \cup {First}],
                        One(First, [scene |-> active, edges |-> {here}]))
      /\ UNCHANGED <<scene, char, item, active, player>>

(* The end of transition_scene: the flags, the player and the world state  *)
(* change together; all other characters stay.  scene and place are given  *)
(* as they are then.                                                       *)
Enter(a, target, scenes, chars) ==
  /\ target # active
  /\ active' = target
  /\ char' = [chars EXCEPT ![a].location = scenes[target].entry]

MayTransition(a) == a = player /\ char[a].lifetime = Persistent

transition_existing(a, target) ==
  /\ MayTransition(a)
  /\ Enter(a, target, scene, char)
  /\ UNCHANGED <<scene, place, item, player, objects>>

(* SceneTransitionTarget::Definition: the scene that came from the         *)
(* definition, or a new one.  The plan's player entry is left out.         *)
InstancesOf(d) == {s \in DOMAIN scene : scene[s].origin = d}

transition_by_definition(a, d) ==
  LET plan == Plans[d]
      entries == NpcEntries(plan)
      scenes == Merge(scene, One(First, [entry |-> First + plan.entry, origin |-> d]))
  IN  /\ MayTransition(a)
      /\ \/ /\ InstancesOf(d) # {}
            /\ Enter(a, CHOOSE s \in InstancesOf(d) : TRUE, scene, char)
            /\ UNCHANGED <<scene, place, item, objects>>
         \/ /\ InstancesOf(d) = {}
            /\ compile_scene(plan)
            /\ validate_candidate_inventory(MaterializedItems(plan, entries, First))
            /\ Create(PlanSize(plan, entries))
            /\ scene' = scenes
            /\ place' = Merge(place, MaterializedPlaces(plan, First))
            /\ item' = Merge(item, MaterializedItems(plan, entries, First))
            /\ Enter(a, First, scenes,
                     Merge(char, MaterializedCharacters(plan, entries, First)))
      /\ UNCHANGED player

(* Every command of a character; a command that leaves an invalid world is *)
(* refused.                                                                *)
CharacterCommand(a) ==
  \/ \E p \in DOMAIN place : move_character(a, p)
  \/ \E i, c \in DOMAIN item : transfer_item(a, i, c)
  \/ \E i \in DOMAIN item : \E s \in ItemDefs[item[i].def].slots : equip_item(a, i, s)
  \/ \E i \in DOMAIN item : \E q \in 1..(item[i].stack - 1) : split_stack(a, i, q)
  \/ \E g \in Grants : apply_grant_item(a, g[1], g[2])
  \/ \E spec \in compile_character, p \in DOMAIN place, persistent \in BOOLEAN :
       spawn_character(a, spec, p, persistent)
  \/ \E spec \in compile_draft, p \in DOMAIN place, persistent \in BOOLEAN :
       spawn_character(a, spec, p, persistent)
  \/ \E target \in DOMAIN char : promote_character(target)
  \/ create_scene(a)
  \/ create_place(a)
  \/ \E s \in DOMAIN scene : transition_existing(a, s)
  \/ \E d \in DOMAIN Plans : transition_by_definition(a, d)

GameNext == \E a \in DOMAIN char : CharacterCommand(a) /\ validate'

GameSpec == GameInit /\ [][GameNext]_gameVars

----------------------------------------------------------------------------
(* Properties.                                                             *)

(* Whatever was moved, split or granted, every item lies, directly or in   *)
(* bags, in the inventory root of the character that owns it; the root     *)
(* itself never goes into anything.  validate asks for less (no cycle, a   *)
(* container above), so this rests on the checks of transfer_item.         *)
InventoryTree ==
  \A i \in DOMAIN item :
    /\ char[item[i].owner].root \in Holders(item, i)
    /\ i = char[item[i].owner].root => item[i].in = None

(* Nobody carries more than their inventory root allows, all bags counted. *)
(* transfer_item looks at the container the item goes to and not at those  *)
(* around it, and split_stack looks at none.                               *)
CarriedWithinCapacity ==
  \A c \in DOMAIN char :
    container_weight(item, char[c].root)
      <= ItemDefs[item[char[c].root].def].maxWeight

(* The places that can be reached from p along the edges.                  *)
Walk(p) ==
  LET reach[n \in 0..Cardinality(DOMAIN place)] ==
        IF n = 0 THEN {p}
        ELSE LET reached == reach[n - 1]
             IN  reached \cup UNION {place[q].edges : q \in reached}
  IN  reach[Cardinality(DOMAIN place)]

(* The player is in the active scene, and from there can walk to each of   *)
(* its places: create_place joins what it adds to where the player is, and *)
(* a transition leads to the entry of a whole scene.                       *)
PlayerCanWalk ==
  Walk(char[player].location) = {p \in DOMAIN place : place[p].scene = active}

(* What compile_scene does not ask for: that every place of a definition   *)
(* can be reached from every other one.  A definition whose places fall    *)
(* apart gives a scene the player cannot walk through.                     *)
PlanJoined(edges) ==
  \A C \in SUBSET DOMAIN edges :
    C # {} /\ (\A p \in C : edges[p] \subseteq C) => C = DOMAIN edges

PlansJoined == \A d \in DOMAIN Plans : compile_scene(Plans[d]) => PlanJoined(Plans[d].edges)

=============================================================================
