---------------------------- MODULE MCGameWorld ----------------------------
(* Small worlds for GameWorld.  A camp, where the player carries bags and  *)
(* coins to arrange; an inn, where there is little to carry and the world  *)
(* grows; a cellar of two rooms with someone in it; and a ruin whose places *)
(* are joined one way only, which no transition can enter.                 *)
EXTENDS GameWorld

Item(weight, limit, children, maxWeight, slots) ==
  [weight |-> weight, limit |-> limit, children |-> children,
   maxWeight |-> maxWeight, slots |-> slots]

MCItemDefs ==
  [root |-> Item(0, 1, 4, 7, {}),
   bag  |-> Item(1, 1, 2, 3, {}),
   coin |-> Item(2, 2, 0, 0, {}),
   ring |-> Item(1, 1, 0, 0, {"left", "right"})]

Carry(def, quantity, parent) ==
  [def |-> def, quantity |-> quantity, parent |-> parent]

Entry(controller, p, persistent, inventory) ==
  [controller |-> controller, place |-> p, persistent |-> persistent,
   inventory |-> inventory]

Plan(edges, characters) == [edges |-> edges, entry |-> 1, characters |-> characters]

MCPlans ==
  [camp |-> Plan(<<{}>>,
     <<Entry("player", 1, TRUE,
             <<Carry("bag", 1, 0), Carry("bag", 1, 1), Carry("coin", 2, 0)>>),
       Entry("agent", 1, FALSE, <<>>)>>),
   inn |-> Plan(<<{}>>, <<Entry("player", 1, TRUE, <<>>)>>),
   cellar |-> Plan(<<{2}, {1}>>,
     <<Entry("player", 1, TRUE, <<>>), Entry("agent", 1, FALSE, <<>>)>>),
   ruin |-> Plan(<<{2}, {}>>, <<Entry("player", 1, TRUE, <<>>)>>)]

MCPolicy == [items |-> 3, allowed |-> {"bag", "coin"}]
Preset(inventory, profile) == [inventory |-> inventory, limits |-> MCPolicy, profile |-> profile]
MCPresets == {Preset(<<>>, TRUE), Preset(<<Carry("ring", 1, 0)>>, FALSE)}
MCDrafts ==
  {<<Carry("coin", 1, 0)>>, <<Carry("ring", 1, 0)>>,
   <<Carry("bag", 1, 0), Carry("coin", 1, 1), Carry("coin", 1, 1)>>,
   <<Carry("bag", 1, 0), Carry("coin", 1, 1), Carry("coin", 1, 1), Carry("coin", 1, 0)>>}

MCMaxObjects == [camp |-> 11, inn |-> 9]

MCGrants == {<<"ring", 1>>}

ASSUME PlansJoined
============================================================================
