SPECIFICATION GameSpec
CONSTANTS
  ItemDefs <- MCItemDefs
  RootDef = "root"
  Plans <- MCPlans
  Start = {"camp", "inn"}
  Presets <- MCPresets
  Drafts <- MCDrafts
  Policy <- MCPolicy
  Grants <- MCGrants
  MaxObjects <- MCMaxObjects
INVARIANTS InventoryTree CarriedWithinCapacity PlayerCanWalk
