SPECIFICATION Spec
CONSTANTS
  Actors = {"p", "n"}
  Player = "p"
  MaxPool = 2
  Conditions <- MCConditions
  Skills <- MCSkills
  Known <- MCKnown
  Actions <- MCActions
  Story <- MCStory
  FirstNode = "door"
  StoryScene = "hall"
  Rules <- MCRules
  Scenes = {"hall", "cave"}
  FirstScene = "hall"
  max_triggered_rules = 4
  max_evaluated_predicates = 6
  max_applied_effects = 7
  max_cascade_depth = 2
  MaxClock = 6
  MaxCommands = 4
  MaxTicks = 3
INVARIANTS  OnTime ClockRulesExact
CHECK_DEADLOCK FALSE
