SPECIFICATION Spec
CONSTANTS
  Actors = {"p"}
  Player = "p"
  MaxPool = 2
  Conditions <- MCConditions
  Skills <- MCSkills
  Known <- MCKnown
  Actions <- MCActions
  Story <- MCStory
  FirstNode = "door"
  StoryScene = "hall"
  Rules <- MCRules
  Scenes = {"hall", "cave"}
  FirstScene = "hall"
  max_triggered_rules = 16
  max_evaluated_predicates = 16
  max_applied_effects = 16
  max_cascade_depth = 4
  MaxClock = 6
  MaxCommands = 4
  MaxTicks = 6
INVARIANTS Replayable
CHECK_DEADLOCK FALSE
