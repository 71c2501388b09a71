SPECIFICATION Spec
CONSTANTS
  Npcs = {"n1", "n2", "n3"}
  InitialNpcs = {"n1"}
  Home = "hall"
  SceneOf <- MCSceneOf
  Entry <- MCEntry
  Decisions <- MCDecisions
  MaxInputs = 2
  MaxTools = 2
  TurnCalls = 1
  max_model_calls = 2
  max_started_agent_turns = 3
  max_orchestration_rounds = 2
  max_generated_per_orchestration = 1
  max_materialized_per_scene = 2
  max_persistent_generated = 1
INVARIANTS RequestsAnswered WithinLimits HeardInPresence
PROPERTIES InputEnds
