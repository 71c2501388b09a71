SPECIFICATION Spec
CONSTANTS
  budget <- MCBudget
  Responses <- MCResponses
  max_context_tokens = 6
  StartSize = 1
  MaxRivals = 1
  Partial = TRUE
  Require = FALSE
INVARIANTS WithinBudget  DecisionFresh
PROPERTIES TurnEnds
