SPECIFICATION Spec
CONSTANTS
  MaxTurns = 3
  MaxCalls = 2
INVARIANTS CancelIsOwn
PROPERTIES CancelEnds ResponsiveShutdown InputAnswered
