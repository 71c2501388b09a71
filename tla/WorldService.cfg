SPECIFICATION Spec
CONSTANTS
  c1 = c1
  c2 = c2
  Callers = {c1, c2}
  Kinds <- RecordKinds
  Sources = {"s1"}
  MaxActions = 4
  Rivals = TRUE
  LoadMayFail = FALSE
  ResolveMayFail = FALSE
INVARIANTS  SuccessIsDurable FailureIsAbsent
 
