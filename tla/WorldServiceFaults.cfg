SPECIFICATION Spec
CONSTANTS
  c1 = c1
  c2 = c2
  Callers = {c1, c2}
  Kinds <- AllKinds
  Sources = {"s1"}
  MaxActions = 4
  Rivals = FALSE
  LoadMayFail = TRUE
  ResolveMayFail = TRUE
SYMMETRY Symmetry
INVARIANTS CommitsFromCommitted RememberedOnce
