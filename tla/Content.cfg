SPECIFICATION Spec
CONSTANTS
  Engine = 2
  World = 3
  Inputs <- MCInputs
INVARIANTS OrderExact RegistryClosed CascadesFinite
CHECK_DEADLOCK FALSE
