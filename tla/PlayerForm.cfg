SPECIFICATION FormSpec
CONSTANTS
  Forms <- MCForms
  Parameters <- MCParameters
  Template <- MCTemplate
  NameBytes = 2
  TextBytes = 2
  NumberBytes = 2
  Characters = {"1", "x"}
  Typed <- MCTyped
INVARIANTS  PlayerAsShown
PROPERTY EditsKept
CHECK_DEADLOCK FALSE
