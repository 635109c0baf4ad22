\* Two operators suffice for an event to come before one of an earlier position.
SPECIFICATION Spec
CONSTANTS
  Asts <- Trees
  Infinity = Infinity
CHECK_DEADLOCK FALSE
INVARIANT EveryRescanHappens
