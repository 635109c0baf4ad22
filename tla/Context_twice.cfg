\* A constructor that comes back to the entity it constructs. The context stops when its task returns.
SPECIFICATION Spec
CONSTANTS
  Entity <- Entities
  NoEntity = NoEntity
  Behaviour <- Behaviours
  NeedsPopulation <- Described
  SecondCache <- InSecondCache
  Uses <- Graph
  ErrorLocation <- Reported
  Members <- ArrayFirst
  Declarations <- Nodes
  Comments <- Commented
  Faulty <- NoFaults
  MaxDepth = 9
CHECK_DEADLOCK FALSE
INVARIANT PopulatedOnce

