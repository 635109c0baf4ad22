\* A source file or an assembly, whose code may throw and exceed the nesting depth. The context stops when its task returns.
SPECIFICATION FairSpec
CONSTANTS
  Entity <- Entities
  NoEntity = NoEntity
  Behaviour <- Behaviours
  NeedsPopulation <- Described
  SecondCache <- InSecondCache
  Uses <- Graph
  ErrorLocation <- Reported
  Members <- MethodFirst
  Declarations <- Nodes
  Comments <- Commented
  Faulty <- SomeFaults
  MaxDepth = 3
CHECK_DEADLOCK FALSE
INVARIANT EverythingIsPopulated
INVARIANT PopulatedOnce
INVARIANT Balanced
INVARIANT LabelsAreDefined
PROPERTY NothingWrittenInLabel
PROPERTY NoLabelOutsideGuards
PROPERTY GuardIsKept
PROPERTY ExtractionEnds
