\* Three extractor processes, one of which may be killed. They all stop when they have returned.
SPECIFICATION DriverSpec
CONSTANTS
  p = p  q = q  r = r
  source1 = source1  source2 = source2  source3 = source3
  assembly2 = assembly2  assembly3 = assembly3
  compilation1 = compilation1  compilation2 = compilation2  compilation3 = compilation3
  None = None
  Partial = Partial
  Task <- Tasks
  ProcessOf <- ProcessOfTask
  TrapFile <- TrapFileOfTask
  Output <- Outputs
  Source <- SourceOfTask
  DiscardDuplicates = {assembly3, compilation1, compilation2, compilation3}
  UsesExisting = {assembly3}
  Last = {compilation1, compilation2, compilation3}
  Missing = {source3, assembly3}
  Throws = {source2, compilation2}
  MoveFails = {source3}
  Killable = {q}
  Args <- CommandLine
  Unrecognized = {q}
  Unparsable = {q}
  Unclaimable = {q}
  Erroneous = {q}
  Unhandled = {q}
CHECK_DEADLOCK FALSE
INVARIANT PublishedIsWhole
INVARIANT NothingIsLost
INVARIANT ArchiveIsKept
INVARIANT OkMeansExtracted
INVARIANT ErrorsAreReported
PROPERTY PublishedStays
