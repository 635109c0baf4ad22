\* The same command line in two directories, without faults. The processes stop when they have returned.
SPECIFICATION DriverSpec
CONSTANTS
  p = p  q = q  r = r
  source1 = source1  source2 = source2  source3 = source3
  assembly2 = assembly2  assembly3 = assembly3
  compilation1 = compilation1  compilation2 = compilation2  compilation3 = compilation3
  None = None
  Partial = Partial
  Task <- Tasks
  ProcessOf <- ProcessOfTask
  TrapFile <- TrapFileElsewhere
  Output <- Outputs
  Source <- SourceOfTask
  DiscardDuplicates = {assembly3, compilation1, compilation2, compilation3}
  UsesExisting = {assembly3}
  Last = {compilation1, compilation2, compilation3}
  Missing = {}
  Throws = {}
  MoveFails = {}
  Killable = {}
  Args <- CommandLine
  Unrecognized = {}
  Unparsable = {}
  Unclaimable = {}
  Erroneous = {}
  Unhandled = {}
CHECK_DEADLOCK FALSE
INVARIANT OkMeansExtracted
