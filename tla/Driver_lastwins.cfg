\* Two processes refer to the same assembly, both with --cache; the extraction of
\* one may throw. They stop when they have returned.
SPECIFICATION DriverSpec
CONSTANTS
  p = p  q = q  r = r
  source1 = source1  source2 = source2  source3 = source3
  assembly2 = assembly2  assembly3 = assembly3
  compilation1 = compilation1  compilation2 = compilation2  compilation3 = compilation3
  None = None
  Partial = Partial
  Task <- Referring
  ProcessOf <- ProcessReferring
  TrapFile <- TrapFileReferring
  Output <- OutputsReferring
  Source <- SourceReferring
  DiscardDuplicates = {assembly2, assembly3, compilation2, compilation3}
  UsesExisting = {assembly2, assembly3}
  Last = {compilation2, compilation3}
  Missing = {}
  Throws = {assembly2}
  MoveFails = {}
  Killable = {}
  Args <- OwnCommandLine
  Unrecognized = {}
  Unparsable = {}
  Unclaimable = {}
  Erroneous = {}
  Unhandled = {}
CHECK_DEADLOCK FALSE
PROPERTY LastOneWins
