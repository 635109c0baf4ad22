SPECIFICATION FairSpec
CONSTANTS
  f1 = f1
  f2 = f2
  p1 = p1
  p2 = p2
  File <- MCFile
  Project <- TwoProjects
  OwnFiles <- TwoProjectsOwn
  ProgramFiles <- TwoProjectsProgram
  Redirected = {f2}
  Batches <- MCBatches
  Deletable = {f2}
  MaxCallbacks = 2
  CrashCodes = {1, 5, 134}
  StartErrors = {"UserError", "ResourceError", "CatastrophicError"}
  NoProject = NoProject
  NoCall = NoCall
  NoResponse = NoResponse
  NoResult = NoResult
INVARIANTS
  TypeOK
  AnswerIsForRequestedFile
  ReadAheadIsNext
  Lockstep
  SuccessMeansEffect
  TypesOfAnswerAreInTable
  MetadataBeforeAst
PROPERTIES
  TypesAreKept
  ImplementsService
  CallReturns
