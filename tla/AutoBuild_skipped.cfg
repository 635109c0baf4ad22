SPECIFICATION BuildSpec
CONSTANTS
  h1 = h1  h2 = h2  s1 = s1  s2 = s2  t1 = t1  t2 = t2  t3 = t3
  j1 = j1  j2 = j2  j3 = j3  x1 = x1  p1 = p1  p2 = p2
  File <- MCFile
  Order <- MCOrder
  Project <- MCProject
  OwnFiles <- MCOwn
  ProgramFiles <- MCProgram
  Redirected = {}
  Batches <- MCBatches
  Deletable = {t1}
  MaxCallbacks = 2
  CrashCodes = {}
  StartErrors = {}
  TsConfigs <- MCTsConfigs
  Html <- MCHtml
  TypeScript <- MCTypeScript
  Snippet <- MCSnippet
  Extern <- MCExtern
  SnippetOf <- MCSnippetOf
  DerivedFrom <- MCDerivedFrom
  Content <- AllDifferent
  HasCode = {j2}
  Broken = {}
  Caching = FALSE
  WarmCache = {}
  Trimmed = {}
  Threads = 0
  NoProject = NoProject
  NoCall = NoCall
  NoResponse = NoResponse
  NoResult = NoResult
  NoFile = NoFile
  NoTrap = NoTrap
INVARIANT SkippingIsHarmless
