\* Calls from augmentAst in any order, with any number of compilers.
SPECIFICATION FairSpec
CONSTANTS
  Number = Number  Generic0 = Generic0  Generic0b = Generic0b  Generic1 = Generic1  Generic2 = Generic2
  Generic3 = Generic3  Inline = Inline  Function = Function  Name = Name  Mixed = Mixed  List = List
  Loop = Loop  Odd = Odd  Crash = Crash  Outer = Outer  Inner = Inner
  Foo = Foo  Returns0 = Returns0  Returns1 = Returns1  Returns2 = Returns2  Bounded = Bounded
  Code = Code
  None = None
  Type <- Types
  Symbol <- Symbols
  Signature <- Signatures
  File = {Code}
  Tag <- Tags
  Parts <- PartsOf
  Optional <- Constraints
  Firm <- Unconstrained
  After <- Follows
  Members <- MembersOf
  Global = {Foo}
  Alias = {Name}
  AlwaysSafe = {Number, Inline, Function, Name}
  Unprintable = {Crash}
  MaxDepth = 4
  AstType = {Generic0b, Generic1, Inline, Name, Mixed}
  AstSymbol = {Inner}
  AstSignature = {Returns0}
INVARIANT IdsAreCanonical
INVARIANT PendingIsQueued
INVARIANT MembersAreComplete
INVARIANT BuiltIsFull
INVARIANT ExpansionIsCut
PROPERTY CallReturns
