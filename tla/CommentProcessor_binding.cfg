\* The processor stops when the bindings are generated.
SPECIFICATION Spec
CONSTANTS
  ElementAt <- Elements_
  CommentAt <- Comments_
  Label <- Labels
  Key = {"k"}
  Programs <- Calls
  LineAt <- Row
  ColumnAt <- Column
  None = None
CHECK_DEADLOCK FALSE
INVARIANT StackIsNested
INVARIANT BindingsAreRight
INVARIANT LinesInOneBlock
