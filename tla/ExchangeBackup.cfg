SPECIFICATION Spec
CONSTANTS
  f1 = f1
  f2 = f2
  i1 = i1
  i2 = i2
  a = a
  b = b
  Root = Root
  Nowhere = Nowhere
  Folders = {f1, f2}
  Messages = {i1, i2}
  Names = {a, b}
  maxIterations = 4
  FirstMailboxes <- SomeMailboxes
  MaxOps = 3
CHECK_DEADLOCK FALSE
INVARIANT TypeOK
INVARIANT NeverRefused
PROPERTY ImplementsCatchUp
PROPERTY UntouchedItemsAreRight
