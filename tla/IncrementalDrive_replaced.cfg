SPECIFICATION Spec
CONSTANTS
  a = a
  b = b
  ab = ab
  f1 = f1
  f2 = f2
  f3 = f3
  f4 = f4
  doc = doc
  Root = Root
  Nowhere = Nowhere
  Folders = {f1, f2, f3, f4}
  Files = {doc}
  Names = {a, b}
  StartsWith <- NoPrefixes
  FirstDrives <- DeepDrives
  MaxOps = 3
  MaxResets = 0
  MaxFails = 0
INVARIANT LocationsMatch
