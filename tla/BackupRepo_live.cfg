SPECIFICATION FairSpec
CONSTANTS
  Backups = {b0, b1}
  Legacy = {b0}
  Reasons = {r1}
  Cleaners = {c1, c2}
INVARIANTS Inv
PROPERTIES ImplementsCatalog OrphansCollected
