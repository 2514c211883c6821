SPECIFICATION CalmSpec
CONSTANTS
  Backups = {b1, b2}
  Legacy = {}
  Reasons = {r1, r2}
  Cleaners = {c1}
SYMMETRY Symmetry
INVARIANTS TypeOK NoDanglingModel InFlightIsKept
PROPERTIES SweepKeepsMergeBase SweepKeepsAssistBase
