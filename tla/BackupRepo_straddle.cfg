SPECIFICATION Spec
CONSTANTS
  Backups = {b1, b2}
  Legacy = {}
  Reasons = {r1}
  Cleaners = {c1}
PROPERTIES SweepSparesCompleteBackups
