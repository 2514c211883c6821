SPECIFICATION FairSpec
CONSTANTS
  Capacity = 2
  NumIntervals = 2
  Demands = {1, 2}
PROPERTIES Served
