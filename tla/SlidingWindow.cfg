SPECIFICATION FairSpec
CONSTANTS
  Capacity = 3
  NumIntervals = 3
  Demands = {1, 2, 4}
INVARIANTS TypeOK TokensConserved AtMostCapacityPerWindow SlideNeverBlocks
PROPERTIES ServedUnlessLost ResetEnds
