SPECIFICATION DecaySpec
CONSTANTS
  HeapCapacity = 4
  Priorities = {0, 1, 2, 3, 4}
  Infinity = 4
  NaN = NaN
  Factors <- MCFactors
  MaxSamples = 6
INVARIANTS HeapOrdered LargestSurvive
