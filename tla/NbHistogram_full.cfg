SPECIFICATION Spec
CONSTANTS
  BucketsCount = 155
  Buckets <- FullRanks
  Values <- FullValues
  MaxSamples = 1
INVARIANTS
  SearchBrackets
PROPERTIES
  SearchShrinks
