SPECIFICATION Spec
CONSTANTS
  BucketsCount = 6
  Buckets <- SmallBuckets
  Values <- SmallValues
  MaxSamples = 4
INVARIANTS
  TypeOK
  BucketsCountSamples
  ExtremesOfSamples
PROPERTIES
  AddReturns
  ImplementsHistogram
