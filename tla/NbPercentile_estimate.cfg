SPECIFICATION ReportSpec
CONSTANTS
  BucketsCount = 6
  Buckets <- SmallBuckets
  Values <- SmallValues
  MaxSamples = 5
  Percentiles <- CoarsePercentiles
  AssertsOn = FALSE
INVARIANTS
  PercentileNearExact
  LatenciesOrdered
