SPECIFICATION ReportSpec
CONSTANTS
  BucketsCount = 6
  Buckets <- SmallBuckets
  Values <- SmallValues
  MaxSamples = 3
  Percentiles <- RunPercentiles
  AssertsOn = TRUE
INVARIANTS
  RowsAreHalfOpen
